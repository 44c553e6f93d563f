---------------------------- MODULE TlsMessages ----------------------------
(***************************************************************************)
(* What TLSHandler (MrBoboSockets/TLSHandler.cpp and .h) writes into a      *)
(* record and reads out of one: the two hellos, the certificate's public   *)
(* key, the PEM file's private key, the key block and an encrypted record. *)
(* Each message is written by one function, often with its length computed *)
(* by a second one, and read by a third with positions of its own.         *)
(*                                                                         *)
(* A string is a sequence of bytes, scaled down where only its length      *)
(* counts: RandomSize stands for the 32 bytes of a Random, BlockSize for   *)
(* the 16 of a cipher block, DigestSize for the hash or the tag.             *)
(*                                                                         *)
(* An operator whose name ends in an underscore and a word is the one      *)
(* after it with a plausible mistake; it shows what a property notices.    *)
(***************************************************************************)
EXTENDS Naturals, Sequences, SequencesExt

CONSTANTS RandomSize, BlockSize, DigestSize

(* The handlers of numbers: big endian, and no wider than their type. *)
Net8(n) == <<n % 256>>
Net16(n) == Net8(n \div 256) \o Net8(n)
Net24(n) == Net8(n \div 65536) \o Net16(n)
Extract8(d, p) == d[p]
Extract16(d, p) == 256 * d[p] + d[p + 1]
Take(d, p, n) == SubSeq(d, p, p + n - 1)

(* AddOpaqueArray with a length of one, two or three bytes. *)
Opaque(width, d) ==
    CASE width = 1 -> Net8(Len(d)) \o d
      [] width = 2 -> Net16(Len(d)) \o d
      [] width = 3 -> Net24(Len(d)) \o d

Alert == 21   Handshake == 22   ApplicationData == 23   ChangeCipherSpec == 20
ClientHello == 1   ServerHello == 2   CertificateType == 11
ServerName == 0   SignatureAlgorithms == 13
SupportedGroups == 10   ECPointFormats == 11   NoExtension == 12  \* Null

(* GetHandShakeRecord: both lengths come from the body. *)
HandshakeRecord(type, body) ==
    <<Handshake, 3, 3>> \o Net16(Len(body) + 4) \o <<type>>
        \o Net24(Len(body)) \o body

-----------------------------------------------------------------------------
(* The hellos.  An extension is [type, data].                              *)

GenerateServernameExtension(name) ==
    [type |-> ServerName,
     data |-> Net16(3 + Len(name)) \o <<0>> \o Opaque(2, name)]

GenerateDHEExtensions ==
    <<[type |-> SupportedGroups, data |-> <<0, 2, 0, 23>>],
      [type |-> ECPointFormats, data |-> <<1, 0>>]>>

GetClientExtensions(name) ==
    <<[type |-> SignatureAlgorithms, data |-> <<0, 2, 4, 1>>],
      GenerateServernameExtension(name)>> \o GenerateDHEExtensions

(* 0x3c, which p_GetCipherSuiteData does not know, and ECDHE with GCM. *)
SupportedCipherSuites == <<<<0, 60>>, <<192, 47>>>>

HelloOf(random, session, name) ==
    [random |-> random, session |-> session, suites |-> SupportedCipherSuites,
     compression |-> <<0>>, extensions |-> GetClientExtensions(name)]

SizeOfExtensions(xs) ==
    FoldSeq(LAMBDA x, n : n + 4 + Len(x.data), 0, xs)

SizeOfHello_NoList(h) ==
    2 + RandomSize + 1 + Len(h.session) + 2 + 2 * Len(h.suites)
        + 1 + Len(h.compression) + SizeOfExtensions(h.extensions)
SizeOfHello(h) ==
    2 + RandomSize + 1 + Len(h.session) + 2 + 2 * Len(h.suites)
        + 1 + Len(h.compression)
        + (IF h.extensions = <<>> THEN 0 ELSE 2)
        + SizeOfExtensions(h.extensions)

WriteExtensions(xs) ==
    FlattenSeq([i \in DOMAIN xs |-> Net16(xs[i].type) \o Opaque(2, xs[i].data)])

FillArrayWithHello(h) ==
    <<3, 3>> \o h.random \o Opaque(1, h.session)
        \o Net16(2 * Len(h.suites)) \o FlattenSeq(h.suites)
        \o Opaque(1, h.compression)
        \o (IF h.extensions = <<>> THEN <<>>
            ELSE Net16(SizeOfExtensions(h.extensions)))
        \o WriteExtensions(h.extensions)

(* The array is allocated, and its headers are filled in, by SizeOfHello.  *)
GenerateClientHello(h) ==
    <<Handshake, 3, 3>> \o Net16(SizeOfHello(h) + 4)
        \o <<ClientHello>> \o Net24(SizeOfHello(h)) \o FillArrayWithHello(h)

(* The extensions between two places: ParsedBytes counts up to their size. *)
RECURSIVE ExtensionsBetween(_, _, _)
ExtensionsBetween(d, p, end) ==
    IF p = end THEN <<>>
    ELSE LET n == Extract16(d, p + 2)
         IN  <<[type |-> Extract16(d, p), data |-> Take(d, p + 4, n)]>>
                 \o ExtensionsBetween(d, p + 4 + n, end)

ParseClientHello(d) ==
    LET sid    == 12 + RandomSize
        suites == sid + 1 + Extract8(d, sid)
        nr     == Extract16(d, suites) \div 2
        comp   == suites + 2 + 2 * nr
        exts   == comp + 1 + Extract8(d, comp)
    IN  [random |-> Take(d, 12, RandomSize),
         session |-> Take(d, sid + 1, Extract8(d, sid)),
         suites |-> [i \in 1 .. nr |-> Take(d, suites + 2 * i, 2)],
         compression |-> Take(d, comp + 1, Extract8(d, comp)),
         extensions |-> IF Len(d) = exts - 1 THEN <<>>
                        ELSE ExtensionsBetween(d, exts + 2,
                                 exts + 2 + Extract16(d, exts))]

(* The first extension of a type, or an empty one of type Null. *)
GetExtension(xs, type) ==
    LET is == {i \in DOMAIN xs : xs[i].type = type}
    IN  IF is = {} THEN [type |-> NoExtension, data |-> <<>>]
        ELSE xs[CHOOSE i \in is : \A j \in is : i <= j]

(* The name list's length, which the code takes for the number of names,   *)
(* is followed by entries of type, length, name: the first of type 0 is it. *)
RECURSIVE NameIn(_, _)
NameIn(d, p) == LET n == Extract16(d, p + 1)
                IN  IF Extract8(d, p) = 0 THEN Take(d, p + 3, n)
                    ELSE NameIn(d, p + 3 + n)
GetServerName(xs) ==
    LET x == GetExtension(xs, ServerName)
    IN  IF x.type = NoExtension THEN <<>> ELSE NameIn(x.data, 3)

GetSupportedSignatureAlgorithms(xs) ==
    LET x == GetExtension(xs, SignatureAlgorithms)
    IN  IF x.data = <<>> THEN <<>>
        ELSE [i \in 1 .. Extract16(x.data, 1) \div 2 |-> Take(x.data, 1 + 2 * i, 2)]

(* The server always takes RSA with AES in CBC mode and SHA1, and sends no  *)
(* extension.                                                              *)
GenerateServerHello(random, session) ==
    HandshakeRecord(ServerHello,
        <<3, 3>> \o random \o Opaque(1, session) \o <<0, 47>> \o <<0>>)

(* The client gets it without its headers.  At most one extension is read: *)
(* the loop over them is an if.                                            *)
ParseServerHello(d) ==
    LET suite == 4 + RandomSize + Extract8(d, 3 + RandomSize)
    IN  [random |-> Take(d, 3, RandomSize),
         session |-> Take(d, 4 + RandomSize, Extract8(d, 3 + RandomSize)),
         suite |-> Take(d, suite, 2),
         compression |-> Extract8(d, suite + 2),
         extensions |-> IF suite + 2 < Len(d) - 1
                        THEN <<[type |-> Extract16(d, suite + 5),
                                data |-> Take(d, suite + 9, Extract16(d, suite + 7))]>>
                        ELSE <<>>]

-----------------------------------------------------------------------------
(* ASN.1.  An element is a tag, a length in its short or long form, and as *)
(* many bytes; the extracter is its offset.                                *)

Der(tag, d) == <<tag>> \o (IF Len(d) < 128 THEN <<Len(d)>>
                           ELSE <<130>> \o Net16(Len(d))) \o d

LengthAt(d, p) ==      \* ExtractLengthOfType: what it returns, and the place after
    IF d[p] < 128 THEN [size |-> d[p], next |-> p + 1]
    ELSE LET n == d[p] - 128
         IN  [size |-> FoldLeft(LAMBDA s, b : s * 256 + b, 0, Take(d, p + 1, n)),
              next |-> p + 1 + n]

Inside(d, p) == LengthAt(d, p + 1).next            \* after tag and length
SkipField(d, p) == Inside(d, p) + LengthAt(d, p + 1).size
Skips(d, p, n) == LET S[i \in 0 .. n] == IF i = 0 THEN p ELSE SkipField(d, S[i - 1])
                  IN  S[n]
IsContext0(tag) == tag \div 64 = 2 /\ tag % 32 = 0

(* GetServerPublicKey goes by position through the certificate: five fields *)
(* after an explicit version, six after what it takes for a first field of *)
(* another kind.                                                           *)
KeyInfoAt_FourFields(d) ==
    LET tbs == Inside(d, Inside(d, 1))
    IN  IF IsContext0(d[tbs]) THEN Skips(d, SkipField(d, tbs), 4)
        ELSE Skips(d, SkipField(d, tbs), 6)
KeyInfoAt(d) ==
    LET tbs == Inside(d, Inside(d, 1))
    IN  IF IsContext0(d[tbs]) THEN Skips(d, SkipField(d, tbs), 5)
        ELSE Skips(d, SkipField(d, tbs), 6)
GetServerPublicKey(d) ==
    LET algorithm == Inside(d, KeyInfoAt(d))
        key == SkipField(d, algorithm)
    IN  Take(d, Inside(d, key), LengthAt(d, key + 1).size)

(* The bit string of the key: a zero byte, then a sequence of two integers.*)
(* The code accepts a modulus of 257 or 513 bytes only (487-491); here one *)
(* of any length stands for them.                                          *)
ExtractRSAPublicKey(bits) ==
    LET mod == Inside(bits, 2)
        exp == SkipField(bits, mod)
    IN  [modolu |-> Take(bits, Inside(bits, mod) + 1, LengthAt(bits, mod + 1).size - 1),
         exponent |-> Take(bits, Inside(bits, exp), LengthAt(bits, exp + 1).size)]

(* The private key's file: version, modulus, public and private exponent.  *)
GetRSADecryptInfo(d) ==
    LET mod == SkipField(d, Inside(d, 1))
        private == SkipField(d, SkipField(d, mod))
    IN  [PublicModulu |-> Take(d, Inside(d, mod), LengthAt(d, mod + 1).size),
         PrivateExponent |-> Take(d, Inside(d, private), LengthAt(d, private + 1).size)]

(* Four characters of six bits, the last group possibly cut short by '='.  *)
Pad == 64
RECURSIVE Base64ToBinary(_)
Base64ToBinary(d) ==
    IF d = <<>> THEN <<>>
    ELSE LET group == SelectSeq(Take(d, 1, IF Len(d) < 4 THEN Len(d) ELSE 4),
                                LAMBDA c : c # Pad)
             bits == FoldLeft(LAMBDA n, c : n * 64 + c, 0,
                         group \o [i \in 1 .. 4 - Len(group) |-> 0])
         IN  Take(Net24(bits), 1, Len(group) - 1)
                 \o (IF Len(group) < 4 \/ Len(d) < 5 THEN <<>>
                     ELSE Base64ToBinary(SubSeq(d, 5, Len(d))))

-----------------------------------------------------------------------------
(* Padding, keys and encrypted records.                                    *)

(* RSAES_PKCS1_V1_5_ENCRYPT pads to the modulus's size; no zero in between. *)
AddPadding(d, size, filler) ==
    <<0, 2>> \o [i \in 1 .. size - 3 - Len(d) |-> filler] \o <<0>> \o d
RemovePadding(d) ==
    LET zeros == {i \in 3 .. Len(d) : d[i] = 0}
    IN  SubSeq(d, (CHOOSE i \in zeros : \A j \in zeros : i <= j) + 1, Len(d))

(* GenerateKeys deals out one stretch of the PRF's output. *)
GenerateKeys_SharedIV(block, mac, key, iv) ==
    [client_mac |-> Take(block, 1, mac), server_mac |-> Take(block, 1 + mac, mac),
     client_key |-> Take(block, 1 + 2 * mac, key),
     server_key |-> Take(block, 1 + 2 * mac + key, key),
     client_iv |-> Take(block, 1 + 2 * mac + 2 * key, iv),
     server_iv |-> Take(block, 1 + 2 * mac + 2 * key, iv)]
GenerateKeys(block, mac, key, iv) ==
    [client_mac |-> Take(block, 1, mac), server_mac |-> Take(block, 1 + mac, mac),
     client_key |-> Take(block, 1 + 2 * mac, key),
     server_key |-> Take(block, 1 + 2 * mac + key, key),
     client_iv |-> Take(block, 1 + 2 * mac + 2 * key, iv),
     server_iv |-> Take(block, 1 + 2 * mac + 2 * key + iv, iv)]

(* A MAC is as long as the digest, and tied to the writer's number for the *)
(* record, its type and length, and the data.                              *)
MacOf(key, number, type, d) ==
    [i \in 1 .. DigestSize |-> [mac |-> <<key, number, type, Len(d), d>>]]

PaddingLength(n) == (BlockSize - ((n + 1) % BlockSize)) % BlockSize

(* The plaintext blocks that p_GetCBCEncryptedRecord encrypts ... *)
CBCEncrypted(key, number, type, d) ==
    LET body == d \o MacOf(key, number, type, d)
        n == PaddingLength(Len(body))
    IN  body \o [i \in 1 .. n + 1 |-> n]
IsWholeBlocks(blocks) == Len(blocks) % BlockSize = 0

(* ... and what p_Decrypt_AES_CBC_Record makes of them: the cipher handler *)
(* takes the padding off, the MAC is cut from the end and compared.        *)
WithoutPadding_ByOne(blocks) == SubSeq(blocks, 1, Len(blocks) - blocks[Len(blocks)])
WithoutPadding(blocks) == SubSeq(blocks, 1, Len(blocks) - (blocks[Len(blocks)] + 1))
CBCDecrypted(key, number, type, blocks) ==
    LET plain == WithoutPadding(blocks)
        d == SubSeq(plain, 1, Len(plain) - DigestSize)
    IN  [verified |-> SubSeq(plain, Len(d) + 1, Len(plain)) = MacOf(key, number, type, d),
         data |-> d]

(* p_GetExplicitNonce: the low four bytes of the number, high byte first.   *)
(* The shifts for the other four are by a negative number, undefined.       *)
ExplicitNonce(number) == Net16(number \div 65536) \o Net16(number)

(* What GCM authenticates: number, type, and the length of the data, which *)
(* the reader computes from the length of the record.                      *)
AdditionalWritten(number, type, d) == <<number, type, Len(d)>>
AdditionalRead(number, type, record) ==
    <<number, type, Len(record) - DigestSize - Len(ExplicitNonce(number))>>

(* The cipher itself is external: the tag ties key, nonce and data.         *)
TagOf(key, nonce, additional, d) ==
    [i \in 1 .. DigestSize |-> [tag |-> <<key, nonce, additional, d>>]]
GCMEncrypted(key, iv, number, type, d) ==
    LET nonce == ExplicitNonce(number)
    IN  nonce \o d \o TagOf(key, iv \o nonce, AdditionalWritten(number, type, d), d)
GCMDecrypted(key, iv, number, type, r) ==
    LET nonce == SubSeq(r, 1, Len(ExplicitNonce(number)))
        d == SubSeq(r, Len(nonce) + 1, Len(r) - DigestSize)
    IN  [verified |-> SubSeq(r, Len(r) - DigestSize + 1, Len(r))
                          = TagOf(key, iv \o nonce, AdditionalRead(number, type, r), d),
         data |-> d]

(* A record carries no more than MaxFragment bytes of what is sent. *)
Fragments(d, max) ==
    [i \in 1 .. (Len(d) + max - 1) \div max |->
        SubSeq(d, 1 + (i - 1) * max, IF i * max < Len(d) THEN i * max ELSE Len(d))]
-----------------------------------------------------------------------------
(* What one side writes the other reads.                                    *)

(* The host reads the hello that the client has put together, with every   *)
(* length it announces being the one of what follows, and the name and the *)
(* algorithms are found among the extensions; the client reads the answer. *)
HelloIsRead(session, name) ==
    LET h == HelloOf([i \in 1 .. RandomSize |-> 50 * i], session, name)
        d == GenerateClientHello(h)
        p == ParseClientHello(d)
        answer == GenerateServerHello([i \in 1 .. RandomSize |-> i], session)
        body == SubSeq(answer, 10, Len(answer))
    IN  /\ p = h
        /\ Extract16(d, 4) = Len(d) - 5 /\ Extract16(d, 8) = Len(d) - 9
        /\ Len(d) - 9 = SizeOfHello(h)
        /\ ParseClientHello(GenerateClientHello([h EXCEPT !.extensions = <<>>]))
               = [h EXCEPT !.extensions = <<>>]
        /\ GetServerName(p.extensions) = name
        /\ GetSupportedSignatureAlgorithms(p.extensions) = <<<<4, 1>>>>
        /\ ParseServerHello(body) =
               [random |-> [i \in 1 .. RandomSize |-> i], session |-> session,
                suite |-> <<0, 47>>, compression |-> 0, extensions |-> <<>>]

(* The key is found in a certificate of an explicit version, whatever the  *)
(* lengths of its fields, in their short form or their long one; and the   *)
(* private key in its file.                                                *)
KeyIsFound(modulus, exponent, serial) ==
    LET field(n) == Der(48, [i \in 1 .. n |-> i % 100])
        pair == Der(48, Der(2, <<0>> \o modulus) \o Der(2, exponent))
        info == Der(48, field(serial) \o Der(3, <<0>> \o pair))
        tbs == Der(160, Der(2, <<2>>)) \o Der(2, [i \in 1 .. serial |-> i % 100])
                   \o field(2) \o field(serial) \o field(0) \o field(9) \o info \o field(1)
        file == Der(48, Der(2, <<0>>) \o Der(2, modulus) \o Der(2, exponent)
                           \o Der(2, [i \in 1 .. serial |-> i % 9])
                           \o field(3))
        public == ExtractRSAPublicKey(GetServerPublicKey(
                      Der(48, Der(48, tbs) \o field(4) \o field(200))))
        private == GetRSADecryptInfo(file)
    IN  /\ public = [modolu |-> modulus, exponent |-> exponent]
        /\ private.PublicModulu = modulus
        /\ Len(private.PrivateExponent) = serial

(* Padding comes off as it went on: that of RSA, of a block, of base 64.    *)
PaddingComesOff(d, number, filler) ==
    LET r == CBCEncrypted("key", number, ApplicationData, d)
    IN  /\ IsWholeBlocks(r)
        /\ CBCDecrypted("key", number, ApplicationData, r) = [verified |-> TRUE, data |-> d]
        /\ ~CBCDecrypted("key", number + 1, ApplicationData, r).verified
        /\ RemovePadding(AddPadding(d, Len(d) + 3 + filler, 9)) = d

(* The bytes of base 64 are the bits of its characters, in their order.    *)
BitsStay(characters) ==
    LET bytes == Base64ToBinary(characters)
        digits == SelectSeq(characters, LAMBDA c : c # Pad)
    IN  /\ Len(bytes) = (6 * Len(digits)) \div 8
        /\ \A j \in 0 .. 8 * Len(bytes) - 1 :
               (bytes[j \div 8 + 1] \div 2 ^ (7 - (j % 8))) % 2
                   = (digits[j \div 6 + 1] \div 2 ^ (5 - (j % 6))) % 2

(* The six secrets are pairwise disjoint stretches of the key block.        *)
KeysAreDisjoint(mac, key, iv) ==
    LET n == 2 * (mac + key + iv)
        k == GenerateKeys([i \in 1 .. n |-> i], mac, key, iv)
    IN  /\ \A f, g \in DOMAIN k : f # g => ToSet(k[f]) \cap ToSet(k[g]) = {}
        /\ UNION {ToSet(k[f]) : f \in DOMAIN k} = 1 .. n

(* A record of GCM is opened by a reader with the writer's number, and by  *)
(* no other; and the fragments of a string make it up.                     *)
RecordsAgree(d, number) ==
    LET r == GCMEncrypted("key", <<1, 2>>, number, ApplicationData, d)
        Read(n) == GCMDecrypted("key", <<1, 2>>, n, ApplicationData, r)
    IN  /\ Read(number) = [verified |-> TRUE, data |-> d]
        /\ ~Read(number + 1).verified
        /\ \A max \in 1 .. 3 :
             /\ FlattenSeq(Fragments(d, max)) = d
             /\ \A f \in ToSet(Fragments(d, max)) : Len(f) \in 1 .. max
=============================================================================
