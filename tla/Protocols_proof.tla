-------------------------- MODULE Protocols_proof --------------------------
(***************************************************************************)
(* Proofs about the chat and about a file read over HTTP: the line a user  *)
(* edits (ChatInput), a file on its way in chunks (ChatFile), the          *)
(* agreement of the two sides on the file that is sent (ChatTransfer) and  *)
(* on a port (ChatConnect), HTTPFileStream (HttpStream), and the download  *)
(* of a torrent from one peer (PeerDownload). Each module's property       *)
(* follows from an inductive invariant: InputInv, FileInv, TransferInv,    *)
(* PortsInv, StreamInv and PeerInv.                                        *)
(***************************************************************************)
EXTENDS ChatInput, ChatFile, ChatTransfer, ChatConnect, HttpStream, PeerDownload, TLAPS,
        FiniteSetTheorems, WellFoundedInduction
-----------------------------------------------------------------------------
(* Two sequences one behind the other.                                     *)
LEMMA JoinedElements ==
  ASSUME NEW S, NEW s \in Seq(S), NEW t \in Seq(S)
  PROVE  /\ s \o t \in Seq(S) /\ Len(s \o t) = Len(s) + Len(t)
         /\ \A k \in 1 .. Len(s) : (s \o t)[k] = s[k]
         /\ \A k \in 1 .. Len(t) : (s \o t)[Len(s) + k] = t[k]
  OBVIOUS

(* The line a user edits: what the lines are made of, and the property     *)
(* itself.                                                                 *)
Line == Seq({"x", "/"})
InputInv ==
    /\ CurrentInput \in Line
    /\ PreviousInputs \in Seq(Line)
    /\ CharactersInInput \in Nat
    /\ CursorInInput

(* What is cut at a place of the line.                                     *)
LEMMA Cut ==
  ASSUME CurrentInput \in Line, NEW n \in 0 .. Len(CurrentInput)
  PROVE  /\ Before(n) \in Line /\ Len(Before(n)) = n
         /\ After(n) \in Line /\ Len(After(n)) = Len(CurrentInput) - n
  BY DEF Line, Before, After

(* A typed byte lengthens the line and moves the cursor.                   *)
LEMMA AddCharStep ==
  ASSUME InputInv, NEW c, AddCharToInput(c),
         UNCHANGED <<PreviousInputs, CurrentInputlineIndex>>
  PROVE  InputInv'
  <1>1. /\ CurrentInput \in Line /\ CharactersInInput \in Nat
        /\ CursorPosition \in 0 .. Len(CurrentInput) /\ Len(CurrentInput) \in Nat
    BY DEF InputInv, CursorInInput, Line
  <1>2. PICK b \in {"x", "/"} :
           CurrentInput' = IF CursorPosition = CharactersInInput
                           THEN Append(CurrentInput, b)
                           ELSE Append(Before(CursorPosition), b) \o After(CursorPosition)
    BY DEF AddCharToInput
  <1>3. CurrentInput' \in Line /\ Len(CurrentInput') = Len(CurrentInput) + 1
    <2>1. CASE CursorPosition = CharactersInInput
      BY <1>1, <1>2, <2>1 DEF Line
    <2>2. CASE CursorPosition # CharactersInInput
      <3>. DEFINE first == Append(Before(CursorPosition), b)
                  rest == After(CursorPosition)
      <3>1. /\ Before(CursorPosition) \in Line /\ Len(Before(CursorPosition)) = CursorPosition
            /\ rest \in Line /\ Len(rest) = Len(CurrentInput) - CursorPosition
        BY <1>1, Cut
      <3>2. first \in Line /\ Len(first) = CursorPosition + 1
        BY <3>1 DEF Line
      <3>3. CurrentInput' = first \o rest
        BY <1>2, <2>2
      <3>. HIDE DEF first, rest
      <3>4. first \o rest \in Line /\ Len(first \o rest) = Len(first) + Len(rest)
        BY <3>1, <3>2, JoinedElements DEF Line
      <3>5. QED
        BY <1>1, <3>1, <3>2, <3>3, <3>4
    <2>3. QED
      BY <2>1, <2>2
  <1>4. CursorPosition' \in 0 .. Len(CurrentInput')
    BY <1>1, <1>3 DEF AddCharToInput
  <1>5. QED
    BY <1>1, <1>3, <1>4 DEF InputInv, CursorInInput, AddCharToInput

(* Backspace shortens the line and moves the cursor back.                  *)
LEMMA BackspaceStep ==
  ASSUME InputInv, Backspace
  PROVE  InputInv'
  <1>1. /\ CurrentInput \in Line /\ CursorPosition \in 0 .. Len(CurrentInput)
        /\ Len(CurrentInput) \in Nat /\ CursorPosition > 0
    BY DEF InputInv, CursorInInput, Line, Backspace
  <1>. DEFINE first == Before(CursorPosition - 1)
              rest == After(CursorPosition)
  <1>2. CurrentInput' = first \o rest /\ CursorPosition' = CursorPosition - 1
    BY DEF Backspace, SetCurrentInput
  <1>3. first \in Line /\ Len(first) = CursorPosition - 1
    BY <1>1, Cut
  <1>4. rest \in Line /\ Len(rest) = Len(CurrentInput) - CursorPosition
    BY <1>1, Cut
  <1>. HIDE DEF first, rest
  <1>5. first \o rest \in Line /\ Len(first \o rest) = Len(first) + Len(rest)
    BY <1>3, <1>4, JoinedElements DEF Line
  <1>6. CurrentInput' \in Line /\ CursorPosition' \in 0 .. Len(CurrentInput')
    BY <1>1, <1>2, <1>3, <1>4, <1>5
  <1>7. QED
    BY <1>6 DEF InputInv, CursorInInput, Backspace, SetCurrentInput

(* An arrow moves the cursor in the line, or takes another line whole.     *)
LEMMA KeyStep ==
  ASSUME InputInv, NEW key \in Keys, Key(key), UNCHANGED PreviousInputs
  PROVE  InputInv'
  <1>. USE DEF InputInv, CursorInInput
  <1>1. CASE key = "left"
    BY <1>1 DEF Key, Keys
  <1>2. CASE key = "right"
    BY <1>2 DEF Key, Keys
  <1>3. CASE key = "down"
    <2>1. CASE CurrentInputlineIndex + 1 < Len(PreviousInputs)
      BY <1>3, <2>1 DEF Key, Keys, SetCurrentInput, Line
    <2>2. CASE ~ (CurrentInputlineIndex + 1 < Len(PreviousInputs))
      BY <1>3, <2>2 DEF Key, Keys, SetCurrentInput, Line
    <2>3. QED
      BY <2>1, <2>2
  <1>4. CASE key = "up"
    <2>1. CASE CurrentInputlineIndex - 1 >= 0
      BY <1>4, <2>1 DEF Key, Keys, SetCurrentInput, Line
    <2>2. CASE ~ (CurrentInputlineIndex - 1 >= 0)
      BY <1>4, <2>2 DEF Key, Keys, Line
    <2>3. QED
      BY <2>1, <2>2
  <1>5. QED
    BY <1>1, <1>2, <1>3, <1>4 DEF Keys

(* The cursor stays in the line and the index among the lines before,      *)
(* whatever keys and bytes the user types.                                 *)
THEOREM CursorStaysInInput == InputInit /\ [][InputNext]_inputVars => []CursorInInput
  <1>1. InputInit => InputInv
    BY DEF InputInit, InputInv, CursorInInput, Line
  <1>2. InputInv /\ [InputNext]_inputVars => InputInv'
    <2>. SUFFICES ASSUME InputInv, [InputNext]_inputVars PROVE InputInv'
      OBVIOUS
    <2>. USE DEF inputVars
    <2>1. CASE UNCHANGED inputVars
      BY <2>1 DEF InputInv, CursorInInput
    <2>2. ASSUME NEW c \in Bytes, MainLoopByte(c) PROVE InputInv'
      <3>1. CASE UNCHANGED <<CurrentInput, CursorPosition, CharactersInInput, PreviousInputs,
                             CurrentInputlineIndex>>
        BY <3>1 DEF InputInv, CursorInInput
      <3>2. CASE AddCharToInput(c) /\ UNCHANGED <<PreviousInputs, CurrentInputlineIndex>>
        BY <3>2, AddCharStep
      <3>3. ASSUME NEW key \in Keys, Key(key), UNCHANGED PreviousInputs PROVE InputInv'
        BY <3>3, KeyStep
      <3>4. QED
        BY <2>2, <3>1, <3>2, <3>3 DEF MainLoopByte, PrintableByte, SpecialByte
    <2>3. CASE Backspace
      BY <2>3, BackspaceStep
    <2>4. CASE Enter
      <3>1. CurrentInput' = <<>> /\ CursorPosition' = 0 /\ CharactersInInput' = 0
        BY <2>4 DEF Enter
      <3>2. PreviousInputs' \in Seq(Line) /\ CurrentInputlineIndex' \in 0 .. Len(PreviousInputs')
        <4>1. CASE CurrentInput = <<>>
          BY <2>4, <4>1 DEF Enter, InputInv, CursorInInput
        <4>2. CASE CurrentInput # <<>>
          BY <2>4, <4>2 DEF Enter, InputInv, CursorInInput
        <4>3. QED
          BY <4>1, <4>2
      <3>3. QED
        BY <3>1, <3>2 DEF InputInv, CursorInInput, Line
    <2>5. CASE Cancel
      BY <2>5 DEF Cancel, InputInv, CursorInInput
    <2>6. QED
      BY <2>1, <2>2, <2>3, <2>4, <2>5 DEF InputNext
  <1>3. InputInv => CursorInInput
    BY DEF InputInv
  <1>4. QED
    BY <1>1, <1>2, <1>3, PTL
-----------------------------------------------------------------------------
(* The chunk at a place of a file; NextChunk is the one at what has been   *)
(* extracted.                                                              *)
Chunk(length, size, from) ==
    [k \in 1 .. size |-> IF from + k > length THEN 0 ELSE from + k]

(* The chunks of a queue follow each other from one place to another.      *)
Follow(length, size, ahead, from, to) ==
    \E place \in [1 .. Len(ahead) + 1 -> Nat] :
        /\ place[1] = from /\ place[Len(ahead) + 1] = to
        /\ \A j \in 1 .. Len(ahead) : /\ ahead[j] = Chunk(length, size, place[j])
                                      /\ place[j + 1] = place[j] + size

FileType ==
    /\ Length \in Nat /\ ExtractedData \in Nat /\ Data \in Seq(Nat)
    /\ onTheWay \in Seq(Seq(Nat)) /\ NewFile \in Seq(Nat)
    /\ DataSentSuccesfully \in BOOLEAN /\ unsure \in BOOLEAN

(* Before the handshake nothing has been done; after it, what is on the    *)
(* way goes on where the received file ends, up to what the sender has     *)
(* extracted, and a chunk to be sent again is the next one.                *)
NotBegun == /\ receiver = "handshake" /\ onTheWay = <<>> /\ NewFile = <<>>
            /\ ExtractedData = 0
Chunks == IF receiver = "handshake" THEN Tail(onTheWay) ELSE onTheWay
Begun ==
    /\ ~ DataSentSuccesfully => Data = Chunk(Length, DataChunkSize, ExtractedData)
    /\ receiver = "handshake" => onTheWay # <<>>
    /\ Follow(Length, DataChunkSize, Chunks, Len(NewFile), ExtractedData)
FileInv ==
    /\ FileType
    /\ ~ unsure => /\ IF Data = Handshake0 THEN NotBegun ELSE Begun
                   /\ receiver = "handshake" => NewFile = <<>>
                   /\ FileArrives

(* A chunk is a sequence, and none looks like the handshake.               *)
LEMMA ChunkIsSequence ==
  ASSUME NEW length \in Nat, NEW size \in Nat, NEW from \in Nat
  PROVE  /\ Chunk(length, size, from) \in Seq(Nat) /\ Len(Chunk(length, size, from)) = size
         /\ \A k \in 1 .. size :
                Chunk(length, size, from)[k] = IF from + k > length THEN 0 ELSE from + k
         /\ from < length => Chunk(length, size, from) # Handshake0
  <1>. DEFINE c == Chunk(length, size, from)
  <1>1. /\ c \in Seq(Nat) /\ Len(c) = size
        /\ \A k \in 1 .. size : c[k] = IF from + k > length THEN 0 ELSE from + k
    BY DEF Chunk
  <1>. HIDE DEF c
  <1>2. ASSUME from < length, c = Handshake0 PROVE FALSE
    <2>1. Len(Handshake0) = 1 /\ Handshake0[1] = 0
      BY DEF Handshake0
    <2>2. c[1] = from + 1
      BY <1>1, <1>2, <2>1
    <2>3. QED
      BY <1>2, <2>1, <2>2
  <1>3. QED
    BY <1>1, <1>2 DEF c

(* Another chunk behind a queue.                                           *)
LEMMA FollowsBehind ==
  ASSUME NEW length \in Nat, NEW size \in Nat, NEW ahead \in Seq(Seq(Nat)),
         NEW from \in Nat, NEW to \in Nat, Follow(length, size, ahead, from, to)
  PROVE  Follow(length, size, Append(ahead, Chunk(length, size, to)), from, to + size)
  <1>1. PICK place \in [1 .. Len(ahead) + 1 -> Nat] :
            /\ place[1] = from /\ place[Len(ahead) + 1] = to
            /\ \A j \in 1 .. Len(ahead) : /\ ahead[j] = Chunk(length, size, place[j])
                                          /\ place[j + 1] = place[j] + size
    BY DEF Follow
  <1>. DEFINE longer == Append(ahead, Chunk(length, size, to))
              n == Len(ahead)
              places == [j \in 1 .. n + 2 |-> IF j = n + 2 THEN to + size ELSE place[j]]
  <1>2. Chunk(length, size, to) \in Seq(Nat) /\ n \in Nat
    BY ChunkIsSequence
  <1>3. place \in [1 .. n + 1 -> Nat]
    OBVIOUS
  <1>4. /\ Len(longer) = n + 1 /\ longer[n + 1] = Chunk(length, size, to)
        /\ \A j \in 1 .. n : longer[j] = ahead[j]
    BY <1>2
  <1>. HIDE DEF longer, n
  <1>5. places \in [1 .. Len(longer) + 1 -> Nat]
    <2>1. \A j \in 1 .. n + 2 : j # n + 2 => j \in 1 .. n + 1
      BY <1>2
    <2>2. \A j \in 1 .. n + 2 : j # n + 2 => place[j] \in Nat
      BY <1>3, <2>1
    <2>3. QED
      BY <1>2, <1>4, <2>2
  <1>6. places[1] = from /\ places[Len(longer) + 1] = to + size
    BY <1>1, <1>2, <1>4
  <1>7. ASSUME NEW j \in 1 .. Len(longer)
        PROVE  longer[j] = Chunk(length, size, places[j]) /\ places[j + 1] = places[j] + size
    <2>1. CASE j = n + 1
      BY <1>1, <1>2, <1>4, <2>1 DEF n
    <2>2. CASE j # n + 1
      <3>1. j \in 1 .. n /\ j + 1 \in 1 .. n + 2 /\ j \in 1 .. n + 2
        BY <1>2, <1>4, <2>2
      <3>2. /\ longer[j] = ahead[j] /\ ahead[j] = Chunk(length, size, place[j])
            /\ place[j + 1] = place[j] + size
        BY <1>1, <1>4, <3>1 DEF n
      <3>3. places[j] = place[j] /\ places[j + 1] = place[j + 1]
        BY <1>2, <3>1
      <3>4. QED
        BY <3>2, <3>3
    <2>3. QED
      BY <2>1, <2>2
  <1>8. Follow(length, size, longer, from, to + size)
    BY <1>5, <1>6, <1>7 DEF Follow
  <1>9. QED
    BY <1>8 DEF longer

(* The first chunk taken off a queue.                                      *)
LEMMA FollowsTheFirst ==
  ASSUME NEW length \in Nat, NEW size \in Nat, NEW ahead \in Seq(Seq(Nat)), ahead # <<>>,
         NEW from \in Nat, NEW to \in Nat, Follow(length, size, ahead, from, to)
  PROVE  /\ Head(ahead) = Chunk(length, size, from)
         /\ Follow(length, size, Tail(ahead), from + size, to)
  <1>1. PICK place \in [1 .. Len(ahead) + 1 -> Nat] :
            /\ place[1] = from /\ place[Len(ahead) + 1] = to
            /\ \A j \in 1 .. Len(ahead) : /\ ahead[j] = Chunk(length, size, place[j])
                                          /\ place[j + 1] = place[j] + size
    BY DEF Follow
  <1>. DEFINE rest == Tail(ahead)
              n == Len(ahead)
              places == [j \in 1 .. n |-> place[j + 1]]
  <1>2. n \in Nat /\ n > 0 /\ place \in [1 .. n + 1 -> Nat]
    OBVIOUS
  <1>3. /\ Len(rest) + 1 = n /\ Head(ahead) = ahead[1]
        /\ \A j \in 1 .. n - 1 : rest[j] = ahead[j + 1]
    BY <1>2
  <1>4. Len(rest) \in Nat
    OBVIOUS
  <1>. HIDE DEF rest, n
  <1>5. places \in [1 .. Len(rest) + 1 -> Nat]
    <2>1. \A j \in 1 .. n : j + 1 \in 1 .. n + 1
      BY <1>2
    <2>2. \A j \in 1 .. n : place[j + 1] \in Nat
      BY <1>2, <2>1
    <2>3. QED
      BY <1>3, <2>2
  <1>6. places[1] = from + size /\ places[Len(rest) + 1] = to
    <2>1. 1 \in 1 .. n /\ n \in 1 .. n /\ 1 + 1 = 2
      BY <1>2
    <2>2. place[1 + 1] = place[1] + size /\ place[1] = from /\ place[n + 1] = to
      BY <1>1, <2>1 DEF n
    <2>3. QED
      BY <1>3, <2>1, <2>2
  <1>7. ASSUME NEW j \in 1 .. Len(rest)
        PROVE  rest[j] = Chunk(length, size, places[j]) /\ places[j + 1] = places[j] + size
    <2>1. j \in 1 .. n - 1 /\ j \in 1 .. n /\ j + 1 \in 1 .. n
      BY <1>2, <1>3, <1>4
    <2>2. /\ rest[j] = ahead[j + 1] /\ ahead[j + 1] = Chunk(length, size, place[j + 1])
          /\ place[(j + 1) + 1] = place[j + 1] + size
      BY <1>1, <1>3, <2>1 DEF n
    <2>3. places[j] = place[j + 1] /\ places[j + 1] = place[(j + 1) + 1]
      BY <2>1
    <2>4. QED
      BY <2>2, <2>3
  <1>8. Follow(length, size, rest, from + size, to)
    BY <1>5, <1>6, <1>7 DEF Follow
  <1>9. Head(ahead) = Chunk(length, size, from)
    BY <1>1, <1>2, <1>3 DEF n
  <1>10. QED
    BY <1>8, <1>9 DEF rest

(* Nothing is on the way.                                                  *)
LEMMA NothingFollows ==
  ASSUME NEW length, NEW size, NEW at0 \in Nat
  PROVE  Follow(length, size, <<>>, at0, at0)
  <1>. DEFINE place == [i \in 1 .. Len(<<>>) + 1 |-> at0]
  <1>1. Len(<<>>) = 0
    OBVIOUS
  <1>2. /\ place \in [1 .. Len(<<>>) + 1 -> Nat]
        /\ place[1] = at0 /\ place[Len(<<>>) + 1] = at0
    BY <1>1
  <1>3. \A j \in 1 .. Len(<<>>) : FALSE
    BY <1>1
  <1>. HIDE DEF place
  <1>4. QED
    BY <1>2, <1>3, Zenon DEF Follow

(* Sequences of anything.                                                  *)
LEMMA TailOfAppend ==
  ASSUME NEW S, NEW s \in Seq(S), s # <<>>, NEW e \in S
  PROVE  Tail(Append(s, e)) = Append(Tail(s), e) /\ Append(s, e) # <<>>
  OBVIOUS

(* The size of a chunk is fixed with the length.                           *)
LEMMA SameSize ==
  ASSUME FileType
  PROVE  /\ DataChunkSize \in Nat
         /\ Length' = Length => DataChunkSize' = DataChunkSize
         /\ NextChunk = Chunk(Length, DataChunkSize, ExtractedData)
  BY FileAssumption DEF DataChunkSize, FileType, NextChunk, Chunk

(* What SendData gives keeps the type.                                     *)
LEMMA SendDataKeepsType ==
  ASSUME FileType, NEW data \in Seq(Nat), NEW succeeds, SendData(data, succeeds)
  PROVE  onTheWay' \in Seq(Seq(Nat)) /\ unsure' \in BOOLEAN
  <1>1. onTheWay \in Seq(Seq(Nat)) /\ Append(onTheWay, data) \in Seq(Seq(Nat))
    BY DEF FileType
  <1>2. onTheWay' \in Seq(Seq(Nat))
    BY <1>1 DEF SendData
  <1>3. unsure' \in BOOLEAN
    BY DEF SendData, FileType
  <1>4. QED
    BY <1>2, <1>3

(* The handshake is the first on the way, unless it failed.                *)
LEMMA SendHandshakeStep ==
  ASSUME FileInv, SendHandshake
  PROVE  FileInv'
  <1>1. PICK succeeds \in BOOLEAN : SendData(Handshake0, succeeds)
    BY DEF SendHandshake
  <1>2. FileType'
    <2>1. Handshake0 \in Seq(Nat) /\ <<>> \in Seq(Nat)
      BY DEF Handshake0
    <2>2. onTheWay' \in Seq(Seq(Nat)) /\ unsure' \in BOOLEAN
      BY <1>1, <2>1, SendDataKeepsType DEF FileInv
    <2>3. QED
      BY <2>1, <2>2 DEF FileInv, FileType, SendHandshake
  <1>3. ASSUME ~ unsure'
        PROVE  /\ Data' # Handshake0 /\ Begun' /\ FileArrives'
               /\ receiver' = "handshake" /\ NewFile' = <<>>
    <2>1. onTheWay' = Append(onTheWay, Handshake0) /\ unsure' = unsure
      <3>1. CASE succeeds
        BY <1>1, <3>1 DEF SendData
      <3>2. CASE ~ succeeds
        BY <1>1, <1>3, <3>2 DEF SendData
      <3>3. QED
        BY <3>1, <3>2
    <2>2. NotBegun
      BY <1>3, <2>1 DEF FileInv, SendHandshake
    <2>3. /\ onTheWay' = <<Handshake0>> /\ receiver' = "handshake" /\ NewFile' = <<>>
          /\ ExtractedData' = 0 /\ DataSentSuccesfully'
      BY <2>1, <2>2 DEF NotBegun, SendHandshake
    <2>4. Tail(onTheWay') = <<>> /\ onTheWay' # <<>> /\ Len(NewFile') = 0
      BY <2>3
    <2>5. Follow(Length', DataChunkSize', <<>>, 0, 0)
      BY NothingFollows
    <2>6. Begun'
      BY <2>3, <2>4, <2>5 DEF Begun, Chunks
    <2>7. Data' # Handshake0
      BY DEF SendHandshake, Handshake0
    <2>8. FileArrives'
      BY <2>3 DEF FileArrives
    <2>9. QED
      BY <2>3, <2>6, <2>7, <2>8
  <1>4. QED
    BY <1>2, <1>3 DEF FileInv

(* A chunk that failed without being given is the next one still.          *)
LEMMA SendChunkStep ==
  ASSUME FileInv, SendChunk
  PROVE  FileInv'
  <1>1. PICK succeeds \in BOOLEAN :
           /\ SendData(Data', succeeds) /\ DataSentSuccesfully' = succeeds
           /\ Data' = IF DataSentSuccesfully THEN NextChunk ELSE Data
           /\ ExtractedData' = ExtractedData + (IF succeeds THEN DataChunkSize ELSE 0)
    BY DEF SendChunk
  <1>2. /\ FileType /\ Length' = Length /\ receiver' = receiver /\ NewFile' = NewFile
        /\ ExtractedData \in Nat /\ ExtractedData < Length /\ Data # Handshake0
        /\ Length \in Nat /\ Len(NewFile) \in Nat /\ onTheWay \in Seq(Seq(Nat))
    BY DEF FileInv, FileType, SendChunk
  <1>. DEFINE chunk == Chunk(Length, DataChunkSize, ExtractedData)
  <1>3. /\ NextChunk = chunk /\ chunk \in Seq(Nat) /\ chunk # Handshake0
        /\ DataChunkSize \in Nat /\ DataChunkSize' = DataChunkSize
    BY <1>2, SameSize, ChunkIsSequence
  <1>4. FileType'
    <2>1. Data' \in Seq(Nat)
      BY <1>1, <1>2, <1>3 DEF FileType
    <2>2. onTheWay' \in Seq(Seq(Nat)) /\ unsure' \in BOOLEAN
      BY <1>1, <1>2, <2>1, SendDataKeepsType
    <2>3. QED
      BY <1>1, <1>2, <1>3, <2>1, <2>2 DEF FileType
  <1>5. ASSUME ~ unsure'
        PROVE  /\ Data' # Handshake0 /\ Begun' /\ FileArrives'
               /\ receiver' = "handshake" => NewFile' = <<>>
    <2>1. ~ unsure
      BY <1>1, <1>5 DEF SendData
    <2>2. Begun /\ FileArrives /\ (receiver = "handshake" => NewFile = <<>>)
      BY <1>2, <2>1 DEF FileInv
    <2>3. Data' = chunk
      BY <1>1, <1>3, <2>2 DEF Begun
    <2>. HIDE DEF chunk
    <2>4. Begun'
      <3>1. CASE succeeds
        <4>1. /\ onTheWay' = Append(onTheWay, chunk) /\ DataSentSuccesfully'
              /\ ExtractedData' = ExtractedData + DataChunkSize
          BY <1>1, <2>3, <3>1 DEF SendData
        <4>2. Chunks \in Seq(Seq(Nat)) /\ Chunks' = Append(Chunks, chunk) /\ onTheWay' # <<>>
          <5>1. Append(onTheWay, chunk) # <<>>
            BY <1>2, <1>3
          <5>2. CASE receiver = "handshake"
            <6>1. onTheWay # <<>>
              BY <2>2, <5>2 DEF Begun
            <6>2. Tail(Append(onTheWay, chunk)) = Append(Tail(onTheWay), chunk)
              BY <1>2, <1>3, <6>1, TailOfAppend
            <6>3. Tail(onTheWay) \in Seq(Seq(Nat))
              BY <1>2, <6>1
            <6>4. QED
              BY <1>2, <4>1, <5>1, <5>2, <6>2, <6>3 DEF Chunks
          <5>3. CASE receiver # "handshake"
            BY <1>2, <4>1, <5>1, <5>3 DEF Chunks
          <5>4. QED
            BY <5>2, <5>3
        <4>3. Follow(Length, DataChunkSize, Append(Chunks, chunk), Len(NewFile),
                     ExtractedData + DataChunkSize)
          BY <1>2, <1>3, <2>2, <4>2, FollowsBehind DEF Begun, chunk
        <4>4. QED
          BY <1>2, <1>3, <4>1, <4>2, <4>3 DEF Begun
      <3>2. CASE ~ succeeds
        <4>1. onTheWay' = onTheWay /\ ExtractedData' = ExtractedData /\ Chunks' = Chunks
          BY <1>1, <1>2, <1>5, <3>2 DEF SendData, Chunks
        <4>2. QED
          BY <1>2, <1>3, <2>2, <2>3, <4>1 DEF Begun, chunk
      <3>3. QED
        BY <3>1, <3>2
    <2>5. QED
      BY <1>2, <1>3, <2>1, <2>2, <2>3, <2>4 DEF FileArrives, chunk
  <1>6. QED
    BY <1>4, <1>5 DEF FileInv

(* What is received goes on where the file ends.                           *)
LEMMA ReceiveStep ==
  ASSUME FileInv, Receive
  PROVE  FileInv'
  <1>1. /\ FileType /\ UNCHANGED <<Length, ExtractedData, Data, DataSentSuccesfully, unsure>>
        /\ onTheWay # <<>> /\ onTheWay' = Tail(onTheWay) /\ receiver' # "handshake"
        /\ NewFile' = IF receiver = "handshake" THEN NewFile ELSE NewFile \o Head(onTheWay)
    BY DEF FileInv, Receive
  <1>2. /\ onTheWay \in Seq(Seq(Nat)) /\ NewFile \in Seq(Nat) /\ Length \in Nat
        /\ Len(NewFile) \in Nat /\ ExtractedData \in Nat
        /\ DataChunkSize \in Nat /\ DataChunkSize' = DataChunkSize
    BY <1>1, SameSize DEF FileType
  <1>3. Head(onTheWay) \in Seq(Nat) /\ onTheWay' \in Seq(Seq(Nat))
    BY <1>1, <1>2
  <1>4. FileType'
    <2>1. NewFile' \in Seq(Nat)
      BY <1>1, <1>2, <1>3, JoinedElements
    <2>2. QED
      BY <1>1, <1>3, <2>1 DEF FileType
  <1>5. ASSUME ~ unsure
        PROVE  Data # Handshake0 /\ Begun' /\ FileArrives'
    <2>1. Data # Handshake0 /\ Begun /\ FileArrives
      BY <1>1, <1>5 DEF FileInv, NotBegun
    <2>2. CASE receiver = "handshake"
      BY <1>1, <1>2, <2>1, <2>2 DEF Begun, Chunks, FileArrives
    <2>3. CASE receiver # "handshake"
      <3>. DEFINE chunk == Chunk(Length, DataChunkSize, Len(NewFile))
      <3>1. Follow(Length, DataChunkSize, onTheWay, Len(NewFile), ExtractedData)
        BY <2>1, <2>3 DEF Begun, Chunks
      <3>2. /\ Head(onTheWay) = chunk
            /\ Follow(Length, DataChunkSize, onTheWay', Len(NewFile) + DataChunkSize,
                      ExtractedData)
        BY <1>1, <1>2, <3>1, FollowsTheFirst
      <3>3. /\ chunk \in Seq(Nat) /\ Len(chunk) = DataChunkSize
            /\ \A k \in 1 .. DataChunkSize :
                  chunk[k] = IF Len(NewFile) + k > Length THEN 0 ELSE Len(NewFile) + k
        BY <1>2, ChunkIsSequence
      <3>4. NewFile' = NewFile \o chunk
        BY <1>1, <2>3, <3>2
      <3>. HIDE DEF chunk
      <3>5. /\ Len(NewFile') = Len(NewFile) + DataChunkSize
            /\ \A k \in 1 .. Len(NewFile) : NewFile'[k] = NewFile[k]
            /\ \A k \in 1 .. DataChunkSize : NewFile'[Len(NewFile) + k] = chunk[k]
        <4>1. /\ Len(NewFile \o chunk) = Len(NewFile) + Len(chunk)
              /\ \A k \in 1 .. Len(NewFile) : (NewFile \o chunk)[k] = NewFile[k]
              /\ \A k \in 1 .. Len(chunk) : (NewFile \o chunk)[Len(NewFile) + k] = chunk[k]
          <5>1. NewFile \in Seq(Nat) /\ chunk \in Seq(Nat)
            BY <1>2, <3>3
          <5>2. QED
            BY <5>1, JoinedElements
        <4>2. QED
          BY <3>3, <3>4, <4>1, Zenon
      <3>6. ASSUME NEW k \in 1 .. Len(NewFile'), k <= Length PROVE NewFile'[k] = k
        <4>1. CASE k <= Len(NewFile)
          <5>1. k \in 1 .. Len(NewFile)
            BY <1>2, <3>5, <4>1
          <5>2. QED
            BY <1>5, <2>1, <3>5, <3>6, <5>1 DEF FileArrives
        <4>2. CASE ~ (k <= Len(NewFile))
          <5>1. /\ k - Len(NewFile) \in 1 .. DataChunkSize
                /\ k = Len(NewFile) + (k - Len(NewFile)) /\ k \in Nat
            BY <1>2, <3>5, <4>2
          <5>2. NewFile'[k] = IF k > Length THEN 0 ELSE k
            BY <3>3, <3>5, <5>1
          <5>3. QED
            BY <1>2, <3>6, <5>1, <5>2
        <4>3. QED
          BY <4>1, <4>2
      <3>7. FileArrives'
        BY <1>1, <3>6 DEF FileArrives
      <3>8. QED
        BY <1>1, <1>2, <2>1, <3>2, <3>5, <3>7 DEF Begun, Chunks
    <2>4. QED
      BY <2>2, <2>3
  <1>6. QED
    BY <1>1, <1>4, <1>5 DEF FileInv

(* Who has missed the handshake is not sure of anything.                   *)
LEMMA ReceiveNothingStep ==
  ASSUME FileInv, ReceiveNothing
  PROVE  FileInv'
  <1>1. /\ UNCHANGED <<Length, ExtractedData, Data, DataSentSuccesfully, onTheWay, NewFile>>
        /\ unsure' = (unsure \/ receiver = "handshake")
        /\ receiver' # "handshake"
    BY DEF ReceiveNothing
  <1>2. FileType'
    BY <1>1 DEF FileInv, FileType
  <1>3. ASSUME ~ unsure'
        PROVE  Data # Handshake0 /\ Begun' /\ FileArrives'
    <2>1. ~ unsure /\ receiver # "handshake"
      BY <1>1, <1>3
    <2>2. Data # Handshake0 /\ Begun /\ FileArrives
      BY <2>1 DEF FileInv, NotBegun
    <2>3. DataChunkSize' = DataChunkSize
      BY <1>1 DEF DataChunkSize
    <2>4. QED
      BY <1>1, <2>1, <2>2, <2>3 DEF Begun, Chunks, FileArrives
  <1>4. QED
    BY <1>1, <1>2, <1>3 DEF FileInv

(* Unless SendData failed for data that had been given, or the handshake   *)
(* was missed, what is received is the beginning of the file that was      *)
(* sent, for files and chunks of any length and any number of failures.    *)
THEOREM FileArrivesInOrder == FileInit /\ [][FileNext]_fileVars => []FileArrives
  <1>1. FileInit => FileInv
    <2>. SUFFICES ASSUME FileInit PROVE FileInv
      OBVIOUS
    <2>1. FileType
      <3>1. Handshake0 \in Seq(Nat) /\ <<>> \in Seq(Nat) /\ <<>> \in Seq(Seq(Nat))
        BY DEF Handshake0
      <3>2. QED
        BY <3>1, FileAssumption DEF FileInit, FileType
    <2>2. NotBegun /\ FileArrives /\ NewFile = <<>> /\ Data = Handshake0
      BY DEF FileInit, NotBegun, FileArrives
    <2>3. QED
      BY <2>1, <2>2 DEF FileInv
  <1>2. FileInv /\ [FileNext]_fileVars => FileInv'
    <2>1. ASSUME FileInv, UNCHANGED fileVars PROVE FileInv'
      <3>1. DataChunkSize' = DataChunkSize /\ Chunks' = Chunks
        BY <2>1 DEF fileVars, DataChunkSize, Chunks
      <3>2. FileType' /\ FileArrives' = FileArrives /\ Begun' = Begun /\ NotBegun' = NotBegun
        BY <2>1, <3>1 DEF fileVars, FileInv, FileType, FileArrives, Begun, NotBegun
      <3>3. QED
        BY <2>1, <3>2 DEF fileVars, FileInv, Handshake0
    <2>2. QED
      BY <2>1, SendHandshakeStep, SendChunkStep, ReceiveStep, ReceiveNothingStep DEF FileNext
  <1>3. FileInv => FileArrives
    BY DEF FileInv, FileArrives
  <1>4. QED
    BY <1>1, <1>2, <1>3, PTL
-----------------------------------------------------------------------------
(* The transfers.  What a message, and a file's size, can be.              *)
Names == {"none"} \cup {File[c][i] : c \in Chats, i \in Nat}
Message == [kind : {"AcceptConnection", "y", "n", "sendfile", "accepted", "declined"},
            file : Names]
TransferType ==
    /\ channel \in [Chats -> Seq(Message)] /\ Messages \in [Chats -> Seq(Message)]
    /\ ConnectionInput \in [Chats -> Seq(Message)]
    /\ SentFileTransferRequest \in [Chats -> BOOLEAN]
    /\ PeerSentFileTransferRequest \in [Chats -> BOOLEAN]
    /\ AcceptedFileTransfer \in [Chats -> BOOLEAN]
    /\ SizeOfPeerFile \in [Chats -> Names] /\ FileLocalWantedToSend \in [Chats -> Names]
    /\ started \in [Chats -> [send : Seq(Names), receive : Seq(Names)]]
    /\ requests \in [Chats -> Nat] /\ crossed \in [Chats -> BOOLEAN]

AtMostOne(s, kind, file) ==
    \A i \in 1 .. Len(s) : s[i].kind = kind =>
        /\ s[i].file = file
        /\ \A j \in 1 .. Len(s) : s[j].kind = kind => j = i

(* What the requests of a chat are about: the lines it has still to send,  *)
(* the messages on their way to it and to its peer, and what both remember *)
(* of the request.                                                         *)
View(c) == [input |-> ConnectionInput[c], sent |-> SentFileTransferRequest[c],
            crossed |-> crossed[c], file |-> FileLocalWantedToSend[c],
            send |-> started[c].send, back |-> Pipe(c), forth |-> Pipe(Peer(c)),
            asked |-> PeerSentFileTransferRequest[Peer(c)],
            accepted |-> AcceptedFileTransfer[Peer(c)],
            size |-> SizeOfPeerFile[Peer(c)], receive |-> started[Peer(c)].receive]
ViewType == [input : Seq(Message), sent : BOOLEAN, crossed : BOOLEAN, file : Names,
             send : Seq(Names), back : Seq(Message), forth : Seq(Message),
             asked : BOOLEAN, accepted : BOOLEAN, size : Names, receive : Seq(Names)]

(* As long as no request crossed another, only one is ever under way: it   *)
(* is on its way, it has come, the file is promised by the user or by a    *)
(* name for it, or the request was declined.  Before it the files sent are *)
(* those received; done are those received but for the promised one.       *)
Even(v) == ~ v.asked /\ ~ v.accepted /\ v.receive = v.send
NoAnswer(v) == None(v.back, "accepted") /\ None(v.back, "declined")
Asks(v) == AtMostOne(v.forth, "sendfile", v.file) /\ Even(v) /\ NoAnswer(v)
Asked(v) == /\ None(v.forth, "sendfile") /\ NoAnswer(v)
            /\ v.asked /\ ~ v.accepted /\ v.size = v.file /\ v.receive = v.send
Promised(v, done) ==
    /\ None(v.forth, "sendfile") /\ None(v.back, "declined")
    /\ \/ v.asked /\ v.accepted /\ v.size = v.file /\ v.receive = done
       \/ ~ v.asked /\ ~ v.accepted /\ v.receive = Append(done, v.file)
Declined(v) == /\ None(v.forth, "sendfile") /\ Even(v)
               /\ None(v.back, "accepted") /\ AtMostOne(v.back, "declined", "none")
Unsent(v) == ~ v.sent /\ None(v.forth, "sendfile") /\ Even(v) /\ NoAnswer(v)
Sent(v) == v.sent /\ (Asks(v) \/ Asked(v) \/ Promised(v, v.send) \/ Declined(v))
Begins(v) == ~ v.sent /\ \E done \in Seq(Names) : v.send = Append(done, v.file) /\ Promised(v, done)
(* A line is never an answer itself, however the user answers.             *)
Request(v) == /\ None(v.input, "accepted") /\ None(v.input, "declined")
              /\ ~ v.crossed => Unsent(v) \/ Sent(v) \/ Begins(v)
TransferInv == TransferType /\ \A c \in Chats : Request(View(c))

(* What is added to a sequence of messages and taken off it.               *)
LEMMA Added ==
  ASSUME NEW s \in Seq(Message), NEW m \in Message, NEW kind, NEW file
  PROVE  /\ Append(s, m) \in Seq(Message)
         /\ None(s, kind) /\ m.kind # kind => None(Append(s, m), kind)
         /\ AtMostOne(s, kind, file) /\ m.kind # kind => AtMostOne(Append(s, m), kind, file)
         /\ None(s, kind) /\ m.file = file => AtMostOne(Append(s, m), kind, file)
  BY DEF None, AtMostOne

(* What is taken off its front.                                            *)
LEMMA Taken ==
  ASSUME NEW s \in Seq(Message), s # <<>>, NEW kind, NEW file
  PROVE  /\ Head(s) \in Message /\ Tail(s) \in Seq(Message)
         /\ None(s, kind) => None(Tail(s), kind) /\ Head(s).kind # kind
         /\ AtMostOne(s, kind, file) => AtMostOne(Tail(s), kind, file)
         /\ AtMostOne(s, kind, file) /\ Head(s).kind = kind
                => None(Tail(s), kind) /\ Head(s).file = file
  <1>1. /\ Head(s) \in Message /\ Tail(s) \in Seq(Message) /\ Head(s) = s[1]
        /\ Len(Tail(s)) = Len(s) - 1 /\ Len(s) \in Nat \ {0}
        /\ \A i \in 1 .. Len(Tail(s)) : Tail(s)[i] = s[i + 1] /\ i + 1 \in 1 .. Len(s) /\ i + 1 # 1
    OBVIOUS
  <1>2. 1 \in 1 .. Len(s)
    BY <1>1
  <1>3. None(s, kind) => None(Tail(s), kind) /\ Head(s).kind # kind
    BY <1>1, <1>2 DEF None
  <1>4. AtMostOne(s, kind, file) => AtMostOne(Tail(s), kind, file)
    <2>. SUFFICES ASSUME AtMostOne(s, kind, file), NEW i \in 1 .. Len(Tail(s)),
                         Tail(s)[i].kind = kind
                  PROVE  /\ Tail(s)[i].file = file
                         /\ \A j \in 1 .. Len(Tail(s)) : Tail(s)[j].kind = kind => j = i
      BY DEF AtMostOne
    <2>1. Tail(s)[i] = s[i + 1] /\ i + 1 \in 1 .. Len(s)
      BY <1>1
    <2>2. s[i + 1].file = file /\ \A j \in 1 .. Len(s) : s[j].kind = kind => j = i + 1
      BY <2>1 DEF AtMostOne
    <2>3. ASSUME NEW j \in 1 .. Len(Tail(s)), Tail(s)[j].kind = kind PROVE j = i
      <3>1. j + 1 \in 1 .. Len(s) /\ s[j + 1].kind = kind
        BY <1>1, <2>3
      <3>2. j + 1 = i + 1
        BY <2>2, <3>1
      <3>3. QED
        BY <1>1, <3>2
    <2>4. QED
      BY <2>1, <2>2, <2>3
  <1>5. ASSUME AtMostOne(s, kind, file), Head(s).kind = kind
        PROVE  None(Tail(s), kind) /\ Head(s).file = file
    <2>1. s[1].file = file /\ \A j \in 1 .. Len(s) : s[j].kind = kind => j = 1
      BY <1>1, <1>2, <1>5 DEF AtMostOne
    <2>2. QED
      BY <1>1, <2>1 DEF None
  <1>6. QED
    BY <1>1, <1>3, <1>4, <1>5

(* Two sequences one behind the other, as the messages in the list and     *)
(* those on their way.                                                     *)
LEMMA JoinedBehind ==
  ASSUME NEW S, NEW s \in Seq(S), NEW t \in Seq(S), NEW e \in S
  PROVE  s \o t \in Seq(S) /\ s \o Append(t, e) = Append(s \o t, e)
  <1>1. s \o t \in Seq(S)
    BY JoinedElements
  <1>2. s \o Append(t, e) = Append(s \o t, e)
    OBVIOUS
  <1>3. QED
    BY <1>1, <1>2

(* A message moved from the front of the one to the end of the other.      *)
LEMMA MovedOver ==
  ASSUME NEW S, NEW s \in Seq(S), NEW t \in Seq(S), t # <<>>
  PROVE  Append(s, Head(t)) \o Tail(t) = s \o t
  OBVIOUS

(* The first message is the first one's.                                   *)
LEMMA FirstOfJoined ==
  ASSUME NEW S, NEW s \in Seq(S), NEW t \in Seq(S), s # <<>>
  PROVE  s \o t # <<>> /\ Head(s \o t) = Head(s) /\ Tail(s \o t) = Tail(s) \o t
  <1>1. s \o t # <<>> /\ Head(s \o t) = Head(s)
    OBVIOUS
  <1>2. Tail(s \o t) = Tail(s) \o t
    OBVIOUS
  <1>3. QED
    BY <1>1, <1>2

(* The two chats.                                                          *)
LEMMA PeerOfPeer ==
  ASSUME NEW c \in Chats
  PROVE  /\ Peer(c) \in Chats /\ Peer(c) # c /\ Peer(Peer(c)) = c
         /\ \A d \in Chats : d = c \/ d = Peer(c)
  <1>1. PICK a \in Chats, b \in Chats : a # b /\ Chats = {a, b}
    BY ChatsAssumption
  <1>2. \A d \in Chats : Peer(d) \in Chats /\ Peer(d) # d
    BY <1>1 DEF Peer
  <1>3. QED
    BY <1>1, <1>2

(* What a step does to the requests of a chat.  A message that is no       *)
(* answer comes, one that is no request goes.                              *)
LEMMA OtherComes ==
  ASSUME NEW v \in ViewType, Request(v), NEW m \in Message,
         m.kind # "accepted", m.kind # "declined",
         NEW w, w.back = Append(v.back, m), w.input = v.input, w.sent = v.sent,
         w.crossed = v.crossed, w.file = v.file, w.send = v.send, w.forth = v.forth,
         w.asked = v.asked, w.accepted = v.accepted, w.size = v.size,
         w.receive = v.receive
  PROVE  Request(w)
  <1>1. v.back \in Seq(Message)
    BY DEF ViewType
  <1>2. /\ None(v.back, "accepted") => None(w.back, "accepted")
        /\ None(v.back, "declined") => None(w.back, "declined")
        /\ AtMostOne(v.back, "declined", "none") => AtMostOne(w.back, "declined", "none")
    BY <1>1, Added
  <1>3. QED
    BY <1>1, <1>2
    DEF Request, Unsent, Sent, Begins, Asks, Asked, Promised, Declined, Even, NoAnswer

(* A message that is no request goes.                                      *)
LEMMA OtherGoes ==
  ASSUME NEW v \in ViewType, Request(v), NEW m \in Message, m.kind # "sendfile"
  PROVE  Request([v EXCEPT !.forth = Append(v.forth, m)])
  <1>. DEFINE w == [v EXCEPT !.forth = Append(v.forth, m)]
  <1>1. /\ w.forth = Append(v.forth, m) /\ w.input = v.input /\ w.sent = v.sent
        /\ w.crossed = v.crossed /\ w.file = v.file /\ w.send = v.send /\ w.back = v.back
        /\ w.asked = v.asked /\ w.accepted = v.accepted /\ w.size = v.size
        /\ w.receive = v.receive /\ v.forth \in Seq(Message)
    BY DEF ViewType
  <1>. HIDE DEF w
  <1>2. /\ None(v.forth, "sendfile") => None(w.forth, "sendfile")
        /\ AtMostOne(v.forth, "sendfile", v.file) => AtMostOne(w.forth, "sendfile", v.file)
    BY <1>1, Added
  <1>3. Request(w)
    BY <1>1, <1>2
    DEF Request, Unsent, Sent, Begins, Asks, Asked, Promised, Declined, Even, NoAnswer
  <1>4. QED
    BY <1>3 DEF w

(* A message is read that is no answer the chat waits for.                 *)
LEMMA OtherRead ==
  ASSUME NEW v \in ViewType, Request(v), v.back # <<>>,
         ~ v.sent \/ (Head(v.back).kind # "accepted" /\ Head(v.back).kind # "declined")
  PROVE  Request([v EXCEPT !.back = Tail(v.back)])
  <1>. DEFINE w == [v EXCEPT !.back = Tail(v.back)]
  <1>1. /\ w.back = Tail(v.back) /\ w.input = v.input /\ w.sent = v.sent
        /\ w.crossed = v.crossed /\ w.file = v.file /\ w.send = v.send /\ w.forth = v.forth
        /\ w.asked = v.asked /\ w.accepted = v.accepted /\ w.size = v.size
        /\ w.receive = v.receive /\ v.back \in Seq(Message)
    BY DEF ViewType
  <1>. HIDE DEF w
  <1>2. ASSUME NEW kind, NEW file
        PROVE  /\ None(v.back, kind) => None(w.back, kind) /\ Head(v.back).kind # kind
               /\ AtMostOne(v.back, kind, file) => AtMostOne(w.back, kind, file)
               /\ AtMostOne(v.back, kind, file) /\ Head(v.back).kind = kind => None(w.back, kind)
    <2>1. v.back \in Seq(Message) /\ v.back # <<>> /\ w.back = Tail(v.back)
      BY <1>1
    <2>2. /\ None(v.back, kind) => None(Tail(v.back), kind) /\ Head(v.back).kind # kind
          /\ AtMostOne(v.back, kind, file) => AtMostOne(Tail(v.back), kind, file)
          /\ AtMostOne(v.back, kind, file) /\ Head(v.back).kind = kind
                => None(Tail(v.back), kind)
      BY <2>1, Taken, Zenon
    <2>3. QED
      BY <2>1, <2>2, Zenon
  <1>3. Request(w)
    BY <1>1, <1>2
    DEF Request, Unsent, Sent, Begins, Asks, Asked, Promised, Declined, Even, NoAnswer
  <1>4. QED
    BY <1>3 DEF w

(* The answer is read: the file is sent if it was accepted.                *)
LEMMA AnswerRead ==
  ASSUME NEW v \in ViewType, Request(v), v.back # <<>>, v.sent,
         Head(v.back).kind \in {"accepted", "declined"},
         NEW w, w.back = Tail(v.back), w.input = v.input, ~ w.sent,
         w.crossed = v.crossed, w.file = v.file, w.forth = v.forth,
         w.send = IF Head(v.back).kind = "accepted" THEN Append(v.send, v.file) ELSE v.send,
         w.asked = v.asked, w.accepted = v.accepted, w.size = v.size,
         w.receive = v.receive
  PROVE  Request(w)
  <1>. SUFFICES ASSUME ~ v.crossed PROVE Unsent(w) \/ Begins(w)
    BY DEF Request
  <1>1. v.back \in Seq(Message)
    BY DEF ViewType
  <1>2. ASSUME NEW kind, NEW file
        PROVE  /\ None(v.back, kind) => None(w.back, kind) /\ Head(v.back).kind # kind
               /\ AtMostOne(v.back, kind, file) => AtMostOne(w.back, kind, file)
               /\ AtMostOne(v.back, kind, file) /\ Head(v.back).kind = kind => None(w.back, kind)
    <2>1. v.back \in Seq(Message) /\ v.back # <<>> /\ w.back = Tail(v.back)
      BY <1>1
    <2>2. QED
      BY <2>1, Taken
  <1>3. Sent(v) /\ ~ NoAnswer(v)
    BY <1>2 DEF Request, Unsent, Begins, NoAnswer
  <1>4. Promised(v, v.send) \/ Declined(v)
    BY <1>3 DEF Sent, Asks, Asked
  <1>5. CASE Promised(v, v.send)
    <2>1. Head(v.back).kind # "declined" /\ None(w.back, "declined")
      BY <1>2, <1>5 DEF Promised
    <2>2. w.send = Append(v.send, w.file) /\ v.send \in Seq(Names)
      BY <2>1 DEF ViewType
    <2>3. Promised(w, v.send)
      BY <1>5, <2>1 DEF Promised
    <2>4. QED
      BY <2>2, <2>3 DEF Begins
  <1>6. CASE Declined(v)
    <2>1. /\ Head(v.back).kind # "accepted"
          /\ Head(v.back).kind = "declined" => None(w.back, "declined") /\ None(w.back, "accepted")
      BY <1>2, <1>6 DEF Declined
    <2>2. None(w.back, "declined") /\ None(w.back, "accepted") /\ w.send = v.send
      BY <2>1
    <2>3. Unsent(w)
      BY <1>6, <2>2 DEF Unsent, Declined, Even, NoAnswer
    <2>4. QED
      BY <2>3
  <1>7. QED
    BY <1>4, <1>5, <1>6

(* The peer reads what is no request, or the request.                      *)
LEMMA PeerReadsOther ==
  ASSUME NEW v \in ViewType, Request(v), v.forth # <<>>, Head(v.forth).kind # "sendfile"
  PROVE  Request([v EXCEPT !.forth = Tail(v.forth)])
  <1>. DEFINE w == [v EXCEPT !.forth = Tail(v.forth)]
  <1>1. /\ w.forth = Tail(v.forth) /\ w.input = v.input /\ w.sent = v.sent
        /\ w.crossed = v.crossed /\ w.file = v.file /\ w.send = v.send /\ w.back = v.back
        /\ w.asked = v.asked /\ w.accepted = v.accepted /\ w.size = v.size
        /\ w.receive = v.receive /\ v.forth \in Seq(Message)
    BY DEF ViewType
  <1>. HIDE DEF w
  <1>2. /\ None(v.forth, "sendfile") => None(w.forth, "sendfile")
        /\ AtMostOne(v.forth, "sendfile", v.file) => AtMostOne(w.forth, "sendfile", v.file)
    BY <1>1, Taken
  <1>3. Request(w)
    BY <1>1, <1>2
    DEF Request, Unsent, Sent, Begins, Asks, Asked, Promised, Declined, Even, NoAnswer
  <1>4. QED
    BY <1>3 DEF w

(* The peer reads the request.                                             *)
LEMMA PeerReadsRequest ==
  ASSUME NEW v \in ViewType, Request(v), v.forth # <<>>, Head(v.forth).kind = "sendfile",
         NEW w, w.forth = Tail(v.forth), w.input = v.input, w.sent = v.sent,
         w.crossed = v.crossed, w.file = v.file, w.send = v.send, w.back = v.back,
         w.asked, w.accepted = v.accepted, w.size = Head(v.forth).file,
         w.receive = v.receive
  PROVE  Request(w)
  <1>. SUFFICES ASSUME ~ v.crossed PROVE Sent(w)
    BY DEF Request
  <1>1. v.forth \in Seq(Message)
    BY DEF ViewType
  <1>2. ~ None(v.forth, "sendfile")
    BY <1>1, Taken
  <1>3. Sent(v) /\ Asks(v)
    BY <1>2 DEF Request, Unsent, Sent, Begins, Asked, Promised, Declined
  <1>4. None(w.forth, "sendfile") /\ w.size = v.file
    BY <1>1, <1>3, Taken DEF Asks
  <1>5. Asked(w)
    BY <1>1, <1>3, <1>4 DEF Sent, Asks, Asked, Even, NoAnswer
  <1>6. QED
    BY <1>3, <1>5 DEF Sent

(* The user enters a line, or asks to send a file.                         *)
LEMMA LineEntered ==
  ASSUME NEW v \in ViewType, Request(v), NEW m \in Message, m.kind \in {"y", "n", "sendfile"}
  PROVE  Request([v EXCEPT !.input = Append(v.input, m)])
  <1>. DEFINE w == [v EXCEPT !.input = Append(v.input, m)]
  <1>1. /\ w.input = Append(v.input, m) /\ w.forth = v.forth /\ w.sent = v.sent
        /\ w.crossed = v.crossed /\ w.file = v.file /\ w.send = v.send /\ w.back = v.back
        /\ w.asked = v.asked /\ w.accepted = v.accepted /\ w.size = v.size
        /\ w.receive = v.receive /\ v.input \in Seq(Message)
    BY DEF ViewType
  <1>. HIDE DEF w
  <1>2. \A kind \in {"accepted", "declined"} : None(v.input, kind) => None(w.input, kind)
    BY <1>1, Added
  <1>3. Request(w)
    BY <1>1, <1>2
    DEF Request, Unsent, Sent, Begins, Asks, Asked, Promised, Declined, Even, NoAnswer
  <1>4. QED
    BY <1>3 DEF w

(* A line is taken as an answer to the peer's request, or sent.            *)
LEMMA LineTaken ==
  ASSUME NEW v \in ViewType, Request(v), v.input # <<>>
  PROVE  Request([v EXCEPT !.input = Tail(v.input)])
  <1>. DEFINE w == [v EXCEPT !.input = Tail(v.input)]
  <1>1. /\ w.input = Tail(v.input) /\ w.forth = v.forth /\ w.sent = v.sent
        /\ w.crossed = v.crossed /\ w.file = v.file /\ w.send = v.send /\ w.back = v.back
        /\ w.asked = v.asked /\ w.accepted = v.accepted /\ w.size = v.size
        /\ w.receive = v.receive /\ v.input \in Seq(Message)
    BY DEF ViewType
  <1>. HIDE DEF w
  <1>2. ASSUME NEW kind, NEW file
        PROVE  /\ None(v.input, kind) => None(w.input, kind) /\ Head(v.input).kind # kind
               /\ AtMostOne(v.input, kind, file) => AtMostOne(w.input, kind, file)
               /\ AtMostOne(v.input, kind, file) /\ Head(v.input).kind = kind => None(w.input, kind)
    <2>1. v.input \in Seq(Message) /\ v.input # <<>> /\ w.input = Tail(v.input)
      BY <1>1
    <2>2. QED
      BY <2>1, Taken
  <1>3. Request(w)
    BY <1>1, <1>2
    DEF Request, Unsent, Sent, Begins, Asks, Asked, Promised, Declined, Even, NoAnswer
  <1>4. QED
    BY <1>3 DEF w

(* The request is sent: unless it crosses the last one, that is settled.   *)
LEMMA RequestSent ==
  ASSUME NEW v \in ViewType, Request(v), v.input # <<>>, Head(v.input).kind = "sendfile",
         NEW w, w.input = Tail(v.input), w.forth = Append(v.forth, Head(v.input)),
         w.sent, w.file = Head(v.input).file, w.send = v.send, w.back = v.back,
         w.asked = v.asked, w.accepted = v.accepted, w.size = v.size, w.receive = v.receive,
         ~ w.crossed => /\ ~ v.crossed /\ ~ v.sent /\ NoAnswer(v)
                        /\ ~ v.asked /\ ~ v.accepted /\ None(v.forth, "sendfile")
  PROVE  Request(w)
  <1>1. v.input \in Seq(Message) /\ v.forth \in Seq(Message)
    BY DEF ViewType
  <1>2. Head(v.input) \in Message
    BY <1>1, Taken
  <1>3. ASSUME ~ w.crossed PROVE Sent(w)
    <2>1. ~ v.crossed /\ ~ v.sent /\ NoAnswer(v) /\ ~ v.asked /\ ~ v.accepted
          /\ None(v.forth, "sendfile")
      BY <1>3
    <2>2. Unsent(v) \/ Begins(v)
      BY <2>1 DEF Request, Sent
    <2>3. v.receive = v.send
      <3>1. CASE Unsent(v)
        BY <3>1 DEF Unsent, Even
      <3>2. CASE Begins(v)
        <4>1. PICK done \in Seq(Names) : v.send = Append(done, v.file) /\ Promised(v, done)
          BY <3>2 DEF Begins
        <4>2. QED
          BY <2>1, <4>1 DEF Promised
      <3>3. QED
        BY <2>2, <3>1, <3>2
    <2>4. AtMostOne(w.forth, "sendfile", w.file)
      BY <1>1, <1>2, <2>1, Added
    <2>5. Asks(w)
      BY <2>1, <2>3, <2>4 DEF Asks, Even, NoAnswer
    <2>6. QED
      BY <2>5 DEF Sent
  <1>4. None(w.input, "accepted") /\ None(w.input, "declined")
    <2>1. ASSUME NEW kind PROVE None(v.input, kind) => None(w.input, kind)
      <3>1. v.input \in Seq(Message) /\ v.input # <<>> /\ w.input = Tail(v.input)
        BY <1>1
      <3>2. None(v.input, kind) => None(Tail(v.input), kind)
        BY <3>1, Taken, Zenon
      <3>3. QED
        BY <3>1, <3>2
    <2>2. QED
      BY <2>1 DEF Request
  <1>5. QED
    BY <1>3, <1>4 DEF Request

(* A line is taken, and a message that is no request is sent.              *)
LEMMA LineSent ==
  ASSUME NEW v \in ViewType, Request(v), v.input # <<>>,
         NEW m \in Message, m.kind # "sendfile",
         NEW w, w.input = Tail(v.input), w.forth = Append(v.forth, m), w.sent = v.sent,
         w.crossed = v.crossed, w.file = v.file, w.send = v.send, w.back = v.back,
         w.asked = v.asked, w.accepted = v.accepted, w.size = v.size,
         w.receive = v.receive
  PROVE  Request(w)
  <1>1. v.input \in Seq(Message) /\ v.forth \in Seq(Message)
    BY DEF ViewType
  <1>2. ASSUME NEW kind, NEW file
        PROVE  /\ None(v.input, kind) => None(w.input, kind)
               /\ AtMostOne(v.input, kind, file) => AtMostOne(w.input, kind, file)
    BY <1>1, Taken
  <1>3. /\ None(v.forth, "sendfile") => None(w.forth, "sendfile")
        /\ AtMostOne(v.forth, "sendfile", v.file) => AtMostOne(w.forth, "sendfile", v.file)
    BY <1>1, Added
  <1>4. QED
    BY <1>1, <1>2, <1>3
    DEF Request, Unsent, Sent, Begins, Asks, Asked, Promised, Declined, Even, NoAnswer

(* The peer's user accepts the file, declines it, or enters its name.      *)
LEMMA FileAccepted ==
  ASSUME NEW v \in ViewType, Request(v), v.asked, ~ v.accepted,
         NEW m \in Message, m.kind = "accepted",
         NEW w, w.back = Append(v.back, m), w.input = v.input, w.sent = v.sent,
         w.crossed = v.crossed, w.file = v.file, w.send = v.send, w.forth = v.forth,
         w.asked = v.asked, w.accepted, w.size = v.size, w.receive = v.receive
  PROVE  Request(w)
  <1>. SUFFICES ASSUME ~ v.crossed PROVE Sent(w)
    BY DEF Request
  <1>1. v.back \in Seq(Message)
    BY DEF ViewType
  <1>2. Sent(v) /\ Asked(v)
    BY DEF Request, Unsent, Sent, Begins, Asks, Promised, Declined, Even
  <1>3. None(w.back, "declined")
    BY <1>1, <1>2, Added DEF Asked, NoAnswer
  <1>4. Promised(w, w.send)
    BY <1>2, <1>3 DEF Asked, Promised
  <1>5. QED
    BY <1>2, <1>4 DEF Sent

(* The peer's user declines it.                                            *)
LEMMA FileDeclined ==
  ASSUME NEW v \in ViewType, Request(v), v.asked, ~ v.accepted,
         NEW m \in Message, m.kind = "declined", m.file = "none",
         NEW w, w.back = Append(v.back, m), w.input = v.input, w.sent = v.sent,
         w.crossed = v.crossed, w.file = v.file, w.send = v.send, w.forth = v.forth,
         ~ w.asked, ~ w.accepted, w.size = v.size, w.receive = v.receive
  PROVE  Request(w)
  <1>. SUFFICES ASSUME ~ v.crossed PROVE Sent(w)
    BY DEF Request
  <1>1. v.back \in Seq(Message)
    BY DEF ViewType
  <1>2. Sent(v) /\ Asked(v)
    BY DEF Request, Unsent, Sent, Begins, Asks, Promised, Declined, Even
  <1>3. None(w.back, "accepted") /\ AtMostOne(w.back, "declined", "none")
    BY <1>1, <1>2, Added DEF Asked, NoAnswer
  <1>4. Declined(w)
    BY <1>2, <1>3 DEF Asked, Declined, Even
  <1>5. QED
    BY <1>2, <1>4 DEF Sent

(* The peer's user enters the name of the file, and the transfer begins.   *)
LEMMA FileNamed ==
  ASSUME NEW v \in ViewType, Request(v), v.accepted, NEW m \in Message, m.kind = "accepted",
         NEW w, w.back = Append(v.back, m), w.input = v.input, w.sent = v.sent,
         w.crossed = v.crossed, w.file = v.file, w.send = v.send, w.forth = v.forth,
         ~ w.asked, ~ w.accepted, w.size = v.size,
         w.receive = Append(v.receive, v.size)
  PROVE  Request(w)
  <1>. SUFFICES ASSUME ~ v.crossed PROVE Sent(w) \/ Begins(w)
    BY DEF Request
  <1>1. v.back \in Seq(Message)
    BY DEF ViewType
  <1>2. ASSUME NEW done, Promised(v, done) PROVE Promised(w, done)
    <2>1. None(w.back, "declined")
      BY <1>1, <1>2, Added DEF Promised
    <2>2. v.size = v.file /\ v.receive = done /\ None(v.forth, "sendfile")
      BY <1>2 DEF Promised
    <2>3. w.receive = Append(done, w.file) /\ None(w.forth, "sendfile")
      BY <2>2
    <2>4. QED
      BY <2>1, <2>3 DEF Promised
  <1>3. Begins(v) \/ (Sent(v) /\ Promised(v, v.send))
    BY DEF Request, Unsent, Sent, Asks, Asked, Declined, Even
  <1>4. CASE Begins(v)
    BY <1>2, <1>4 DEF Begins
  <1>5. CASE Sent(v) /\ Promised(v, v.send)
    BY <1>2, <1>5 DEF Sent
  <1>6. QED
    BY <1>3, <1>4, <1>5

(* The views of the two chats are all there is to the invariant.           *)
LEMMA ViewIsTyped ==
  ASSUME TransferType, NEW c \in Chats
  PROVE  View(c) \in ViewType /\ Pipe(c) \in Seq(Message)
  <1>1. Peer(c) \in Chats
    BY PeerOfPeer
  <1>2. Pipe(c) \in Seq(Message) /\ Pipe(Peer(c)) \in Seq(Message)
    BY <1>1, JoinedElements DEF Pipe, TransferType
  <1>3. QED
    BY <1>1, <1>2 DEF View, ViewType, TransferType

(* The two chats are all there are.                                        *)
LEMMA BothViews ==
  ASSUME NEW c \in Chats, TransferType', Request(View(c))', Request(View(Peer(c)))'
  PROVE  TransferInv'
  BY PeerOfPeer DEF TransferInv

(* A step that changes no view keeps the invariant.                        *)
LEMMA SameViews ==
  ASSUME TransferInv, TransferType', \A c \in Chats : View(c)' = View(c)
  PROVE  TransferInv'
  BY DEF TransferInv, Request, Unsent, Sent, Begins, Asks, Asked, Promised, Declined,
         Even, NoAnswer

(* A message is sent to the peer.                                          *)
LEMMA SendStep ==
  ASSUME TransferType, NEW c \in Chats, NEW m \in Message, Send(c, m), UNCHANGED Messages
  PROVE  /\ channel' \in [Chats -> Seq(Message)]
         /\ Pipe(c)' = Pipe(c) /\ Pipe(Peer(c))' = Append(Pipe(Peer(c)), m)
  <1>1. Peer(c) \in Chats /\ Peer(c) # c
    BY PeerOfPeer
  <1>2. /\ channel \in [Chats -> Seq(Message)] /\ Messages \in [Chats -> Seq(Message)]
        /\ channel' = [channel EXCEPT ![Peer(c)] = Append(channel[Peer(c)], m)]
    BY DEF TransferType, Send
  <1>3. channel' \in [Chats -> Seq(Message)]
    BY <1>1, <1>2
  <1>4. channel'[Peer(c)] = Append(channel[Peer(c)], m) /\ channel'[c] = channel[c]
    BY <1>1, <1>2
  <1>5. Messages[Peer(c)] \o Append(channel[Peer(c)], m)
            = Append(Messages[Peer(c)] \o channel[Peer(c)], m)
    BY <1>1, <1>2, JoinedBehind
  <1>6. QED
    BY <1>3, <1>4, <1>5 DEF Pipe

(* A message that is not about a file.                                     *)
LEMMA OfIsMessage ==
  \A kind \in {"AcceptConnection", "y", "n", "accepted", "declined"} :
      Of(kind) \in Message /\ Of(kind).kind = kind /\ Of(kind).file = "none"
  BY DEF Of, Message, Names

(* The listener moves a message from those on their way to the list.       *)
LEMMA ListenerStep ==
  ASSUME TransferInv, NEW c \in Chats, ChatMainFunction_Listener(c)
  PROVE  TransferInv'
  <1>1. /\ TransferType /\ channel[c] # <<>>
        /\ channel' = [channel EXCEPT ![c] = Tail(channel[c])]
        /\ Messages' = [Messages EXCEPT ![c] = Append(Messages[c], Head(channel[c]))]
        /\ UNCHANGED <<inputs, flags, started>>
    BY DEF TransferInv, ChatMainFunction_Listener
  <1>2. channel[c] \in Seq(Message) /\ Messages[c] \in Seq(Message)
    BY <1>1 DEF TransferType
  <1>3. Head(channel[c]) \in Message /\ Tail(channel[c]) \in Seq(Message)
    BY <1>1, <1>2
  <1>4. TransferType'
    BY <1>1, <1>2, <1>3 DEF TransferType, inputs, flags
  <1>5. Append(Messages[c], Head(channel[c])) \o Tail(channel[c]) = Messages[c] \o channel[c]
    BY <1>1, <1>2, MovedOver
  <1>6. ASSUME NEW d \in Chats PROVE Pipe(d)' = Pipe(d)
    BY <1>1, <1>5 DEF Pipe, TransferType
  <1>7. ASSUME NEW d \in Chats PROVE View(d)' = View(d)
    <2>1. Peer(d) \in Chats
      BY PeerOfPeer
    <2>2. QED
      BY <1>1, <1>6, <2>1 DEF View, inputs, flags
  <1>8. QED
    BY <1>4, <1>7, SameViews

(* The handshake sends a message that is no request and no answer.         *)
LEMMA HandshakeStep ==
  ASSUME TransferInv, NEW c \in Chats, Handshake(c)
  PROVE  TransferInv'
  <1>. DEFINE m == Of("AcceptConnection")
  <1>1. /\ TransferType /\ Send(c, m) /\ UNCHANGED Messages
        /\ UNCHANGED <<inputs, flags, started>> /\ m \in Message
        /\ m.kind \notin {"sendfile", "accepted", "declined"}
    BY OfIsMessage DEF TransferInv, Handshake
  <1>. HIDE DEF m
  <1>2. /\ channel' \in [Chats -> Seq(Message)]
        /\ Pipe(c)' = Pipe(c) /\ Pipe(Peer(c))' = Append(Pipe(Peer(c)), m)
    BY <1>1, SendStep
  <1>3. TransferType'
    BY <1>1, <1>2 DEF TransferType, inputs, flags
  <1>4. Peer(c) \in Chats /\ Peer(Peer(c)) = c
    BY PeerOfPeer
  <1>5. View(c)' = [View(c) EXCEPT !.forth = Append(View(c).forth, m)]
    <2>1. View(c).forth = Pipe(Peer(c))
      BY DEF View
    <2>. DEFINE p == Append(Pipe(Peer(c)), m)
    <2>2. /\ UNCHANGED <<ConnectionInput, SentFileTransferRequest, crossed, FileLocalWantedToSend, started,
             PeerSentFileTransferRequest, AcceptedFileTransfer, SizeOfPeerFile>>
          /\ Pipe(c)' = Pipe(c) /\ Pipe(Peer(c))' = p
      BY <1>1, <1>2 DEF inputs, flags
    <2>. HIDE DEF p
    <2>3. View(c)' = [View(c) EXCEPT !.forth = p]
      BY <2>2 DEF View
    <2>. QED
      BY <2>1, <2>3 DEF p
  <1>. DEFINE d == Peer(c)
  <1>6. /\ View(d)'.back = Append(View(d).back, m) /\ View(d)'.forth = View(d).forth
        /\ View(d)'.input = View(d).input /\ View(d)'.sent = View(d).sent
        /\ View(d)'.crossed = View(d).crossed /\ View(d)'.file = View(d).file
        /\ View(d)'.send = View(d).send /\ View(d)'.size = View(d).size
        /\ View(d)'.asked = View(d).asked /\ View(d)'.accepted = View(d).accepted
        /\ View(d)'.receive = View(d).receive
    BY <1>1, <1>2, <1>4 DEF View, inputs, flags
  <1>7. Request(View(c)) /\ Request(View(Peer(c)))
        /\ View(c) \in ViewType /\ View(Peer(c)) \in ViewType
    BY <1>1, <1>4, ViewIsTyped DEF TransferInv
  <1>8. Request([View(c) EXCEPT !.forth = Append(View(c).forth, m)])
    BY <1>1, <1>7, OtherGoes
  <1>9. Request(View(d)')
    BY <1>1, <1>6, <1>7, OtherComes
  <1>10. QED
    BY <1>3, <1>5, <1>8, <1>9, BothViews

(* The user enters a line.                                                 *)
LEMMA EnterLineStep ==
  ASSUME TransferInv, NEW c \in Chats, EnterLine(c)
  PROVE  TransferInv'
  <1>1. PICK kind \in {"y", "n"} : SendDataToConnection(c, Of(kind))
    BY DEF EnterLine
  <1>. DEFINE line == Append(ConnectionInput[c], Of(kind))
  <1>2. /\ TransferType
        /\ ConnectionInput' = [ConnectionInput EXCEPT ![c] = line]
        /\ UNCHANGED <<channel, received, flags, started, requests>>
    BY <1>1 DEF TransferInv, EnterLine, SendDataToConnection
  <1>3. Of(kind) \in Message /\ Of(kind).kind \in {"y", "n"}
    BY OfIsMessage
  <1>4. line \in Seq(Message)
    BY <1>2, <1>3 DEF TransferType
  <1>5. View(c).input = ConnectionInput[c]
    BY DEF View
  <1>6. Request([View(c) EXCEPT !.input = line])
    BY <1>2, <1>3, <1>5, ViewIsTyped, LineEntered DEF TransferInv
  <1>. HIDE DEF line
  <1>7. TransferType'
    BY <1>2, <1>4 DEF TransferType, flags, received
  <1>8. Peer(c) \in Chats /\ Peer(c) # c
    BY PeerOfPeer
  <1>9. ConnectionInput'[c] = line /\ ConnectionInput'[Peer(c)] = ConnectionInput[Peer(c)]
    BY <1>2, <1>8 DEF TransferType
  <1>10. View(c)' = [View(c) EXCEPT !.input = line]
    <2>1. /\ UNCHANGED <<SentFileTransferRequest, crossed, FileLocalWantedToSend, started,
             PeerSentFileTransferRequest, AcceptedFileTransfer, SizeOfPeerFile>>
          /\ Pipe(c)' = Pipe(c) /\ Pipe(Peer(c))' = Pipe(Peer(c))
          /\ ConnectionInput'[c] = line
      BY <1>2, <1>9 DEF Pipe, flags, received
    <2>2. QED
      BY <2>1 DEF View
  <1>11. View(Peer(c))' = View(Peer(c))
    BY <1>2, <1>9 DEF View, Pipe, flags, received
  <1>12. Request(View(c))'
    BY <1>6, <1>10
  <1>13. Request(View(Peer(c)))'
    BY <1>8, <1>11 DEF TransferInv
  <1>14. QED
    BY <1>7, <1>12, <1>13, BothViews

(* The user asks to send a file.                                           *)
LEMMA SendFileStep ==
  ASSUME TransferInv, NEW c \in Chats, MBCSendFile(c)
  PROVE  TransferInv'
  <1>. DEFINE d == Peer(c)
              m == [kind |-> "sendfile", file |-> File[c][requests[c] + 1]]
              line == Append(ConnectionInput[c], m)
  <1>1. /\ TransferType
        /\ ConnectionInput' = [ConnectionInput EXCEPT ![c] = line]
        /\ requests' = [requests EXCEPT ![c] = requests[c] + 1]
        /\ UNCHANGED <<channel, received, flags, started>>
    BY DEF TransferInv, MBCSendFile, SendDataToConnection
  <1>2. requests[c] + 1 \in Nat
    BY <1>1 DEF TransferType
  <1>3. m \in Message /\ m.kind = "sendfile"
    BY <1>2 DEF Names, Message
  <1>. HIDE DEF m
  <1>4. line \in Seq(Message)
    BY <1>1, <1>3 DEF TransferType
  <1>5. View(c).input = ConnectionInput[c]
    BY DEF View
  <1>6. Request([View(c) EXCEPT !.input = line])
    BY <1>1, <1>3, <1>5, ViewIsTyped, LineEntered DEF TransferInv
  <1>. HIDE DEF line
  <1>7. TransferType'
    <2>1. requests' \in [Chats -> Nat]
      BY <1>1, <1>2 DEF TransferType
    <2>2. QED
      BY <1>1, <1>4, <2>1 DEF TransferType, flags, received
  <1>8. d \in Chats /\ d # c
    BY PeerOfPeer
  <1>9. ConnectionInput'[c] = line /\ ConnectionInput'[d] = ConnectionInput[d]
    BY <1>1, <1>8 DEF TransferType
  <1>10. View(c)' = [View(c) EXCEPT !.input = line]
    <2>1. /\ UNCHANGED <<SentFileTransferRequest, crossed, FileLocalWantedToSend, started,
             PeerSentFileTransferRequest, AcceptedFileTransfer, SizeOfPeerFile>>
          /\ Pipe(c)' = Pipe(c) /\ Pipe(Peer(c))' = Pipe(Peer(c))
          /\ ConnectionInput'[c] = line
      BY <1>1, <1>9 DEF Pipe, flags, received
    <2>2. QED
      BY <2>1 DEF View
  <1>11. View(d)' = View(d)
    BY <1>1, <1>9 DEF View, Pipe, flags, received
  <1>12. Request(View(c))' /\ Request(View(d))'
    BY <1>6, <1>8, <1>10, <1>11 DEF TransferInv
  <1>13. QED
    BY <1>7, <1>12, BothViews

(* A message is read: the request, the answer, or one that is passed over. *)
LEMMA HandleMessageStep ==
  ASSUME TransferInv, NEW c \in Chats, HandleMessage(c)
  PROVE  TransferInv'
  <1>. DEFINE d == Peer(c)
              m == Head(Messages[c])
  <1>1. /\ TransferType /\ Messages[c] # <<>> /\ Messages' = [Messages EXCEPT ![c] = Tail(Messages[c])]
        /\ UNCHANGED <<channel, ConnectionInput, requests, AcceptedFileTransfer, crossed,
           FileLocalWantedToSend>>
    BY DEF TransferInv, HandleMessage, inputs
  <1>2. /\ Messages[c] \in Seq(Message) /\ channel[c] \in Seq(Message)
        /\ m \in Message /\ Tail(Messages[c]) \in Seq(Message)
    BY <1>1 DEF TransferType
  <1>3. d \in Chats /\ d # c /\ Peer(d) = c
    BY PeerOfPeer
  <1>4. /\ Pipe(c) # <<>> /\ Head(Pipe(c)) = m /\ Pipe(c)' = Tail(Pipe(c))
        /\ Pipe(d)' = Pipe(d)
    <2>1. /\ Messages[c] \o channel[c] # <<>> /\ Head(Messages[c] \o channel[c]) = m
          /\ Tail(Messages[c] \o channel[c]) = Tail(Messages[c]) \o channel[c]
      BY <1>1, <1>2, FirstOfJoined
    <2>2. Messages'[c] = Tail(Messages[c]) /\ Messages'[d] = Messages[d]
      BY <1>1, <1>3 DEF TransferType
    <2>3. QED
      BY <1>1, <2>1, <2>2 DEF Pipe
  <1>5. /\ View(c) \in ViewType /\ View(d) \in ViewType
        /\ Request(View(c)) /\ Request(View(d))
        /\ View(c).back = Pipe(c) /\ View(d).forth = Pipe(c)
        /\ View(c).sent = SentFileTransferRequest[c]
    BY <1>1, <1>3, ViewIsTyped DEF TransferInv, View
  <1>6. Messages' \in [Chats -> Seq(Message)]
    BY <1>1, <1>2 DEF TransferType
  <1>. DEFINE rest == Tail(Pipe(c))
  <1>7. CASE m.kind = "sendfile"
    <2>1. /\ SizeOfPeerFile' = [SizeOfPeerFile EXCEPT ![c] = m.file]
          /\ PeerSentFileTransferRequest' = [PeerSentFileTransferRequest EXCEPT ![c] = TRUE]
          /\ UNCHANGED <<SentFileTransferRequest, started>>
      BY <1>7 DEF HandleMessage
    <2>2. TransferType'
      <3>1. m.file \in Names
        BY <1>2 DEF Message
      <3>2. QED
        BY <1>1, <1>6, <2>1, <3>1 DEF TransferType
    <2>3. Request([View(c) EXCEPT !.back = rest])
      BY <1>4, <1>5, <1>7, OtherRead
    <2>5. /\ SizeOfPeerFile'[c] = m.file /\ SizeOfPeerFile'[d] = SizeOfPeerFile[d]
          /\ PeerSentFileTransferRequest'[c]
          /\ PeerSentFileTransferRequest'[d] = PeerSentFileTransferRequest[d]
          /\ PeerSentFileTransferRequest'[c] = TRUE
      BY <1>1, <1>3, <2>1 DEF TransferType
    <2>6. Pipe(c)' = rest
      BY <1>4
    <2>. HIDE DEF rest, m
    <2>7. View(c)' = [View(c) EXCEPT !.back = rest]
      <3>1. /\ UNCHANGED <<ConnectionInput, FileLocalWantedToSend, AcceptedFileTransfer,
               SentFileTransferRequest, crossed, started>>
            /\ SizeOfPeerFile'[Peer(c)] = SizeOfPeerFile[Peer(c)]
            /\ PeerSentFileTransferRequest'[Peer(c)] = PeerSentFileTransferRequest[Peer(c)]
            /\ Pipe(c)' = rest /\ Pipe(Peer(c))' = Pipe(Peer(c))
        BY <1>1, <1>4, <2>1, <2>5, <2>6
      <3>2. QED
        BY <3>1 DEF View
    <2>8. Request(View(d)')
      <3>1. /\ UNCHANGED <<ConnectionInput, FileLocalWantedToSend, AcceptedFileTransfer,
               SentFileTransferRequest, crossed, started>>
            /\ SizeOfPeerFile'[Peer(d)] = m.file /\ PeerSentFileTransferRequest'[Peer(d)] = TRUE
            /\ Pipe(Peer(d))' = rest /\ Pipe(d)' = Pipe(d)
        BY <1>1, <1>3, <1>4, <2>1, <2>5, <2>6
      <3>. HIDE DEF d
      <3>2. View(d)'.forth = rest /\ View(d)'.size = m.file /\ View(d)'.asked
        BY <3>1 DEF View
      <3>3. /\ View(d)'.input = View(d).input /\ View(d)'.sent = View(d).sent
            /\ View(d)'.crossed = View(d).crossed /\ View(d)'.file = View(d).file
            /\ View(d)'.send = View(d).send /\ View(d)'.back = View(d).back
            /\ View(d)'.accepted = View(d).accepted /\ View(d)'.receive = View(d).receive
        BY <3>1 DEF View
      <3>. USE DEF rest, m
      <3>4. QED
        BY <1>4, <1>5, <1>7, <3>2, <3>3, PeerReadsRequest
    <2>9. Request(View(c))' /\ Request(View(d))'
      BY <2>3, <2>7, <2>8
    <2>10. QED
      BY <2>2, <2>9, BothViews
  <1>8. CASE m.kind # "sendfile"
    <2>1. Answered(c, m) /\ UNCHANGED <<SizeOfPeerFile, PeerSentFileTransferRequest>>
      BY <1>8 DEF HandleMessage
    <2>2. Request([View(d) EXCEPT !.forth = rest])
      BY <1>4, <1>5, <1>8, PeerReadsOther
    <2>3. Pipe(c)' = rest
      BY <1>4
    <2>4. CASE SentFileTransferRequest[c] /\ m.kind \in {"accepted", "declined"}
      <3>. DEFINE file == FileLocalWantedToSend[c]
                  send == IF m.kind = "accepted" THEN Append(started[c].send, file)
                                                 ELSE started[c].send
      <3>1. /\ SentFileTransferRequest' = [SentFileTransferRequest EXCEPT ![c] = FALSE]
            /\ started' = [started EXCEPT ![c] = [started[c] EXCEPT !.send = send]]
        <4>1. started[c] \in [send : Seq(Names), receive : Seq(Names)]
          BY <1>1 DEF TransferType
        <4>2. started = [started EXCEPT ![c] = [started[c] EXCEPT !.send = started[c].send]]
          BY <1>1, <4>1 DEF TransferType
        <4>3. QED
          BY <2>1, <2>4, <4>1, <4>2 DEF Answered, Begin
      <3>2. View(c).send = started[c].send /\ View(c).file = file
        BY DEF View
      <3>4. send \in Seq(Names)
        <4>1. started[c].send \in Seq(Names)
          BY <1>1 DEF TransferType
        <4>2. file \in Names
          BY <1>1, <1>5, <3>2 DEF ViewType
        <4>3. QED
          BY <4>1, <4>2
      <3>. HIDE DEF rest, m, send
      <3>5. /\ SentFileTransferRequest'[c] = FALSE
            /\ SentFileTransferRequest'[d] = SentFileTransferRequest[d]
            /\ started'[d] = started[d]
        BY <1>1, <1>3, <3>1 DEF TransferType
      <3>6. started'[c].send = send /\ started'[c].receive = started[c].receive
        BY <1>1, <3>1 DEF TransferType
      <3>7. TransferType'
        <4>2. started' \in [Chats -> [send : Seq(Names), receive : Seq(Names)]]
          <5>1. [started[c] EXCEPT !.send = send] \in [send : Seq(Names), receive : Seq(Names)]
            BY <1>1, <3>4 DEF TransferType
          <5>2. QED
            BY <1>1, <3>1, <5>1 DEF TransferType
        <4>3. QED
          BY <1>1, <1>6, <2>1, <3>1, <4>2 DEF TransferType
      <3>8. Request(View(c)')
        <4>1. /\ UNCHANGED <<ConnectionInput, FileLocalWantedToSend, AcceptedFileTransfer, SizeOfPeerFile,
                 PeerSentFileTransferRequest>>
              /\ Pipe(c)' = rest /\ Pipe(Peer(c))' = Pipe(Peer(c))
              /\ SentFileTransferRequest'[c] = FALSE /\ crossed' = crossed
              /\ started'[c].send = send /\ started'[Peer(c)].receive = started[Peer(c)].receive
          BY <1>1, <1>4, <2>1, <2>3, <3>5, <3>6
        <4>2. /\ View(c)'.back = rest /\ ~ View(c)'.sent /\ View(c)'.crossed = View(c).crossed
              /\ View(c)'.send = send
          BY <4>1 DEF View
        <4>3. /\ View(c)'.input = View(c).input /\ View(c)'.file = View(c).file
              /\ View(c)'.forth = View(c).forth /\ View(c)'.asked = View(c).asked
              /\ View(c)'.accepted = View(c).accepted /\ View(c)'.size = View(c).size
              /\ View(c)'.receive = View(c).receive
          BY <4>1 DEF View
        <4>. USE DEF rest, m, send
        <4>4. View(c)'.send = IF m.kind = "accepted" THEN Append(View(c).send, View(c).file)
                                                     ELSE View(c).send
          BY <3>2, <4>2
        <4>5. QED
          BY <1>4, <1>5, <2>4, <4>2, <4>3, <4>4, AnswerRead
      <3>9. View(d)' = [View(d) EXCEPT !.forth = rest]
        <4>1. /\ UNCHANGED <<ConnectionInput, FileLocalWantedToSend, AcceptedFileTransfer, SizeOfPeerFile,
                 PeerSentFileTransferRequest>>
              /\ Pipe(Peer(d))' = rest /\ Pipe(d)' = Pipe(d)
              /\ SentFileTransferRequest'[d] = SentFileTransferRequest[d]
              /\ crossed' = crossed /\ started'[d].send = started[d].send
              /\ started'[Peer(d)].receive = started[Peer(d)].receive
          BY <1>1, <1>3, <1>4, <2>1, <2>3, <3>5, <3>6
        <4>. HIDE DEF d
        <4>2. QED
          BY <4>1 DEF View
      <3>10. Request(View(c))' /\ Request(View(d))'
        BY <2>2, <3>8, <3>9
      <3>11. QED
        BY <3>7, <3>10, BothViews
    <2>5. CASE ~ (SentFileTransferRequest[c] /\ m.kind \in {"accepted", "declined"})
      <3>1. UNCHANGED <<SentFileTransferRequest, started>>
        BY <2>1, <2>5 DEF Answered
      <3>2. Request([View(c) EXCEPT !.back = rest])
        BY <1>4, <1>5, <2>5, OtherRead
      <3>. HIDE DEF rest, m
      <3>3. TransferType'
        BY <1>1, <1>6, <2>1, <3>1 DEF TransferType
      <3>4. View(c)' = [View(c) EXCEPT !.back = rest]
        <4>1. /\ UNCHANGED <<ConnectionInput, FileLocalWantedToSend, AcceptedFileTransfer, SizeOfPeerFile,
                 PeerSentFileTransferRequest, SentFileTransferRequest, crossed, started>>
              /\ Pipe(c)' = rest /\ Pipe(Peer(c))' = Pipe(Peer(c))
          BY <1>1, <1>4, <2>1, <2>3, <3>1
        <4>2. QED
          BY <4>1 DEF View
      <3>5. View(d)' = [View(d) EXCEPT !.forth = rest]
        <4>1. /\ UNCHANGED <<ConnectionInput, FileLocalWantedToSend, AcceptedFileTransfer, SizeOfPeerFile,
                 PeerSentFileTransferRequest, SentFileTransferRequest, crossed, started>>
              /\ Pipe(Peer(d))' = rest /\ Pipe(d)' = Pipe(d)
          BY <1>1, <1>3, <1>4, <2>1, <2>3, <3>1
        <4>. HIDE DEF d
        <4>2. QED
          BY <4>1 DEF View
      <3>6. Request(View(c))' /\ Request(View(d))'
        BY <2>2, <3>2, <3>4, <3>5
      <3>7. QED
        BY <3>3, <3>6, BothViews
    <2>6. QED
      BY <2>4, <2>5
  <1>9. QED
    BY <1>7, <1>8

(* A line is taken: it is the name of a file, the answer to a request, or  *)
(* it is sent.                                                             *)
LEMMA InputViews ==
  ASSUME TransferInv, NEW c \in Chats, HandleInput(c), NEW m \in Message, Send(c, m),
         m.kind # "sendfile",
         UNCHANGED <<SentFileTransferRequest, FileLocalWantedToSend, crossed>>,
         \A e \in Chats : started'[e].send = started[e].send,
         \A e \in Chats : e # c => started'[e].receive = started[e].receive,
         \A e \in Chats : e # c =>
            /\ PeerSentFileTransferRequest'[e] = PeerSentFileTransferRequest[e]
            /\ AcceptedFileTransfer'[e] = AcceptedFileTransfer[e]
  PROVE  Request(View(c)')
  <1>. DEFINE d == Peer(c)
  <1>1. /\ TransferType /\ ConnectionInput[c] # <<>>
        /\ ConnectionInput' = [ConnectionInput EXCEPT ![c] = Tail(ConnectionInput[c])]
        /\ UNCHANGED <<Messages, SizeOfPeerFile, requests>>
    BY DEF TransferInv, HandleInput, received
  <1>2. d \in Chats /\ d # c
    BY PeerOfPeer
  <1>3. Pipe(c)' = Pipe(c) /\ Pipe(d)' = Append(Pipe(d), m)
    BY <1>1, SendStep
  <1>4. ConnectionInput'[c] = Tail(ConnectionInput[c])
    BY <1>1 DEF TransferType
  <1>5. View(c) \in ViewType /\ Request(View(c)) /\ View(c).input = ConnectionInput[c]
    BY <1>1, ViewIsTyped DEF TransferInv, View
  <1>6. View(c)'.input = Tail(View(c).input) /\ View(c)'.forth = Append(View(c).forth, m)
    BY <1>3, <1>4 DEF View
  <1>7. /\ View(c)'.sent = View(c).sent /\ View(c)'.crossed = View(c).crossed
        /\ View(c)'.file = View(c).file /\ View(c)'.send = View(c).send
        /\ View(c)'.back = View(c).back /\ View(c)'.size = View(c).size
    BY <1>1, <1>3 DEF View
  <1>8. /\ View(c)'.asked = View(c).asked /\ View(c)'.accepted = View(c).accepted
        /\ View(c)'.receive = View(c).receive
    BY <1>2 DEF View
  <1>9. QED
    BY <1>1, <1>5, <1>6, <1>7, <1>8, LineSent

(* The view of the peer's requests, when a line is taken and a message     *)
(* sent.                                                                   *)
LEMMA PeerViews ==
  ASSUME TransferInv, NEW c \in Chats, HandleInput(c), NEW m \in Message, Send(c, m),
         \A e \in Chats : e # c =>
            /\ SentFileTransferRequest'[e] = SentFileTransferRequest[e]
            /\ FileLocalWantedToSend'[e] = FileLocalWantedToSend[e]
            /\ crossed'[e] = crossed[e],
         \A e \in Chats : started'[e].send = started[e].send
  PROVE  /\ View(Peer(c))'.back = Append(View(Peer(c)).back, m)
         /\ View(Peer(c))'.forth = View(Peer(c)).forth
         /\ View(Peer(c))'.input = View(Peer(c)).input
         /\ View(Peer(c))'.sent = View(Peer(c)).sent
         /\ View(Peer(c))'.crossed = View(Peer(c)).crossed
         /\ View(Peer(c))'.file = View(Peer(c)).file
         /\ View(Peer(c))'.send = View(Peer(c)).send
         /\ View(Peer(c))'.size = View(Peer(c)).size
         /\ View(Peer(c))'.asked = PeerSentFileTransferRequest'[c]
         /\ View(Peer(c))'.accepted = AcceptedFileTransfer'[c]
         /\ View(Peer(c))'.receive = started'[c].receive
         /\ View(Peer(c)).asked = PeerSentFileTransferRequest[c]
         /\ View(Peer(c)).accepted = AcceptedFileTransfer[c]
         /\ View(Peer(c)).receive = started[c].receive
         /\ View(Peer(c)).size = SizeOfPeerFile[c]
  <1>. DEFINE d == Peer(c)
  <1>1. /\ TransferType
        /\ ConnectionInput' = [ConnectionInput EXCEPT ![c] = Tail(ConnectionInput[c])]
        /\ UNCHANGED <<Messages, SizeOfPeerFile, requests>>
    BY DEF TransferInv, HandleInput, received
  <1>2. d \in Chats /\ d # c /\ Peer(d) = c
    BY PeerOfPeer
  <1>3. Pipe(c)' = Pipe(c) /\ Pipe(d)' = Append(Pipe(d), m)
    BY <1>1, SendStep
  <1>4. ConnectionInput'[d] = ConnectionInput[d]
    BY <1>1, <1>2 DEF TransferType
  <1>5. /\ View(d)'.back = Append(View(d).back, m) /\ View(d)'.forth = View(d).forth
        /\ View(d)'.input = View(d).input /\ View(d)'.sent = View(d).sent
        /\ View(d)'.crossed = View(d).crossed /\ View(d)'.file = View(d).file
        /\ View(d)'.send = View(d).send /\ View(d)'.size = View(d).size
    BY <1>1, <1>2, <1>3, <1>4 DEF View
  <1>6. /\ View(d)'.asked = PeerSentFileTransferRequest'[c]
        /\ View(d)'.accepted = AcceptedFileTransfer'[c]
        /\ View(d)'.receive = started'[c].receive
        /\ View(d).asked = PeerSentFileTransferRequest[c]
        /\ View(d).accepted = AcceptedFileTransfer[c]
        /\ View(d).receive = started[c].receive /\ View(d).size = SizeOfPeerFile[c]
    BY <1>2 DEF View
  <1>7. QED
    BY <1>5, <1>6

(* The line is the name of the file that was accepted.                     *)
LEMMA ReceiveFileStep ==
  ASSUME TransferInv, NEW c \in Chats, HandleInput(c), AcceptedFileTransfer[c]
  PROVE  TransferInv'
  <1>. DEFINE m == Of("accepted")
              d == Peer(c)
              names == Append(started[c].receive, SizeOfPeerFile[c])
  <1>1. /\ TransferType /\ ConnectionInput[c] # <<>>
        /\ ConnectionInput' = [ConnectionInput EXCEPT ![c] = Tail(ConnectionInput[c])]
        /\ UNCHANGED <<Messages, SizeOfPeerFile, requests>>
    BY DEF TransferInv, HandleInput, received
  <1>2. ReceiveFile(c)
    BY DEF HandleInput, HandleLine
  <1>3. /\ Send(c, m) /\ m \in Message /\ m.kind = "accepted"
        /\ PeerSentFileTransferRequest' = [PeerSentFileTransferRequest EXCEPT ![c] = FALSE]
        /\ AcceptedFileTransfer' = [AcceptedFileTransfer EXCEPT ![c] = FALSE]
        /\ UNCHANGED <<SentFileTransferRequest, FileLocalWantedToSend, crossed>>
    BY <1>2, OfIsMessage DEF ReceiveFile
  <1>4. started[c] \in [send : Seq(Names), receive : Seq(Names)] /\ SizeOfPeerFile[c] \in Names
    BY <1>1 DEF TransferType
  <1>5. started' = [started EXCEPT ![c] = [started[c] EXCEPT !.receive = names]]
    BY <1>2, <1>4 DEF ReceiveFile, Begin
  <1>6. names \in Seq(Names)
    BY <1>4
  <1>. HIDE DEF m, names
  <1>7. TransferType'
    <2>1. started' \in [Chats -> [send : Seq(Names), receive : Seq(Names)]]
      <3>1. [started[c] EXCEPT !.receive = names] \in [send : Seq(Names), receive : Seq(Names)]
        BY <1>4, <1>6
      <3>2. QED
        BY <1>1, <1>5, <3>1 DEF TransferType
    <2>2. channel' \in [Chats -> Seq(Message)]
      BY <1>1, <1>3, SendStep
    <2>3. ConnectionInput' \in [Chats -> Seq(Message)]
      BY <1>1 DEF TransferType
    <2>4. QED
      BY <1>1, <1>3, <2>1, <2>2, <2>3 DEF TransferType
  <1>8. /\ started'[c].receive = names
        /\ \A e \in Chats : started'[e].send = started[e].send
        /\ \A e \in Chats : e # c => started'[e].receive = started[e].receive
    BY <1>1, <1>4, <1>5 DEF TransferType
  <1>9. /\ ~ PeerSentFileTransferRequest'[c] /\ ~ AcceptedFileTransfer'[c]
        /\ \A e \in Chats : e # c =>
                /\ PeerSentFileTransferRequest'[e] = PeerSentFileTransferRequest[e]
                /\ AcceptedFileTransfer'[e] = AcceptedFileTransfer[e]
    BY <1>1, <1>3 DEF TransferType
  <1>10. Request(View(c)')
    BY <1>3, <1>8, <1>9, InputViews
  <1>11. d \in Chats /\ View(d) \in ViewType /\ Request(View(d))
    BY <1>1, PeerOfPeer, ViewIsTyped DEF TransferInv
  <1>12. Request(View(d)')
    <2>1. \A e \in Chats : e # c =>
            /\ SentFileTransferRequest'[e] = SentFileTransferRequest[e]
            /\ FileLocalWantedToSend'[e] = FileLocalWantedToSend[e]
            /\ crossed'[e] = crossed[e]
      BY <1>3
    <2>2. /\ View(d)'.back = Append(View(d).back, m) /\ View(d)'.forth = View(d).forth
          /\ View(d)'.input = View(d).input /\ View(d)'.sent = View(d).sent
          /\ View(d)'.crossed = View(d).crossed /\ View(d)'.file = View(d).file
          /\ View(d)'.send = View(d).send /\ View(d)'.size = View(d).size
          /\ View(d)'.asked = PeerSentFileTransferRequest'[c]
          /\ View(d)'.accepted = AcceptedFileTransfer'[c]
          /\ View(d)'.receive = started'[c].receive
          /\ View(d).accepted = AcceptedFileTransfer[c]
          /\ View(d).receive = started[c].receive /\ View(d).size = SizeOfPeerFile[c]
      BY <1>3, <1>8, <2>1, PeerViews
    <2>3. View(d)'.receive = Append(View(d).receive, View(d).size)
      BY <1>8, <2>2 DEF names
    <2>4. QED
      BY <1>3, <1>9, <1>11, <2>2, <2>3, FileNamed
  <1>13. QED
    BY <1>7, <1>10, <1>12, BothViews

(* The line answers the peer's request, or is dropped.                     *)
LEMMA AnswerRequestStep ==
  ASSUME TransferInv, NEW c \in Chats, HandleInput(c), ~ AcceptedFileTransfer[c],
         PeerSentFileTransferRequest[c]
  PROVE  TransferInv'
  <1>. DEFINE d == Peer(c)
              kind == Head(ConnectionInput[c]).kind
  <1>1. /\ TransferType /\ ConnectionInput[c] # <<>>
        /\ ConnectionInput' = [ConnectionInput EXCEPT ![c] = Tail(ConnectionInput[c])]
        /\ UNCHANGED <<Messages, SizeOfPeerFile, requests>>
    BY DEF TransferInv, HandleInput, received
  <1>2. AnswerRequest(c, kind)
    BY DEF HandleInput, HandleLine
  <1>. HIDE DEF kind
  <1>3. UNCHANGED <<SentFileTransferRequest, FileLocalWantedToSend, crossed, started>>
    BY <1>2 DEF AnswerRequest
  <1>4. ConnectionInput' \in [Chats -> Seq(Message)]
    BY <1>1 DEF TransferType
  <1>5. /\ d \in Chats /\ d # c /\ View(c) \in ViewType /\ Request(View(c))
        /\ View(d) \in ViewType /\ Request(View(d))
        /\ View(d).asked = PeerSentFileTransferRequest[c]
        /\ View(d).accepted = AcceptedFileTransfer[c]
    BY <1>1, PeerOfPeer, ViewIsTyped DEF TransferInv, View
  <1>6. \A e \in Chats : started'[e].send = started[e].send /\ started'[e].receive = started[e].receive
    BY <1>3
  <1>7. CASE kind \in {"y", "n"}
    <2>. DEFINE m == IF kind = "y" THEN Of("accepted") ELSE Of("declined")
                said == kind = "y"
    <2>1. /\ Send(c, m)
          /\ PeerSentFileTransferRequest' = [PeerSentFileTransferRequest EXCEPT ![c] = said]
          /\ AcceptedFileTransfer' = [AcceptedFileTransfer EXCEPT ![c] = said]
      <3>1. CASE kind = "y"
        <4>1. /\ Send(c, m) /\ AcceptedFileTransfer' = [AcceptedFileTransfer EXCEPT ![c] = TRUE]
              /\ UNCHANGED PeerSentFileTransferRequest
          BY <1>2, <3>1 DEF AnswerRequest
        <4>2. PeerSentFileTransferRequest
                  = [PeerSentFileTransferRequest EXCEPT ![c] = TRUE]
          BY <1>1 DEF TransferType
        <4>3. QED
          BY <3>1, <4>1, <4>2
      <3>2. CASE kind = "n"
        <4>1. /\ Send(c, m)
              /\ PeerSentFileTransferRequest' = [PeerSentFileTransferRequest EXCEPT ![c] = FALSE]
              /\ AcceptedFileTransfer' = [AcceptedFileTransfer EXCEPT ![c] = FALSE]
          BY <1>2, <3>2 DEF AnswerRequest
        <4>2. QED
          BY <3>2, <4>1
      <3>3. QED
        BY <1>7, <3>1, <3>2
    <2>2. /\ m \in Message /\ m.file = "none" /\ m.kind \in {"accepted", "declined"}
          /\ said \in BOOLEAN /\ (said <=> m.kind = "accepted")
      BY OfIsMessage
    <2>. HIDE DEF m, said
    <2>3. TransferType'
      <3>1. channel' \in [Chats -> Seq(Message)]
        BY <1>1, <2>1, <2>2, SendStep
      <3>2. /\ PeerSentFileTransferRequest' \in [Chats -> BOOLEAN]
            /\ AcceptedFileTransfer' \in [Chats -> BOOLEAN]
        BY <1>1, <2>1, <2>2 DEF TransferType
      <3>3. QED
        BY <1>1, <1>3, <1>4, <3>1, <3>2 DEF TransferType
    <2>4. /\ PeerSentFileTransferRequest'[c] = said /\ AcceptedFileTransfer'[c] = said
          /\ \A e \in Chats : e # c =>
                /\ PeerSentFileTransferRequest'[e] = PeerSentFileTransferRequest[e]
                /\ AcceptedFileTransfer'[e] = AcceptedFileTransfer[e]
      BY <1>1, <2>1 DEF TransferType
    <2>5. Request(View(c)')
      BY <1>3, <1>6, <2>1, <2>2, <2>4, InputViews
    <2>6. Request(View(d)')
      <3>1. /\ Send(c, m) /\ m \in Message
            /\ \A e \in Chats : e # c =>
                  /\ SentFileTransferRequest'[e] = SentFileTransferRequest[e]
                  /\ FileLocalWantedToSend'[e] = FileLocalWantedToSend[e]
                  /\ crossed'[e] = crossed[e]
            /\ \A e \in Chats : started'[e].send = started[e].send
        BY <1>3, <1>6, <2>1, <2>2
      <3>2. /\ View(d)'.back = Append(View(d).back, m) /\ View(d)'.forth = View(d).forth
            /\ View(d)'.input = View(d).input /\ View(d)'.sent = View(d).sent
            /\ View(d)'.crossed = View(d).crossed /\ View(d)'.file = View(d).file
            /\ View(d)'.send = View(d).send /\ View(d)'.size = View(d).size
            /\ View(d)'.asked = PeerSentFileTransferRequest'[c]
            /\ View(d)'.accepted = AcceptedFileTransfer'[c]
            /\ View(d)'.receive = started'[c].receive
            /\ View(d).receive = started[c].receive
        BY <3>1, PeerViews, Zenon
      <3>3. CASE m.kind = "accepted"
        <4>1. /\ View(d)'.asked /\ View(d)'.accepted /\ View(d).asked /\ ~ View(d).accepted
              /\ View(d)'.receive = View(d).receive
          BY <1>5, <1>6, <2>2, <2>4, <3>2, <3>3
        <4>2. View(d)'.asked = View(d).asked
          BY <1>5, <2>2, <2>4, <3>2, <3>3 DEF ViewType
        <4>3. QED
          BY <1>5, <2>2, <3>2, <3>3, <4>1, <4>2, FileAccepted
      <3>4. CASE m.kind = "declined"
        <4>1. /\ ~ View(d)'.asked /\ ~ View(d)'.accepted
              /\ View(d)'.receive = View(d).receive /\ m.file = "none"
          BY <1>6, <2>2, <2>4, <3>2, <3>4
        <4>2. View(d).asked /\ ~ View(d).accepted
          BY <1>5
        <4>3. QED
          BY <1>5, <2>2, <3>2, <3>4, <4>1, <4>2, FileDeclined
      <3>5. QED
        BY <2>2, <3>3, <3>4
    <2>7. QED
      BY <2>3, <2>5, <2>6, BothViews
  <1>8. CASE kind \notin {"y", "n"}
    <2>1. UNCHANGED <<channel, PeerSentFileTransferRequest, AcceptedFileTransfer>>
      BY <1>2, <1>8 DEF AnswerRequest
    <2>2. TransferType'
      BY <1>1, <1>3, <1>4, <2>1 DEF TransferType
    <2>. DEFINE line == Tail(ConnectionInput[c])
    <2>3. View(c).input = ConnectionInput[c]
      BY DEF View
    <2>4. Request([View(c) EXCEPT !.input = line])
      BY <1>1, <1>5, <2>3, LineTaken
    <2>5. ConnectionInput'[c] = line /\ ConnectionInput'[d] = ConnectionInput[d]
      BY <1>1, <1>5 DEF TransferType
    <2>. HIDE DEF line
    <2>6. View(c)' = [View(c) EXCEPT !.input = line]
      <3>1. /\ UNCHANGED <<SentFileTransferRequest, crossed, FileLocalWantedToSend, started,
               PeerSentFileTransferRequest, AcceptedFileTransfer, SizeOfPeerFile>>
            /\ Pipe(c)' = Pipe(c) /\ Pipe(Peer(c))' = Pipe(Peer(c))
            /\ ConnectionInput'[c] = line
        BY <1>1, <1>3, <2>1, <2>5 DEF Pipe
      <3>2. QED
        BY <3>1 DEF View
    <2>7. View(d)' = View(d)
      BY <1>1, <1>3, <2>1, <2>5 DEF View, Pipe
    <2>8. Request(View(c))' /\ Request(View(d))'
      BY <1>5, <2>4, <2>6, <2>7
    <2>9. QED
      BY <2>2, <2>8, BothViews
  <1>9. QED
    BY <1>7, <1>8

(* The line is sent; with it the request, if it is one.                    *)
LEMMA SendLineStep ==
  ASSUME TransferInv, NEW c \in Chats, HandleInput(c), ~ AcceptedFileTransfer[c],
         ~ PeerSentFileTransferRequest[c]
  PROVE  TransferInv'
  <1>. DEFINE d == Peer(c)
              m == Head(ConnectionInput[c])
  <1>1. /\ TransferType /\ ConnectionInput[c] # <<>>
        /\ ConnectionInput' = [ConnectionInput EXCEPT ![c] = Tail(ConnectionInput[c])]
        /\ UNCHANGED <<Messages, SizeOfPeerFile, requests>>
    BY DEF TransferInv, HandleInput, received
  <1>2. /\ Send(c, m)
        /\ IF m.kind = "sendfile" THEN SendFileRequest(c, m.file)
           ELSE UNCHANGED <<SentFileTransferRequest, FileLocalWantedToSend, crossed>>
        /\ UNCHANGED <<PeerSentFileTransferRequest, AcceptedFileTransfer, started>>
    BY DEF HandleInput, HandleLine
  <1>3. /\ d \in Chats /\ d # c /\ View(c) \in ViewType /\ Request(View(c))
        /\ View(d) \in ViewType /\ Request(View(d))
    BY <1>1, PeerOfPeer, ViewIsTyped DEF TransferInv
  <1>4. View(c).input = ConnectionInput[c]
    BY DEF View
  <1>5. m \in Message /\ m.kind # "accepted" /\ m.kind # "declined"
    <2>1. ConnectionInput[c] \in Seq(Message)
      BY <1>1 DEF TransferType
    <2>2. None(ConnectionInput[c], "accepted") /\ None(ConnectionInput[c], "declined")
      BY <1>3, <1>4 DEF Request
    <2>3. QED
      BY <1>1, <2>1, <2>2, Taken
  <1>6. ConnectionInput' \in [Chats -> Seq(Message)] /\ ConnectionInput'[c] = Tail(ConnectionInput[c])
    BY <1>1 DEF TransferType
  <1>7. TransferType'
    <2>1. channel' \in [Chats -> Seq(Message)]
      BY <1>1, <1>2, <1>5, SendStep
    <2>. HIDE DEF m
    <2>2. /\ SentFileTransferRequest' \in [Chats -> BOOLEAN]
          /\ FileLocalWantedToSend' \in [Chats -> Names]
          /\ crossed' \in [Chats -> BOOLEAN]
      <3>1. m.file \in Names
        BY <1>5 DEF Message
      <3>2. CASE m.kind = "sendfile"
        <4>1. SendFileRequest(c, m.file)
          BY <1>2, <3>2
        <4>2. SentFileTransferRequest' \in [Chats -> BOOLEAN]
          BY <1>1, <4>1 DEF TransferType, SendFileRequest
        <4>3. FileLocalWantedToSend' \in [Chats -> Names]
          BY <1>1, <3>1, <4>1 DEF TransferType, SendFileRequest
        <4>4. (crossed[c] \/ ~ Settled(c)) \in BOOLEAN
          BY <1>1 DEF TransferType, Settled
        <4>5. crossed' \in [Chats -> BOOLEAN]
          <5>. DEFINE x == crossed[c] \/ ~ Settled(c)
          <5>1. crossed' = [crossed EXCEPT ![c] = x] /\ x \in BOOLEAN
            BY <4>1, <4>4 DEF SendFileRequest
          <5>. HIDE DEF x
          <5>2. QED
            BY <1>1, <5>1 DEF TransferType
        <4>6. QED
          BY <4>2, <4>3, <4>5
      <3>3. CASE m.kind # "sendfile"
        BY <1>1, <1>2, <3>3 DEF TransferType
      <3>4. QED
        BY <3>2, <3>3
    <2>3. QED
      BY <1>1, <1>2, <1>6, <2>1, <2>2 DEF TransferType
  <1>8. \A e \in Chats : e # c =>
            /\ SentFileTransferRequest'[e] = SentFileTransferRequest[e]
            /\ FileLocalWantedToSend'[e] = FileLocalWantedToSend[e]
            /\ crossed'[e] = crossed[e]
    <2>1. CASE m.kind = "sendfile"
      BY <1>1, <1>2, <2>1 DEF TransferType, SendFileRequest
    <2>2. CASE m.kind # "sendfile"
      BY <1>2, <2>2
    <2>3. QED
      BY <2>1, <2>2
  <1>9. Request(View(d)')
    <2>1. /\ Send(c, m) /\ m \in Message /\ \A e \in Chats : started'[e].send = started[e].send
      BY <1>2, <1>5
    <2>2. /\ View(d)'.back = Append(View(d).back, m) /\ View(d)'.forth = View(d).forth
          /\ View(d)'.input = View(d).input /\ View(d)'.sent = View(d).sent
          /\ View(d)'.crossed = View(d).crossed /\ View(d)'.file = View(d).file
          /\ View(d)'.send = View(d).send /\ View(d)'.size = View(d).size
          /\ View(d)'.asked = PeerSentFileTransferRequest'[c]
          /\ View(d)'.accepted = AcceptedFileTransfer'[c]
          /\ View(d)'.receive = started'[c].receive
          /\ View(d).asked = PeerSentFileTransferRequest[c]
          /\ View(d).accepted = AcceptedFileTransfer[c] /\ View(d).receive = started[c].receive
      BY <1>8, <2>1, PeerViews, Zenon
    <2>3. /\ View(d)'.asked = View(d).asked /\ View(d)'.accepted = View(d).accepted
          /\ View(d)'.receive = View(d).receive
      BY <1>2, <2>2
    <2>4. QED
      BY <1>3, <1>5, <2>2, <2>3, OtherComes
  <1>10. Request(View(c)')
    <2>1. CASE m.kind # "sendfile"
      BY <1>2, <1>5, <2>1, InputViews
    <2>2. CASE m.kind = "sendfile"
      <3>1. /\ SentFileTransferRequest'[c] /\ FileLocalWantedToSend'[c] = m.file
            /\ crossed'[c] <=> crossed[c] \/ ~ Settled(c)
        BY <1>1, <1>2, <2>2 DEF TransferType, SendFileRequest
      <3>2. Pipe(c)' = Pipe(c) /\ Pipe(d)' = Append(Pipe(d), m)
        BY <1>1, <1>2, <1>5, SendStep
      <3>3. /\ View(c)'.input = Tail(View(c).input) /\ View(c)'.sent
            /\ View(c)'.forth = Append(View(c).forth, m)
        BY <1>4, <1>6, <3>1, <3>2 DEF View
      <3>4. /\ View(c)'.file = m.file
            /\ View(c)'.send = View(c).send /\ View(c)'.back = View(c).back
            /\ View(c)'.asked = View(c).asked /\ View(c)'.accepted = View(c).accepted
            /\ View(c)'.size = View(c).size /\ View(c)'.receive = View(c).receive
        BY <1>1, <1>2, <3>1, <3>2 DEF View
      <3>5. ASSUME ~ View(c)'.crossed
            PROVE  /\ ~ View(c).crossed /\ ~ View(c).sent /\ NoAnswer(View(c))
                   /\ ~ View(c).asked /\ ~ View(c).accepted /\ None(View(c).forth, "sendfile")
        <4>1. ~ crossed[c] /\ Settled(c)
          BY <3>1, <3>5 DEF View
        <4>2. /\ View(c).crossed = crossed[c] /\ View(c).sent = SentFileTransferRequest[c]
              /\ View(c).asked = PeerSentFileTransferRequest[Peer(c)]
              /\ View(c).accepted = AcceptedFileTransfer[Peer(c)]
              /\ View(c).back = Pipe(c) /\ View(c).forth = Pipe(Peer(c))
          BY DEF View
        <4>3. QED
          BY <4>1, <4>2, Zenon DEF Settled, NoAnswer
      <3>6. QED
        BY <1>1, <1>3, <1>4, <2>2, <3>3, <3>4, <3>5, RequestSent
    <2>3. QED
      BY <2>1, <2>2
  <1>11. QED
    BY <1>7, <1>9, <1>10, BothViews

(* The three together.                                                     *)
LEMMA HandleInputStep ==
  ASSUME TransferInv, NEW c \in Chats, HandleInput(c)
  PROVE  TransferInv'
  BY ReceiveFileStep, AnswerRequestStep, SendLineStep

(* The connection that is the current one does not matter.                 *)
LEMMA SwitchStep ==
  ASSUME TransferInv, NEW c \in Chats, SwitchConnection(c) \/ UNCHANGED transferVars
  PROVE  TransferInv'
  <1>1. /\ TransferType
        /\ UNCHANGED <<channel, Messages, ConnectionInput, requests, flags, started>>
    BY DEF TransferInv, SwitchConnection, transferVars, inputs, received, flags
  <1>2. TransferType'
    BY <1>1 DEF TransferType, flags
  <1>3. \A d \in Chats : View(d)' = View(d)
    BY <1>1 DEF View, Pipe, flags
  <1>4. QED
    BY <1>2, <1>3, SameViews

(* The invariant is what the transfers' agreement rests on.                *)
LEMMA TransferInitial == TransferInit => TransferInv
  <1>. SUFFICES ASSUME TransferInit PROVE TransferInv
    OBVIOUS
  <1>1. Of("AcceptConnection") \in Message
    BY OfIsMessage
  <1>2. TransferType
    <2>1. channel \in [Chats -> Seq(Message)]
      BY <1>1 DEF TransferInit
    <2>2. QED
      BY <2>1 DEF TransferInit, TransferType, Names
  <1>3. ASSUME NEW c \in Chats PROVE Request(View(c))
    <2>1. Peer(c) \in Chats
      BY PeerOfPeer
    <2>. DEFINE s == <<Of("AcceptConnection")>>
    <2>2. Pipe(c) = s /\ Pipe(Peer(c)) = s
      BY <2>1 DEF TransferInit, Pipe
    <2>3. None(s, "sendfile") /\ None(s, "accepted") /\ None(s, "declined")
      BY DEF None, Of
    <2>4. ASSUME NEW kind PROVE None(<<>>, kind)
      BY DEF None
    <2>. HIDE DEF s
    <2>5. Unsent(View(c))
      BY <2>1, <2>2, <2>3, <2>4 DEF TransferInit, View, Unsent, Even, NoAnswer
    <2>6. View(c).input = <<>>
      BY DEF TransferInit, View
    <2>7. QED
      BY <2>4, <2>5, <2>6 DEF Request
  <1>4. QED
    BY <1>2, <1>3 DEF TransferInv

(* With the invariant, a transfer that has begun is the one the peer has   *)
(* promised to receive.                                                    *)
LEMMA TransferAgreement == TransferInv => TransfersAgree
  <1>. SUFFICES ASSUME TransferInv, NEW c \in Chats, ~ crossed[c]
                PROVE  \E promised \in {started[Peer(c)].receive \o
                          (IF AcceptedFileTransfer[Peer(c)]
                           THEN <<SizeOfPeerFile[Peer(c)]>> ELSE <<>>)} :
                         /\ Len(started[c].send) <= Len(promised)
                         /\ started[c].send = SubSeq(promised, 1, Len(started[c].send))
    BY DEF TransfersAgree
  <1>. DEFINE v == View(c)
              promised == v.receive \o (IF v.accepted THEN <<v.size>> ELSE <<>>)
  <1>1. /\ v \in ViewType /\ Request(v) /\ v.send = started[c].send
        /\ v.receive = started[Peer(c)].receive /\ v.size = SizeOfPeerFile[Peer(c)]
        /\ v.accepted = AcceptedFileTransfer[Peer(c)] /\ ~ v.crossed
    BY ViewIsTyped DEF TransferInv, View
  <1>. HIDE DEF v
  <1>2. /\ v.send \in Seq(Names) /\ v.receive \in Seq(Names) /\ v.size \in Names
        /\ v.file \in Names /\ (Unsent(v) \/ Sent(v) \/ Begins(v))
    BY <1>1 DEF ViewType, Request
  <1>3. ASSUME NEW done \in Seq(Names), Promised(v, done) PROVE promised = Append(done, v.file)
    <2>1. CASE v.accepted
      <3>1. v.receive = done /\ v.size = v.file
        BY <1>3, <2>1 DEF Promised
      <3>2. done \o <<v.file>> = Append(done, v.file)
        BY <1>2
      <3>3. QED
        BY <2>1, <3>1, <3>2
    <2>2. CASE ~ v.accepted
      <3>1. v.receive = Append(done, v.file) /\ promised = v.receive \o <<>>
        BY <1>3, <2>2 DEF Promised
      <3>2. QED
        BY <1>2, <3>1
    <2>3. QED
      BY <2>1, <2>2
  <1>4. promised = v.send \/ promised = Append(v.send, v.file)
    <2>1. CASE Unsent(v) \/ (Sent(v) /\ ~ Promised(v, v.send))
      <3>1. ~ v.accepted /\ v.receive = v.send
        BY <2>1 DEF Unsent, Sent, Asks, Asked, Declined, Even
      <3>2. QED
        BY <1>2, <3>1
    <2>2. CASE Promised(v, v.send)
      BY <1>2, <1>3, <2>2
    <2>3. CASE Begins(v)
      BY <1>3, <2>3 DEF Begins
    <2>4. QED
      BY <1>2, <2>1, <2>2, <2>3
  <1>5. Len(v.send) <= Len(promised) /\ v.send = SubSeq(promised, 1, Len(v.send))
    <2>. HIDE DEF promised
    <2>1. CASE promised = v.send
      BY <1>2, <2>1
    <2>2. CASE promised = Append(v.send, v.file)
      <3>1. Len(promised) = Len(v.send) + 1 /\ Len(v.send) \in Nat
        BY <1>2, <2>2
      <3>2. \A i \in 1 .. Len(v.send) : promised[i] = v.send[i]
        BY <1>2, <2>2
      <3>3. QED
        BY <1>2, <2>2, <3>1, <3>2
    <2>3. QED
      BY <1>4, <2>1, <2>2
  <1>6. QED
    BY <1>1, <1>5

(* The files a side has begun to send are those the other has begun to     *)
(* receive or has promised to, in their order.                             *)
THEOREM TransfersStayAgreed ==
  TransferInit /\ [][TransferNext]_transferVars => []TransfersAgree
  <1>1. ASSUME TransferInv, [TransferNext]_transferVars PROVE TransferInv'
    <2>1. CASE UNCHANGED transferVars
      <3>1. PICK c \in Chats : TRUE
        BY ChatsAssumption
      <3>2. QED
        BY <1>1, <2>1, <3>1, SwitchStep
    <2>2. ASSUME NEW c \in Chats,
                 \/ ChatMainFunction_Listener(c) \/ Handshake(c) \/ SwitchConnection(c)
                 \/ EnterLine(c) \/ MBCSendFile(c) \/ HandleMessage(c) \/ HandleInput(c)
          PROVE  TransferInv'
      BY <1>1, <2>2, ListenerStep, HandshakeStep, SwitchStep, EnterLineStep, SendFileStep,
         HandleMessageStep, HandleInputStep
    <2>3. QED
      BY <1>1, <2>1, <2>2 DEF TransferNext
  <1>2. QED
    BY <1>1, TransferInitial, TransferAgreement, PTL
-----------------------------------------------------------------------------
(* Two chats and a port: the first port after n that is not in use on a    *)
(* side.                                                                   *)
IsNext(used, n, k) ==
    /\ k \in Nat /\ k > n /\ k \notin used
    /\ \A j \in (n + 1) .. (k - 1) : j \in used

(* A well-founded relation has a least element in every set.               *)
LEMMA SmallestElement ==
  ASSUME NEW R, IsWellFoundedOn(R, Nat), NEW T, T \subseteq Nat, T # {}
  PROVE  \E k \in T : \A j \in T : ~ (<<j, k>> \in R)
  BY WFMin, Zenon

(* A set of numbers has a least one.                                       *)
LEMMA SmallestNumber ==
  ASSUME NEW T, T \subseteq Nat, T # {}
  PROVE  \E k \in T : \A j \in T : k <= j
<1> DEFINE R == OpToRel(<, Nat)
<1>1. IsWellFoundedOn(R, Nat)
  BY NatLessThanWellFounded
<1>2. \A j, k \in Nat : <<j, k>> \notin R => k <= j
  BY DEF OpToRel
<1> HIDE DEF R
<1>3. \E k \in T : \A j \in T : <<j, k>> \notin R
  BY <1>1, SmallestElement
<1> QED BY <1>2, <1>3

(* Among one more numbers than there are ports in use, one is free.        *)
LEMMA ManyUsed ==
  ASSUME NEW used \in SUBSET Nat, IsFiniteSet(used), NEW n \in Nat
  PROVE  \E k \in (n + 1) .. (n + 1 + Cardinality(used)) : k \notin used
<1>1. Cardinality(used) \in Nat
  BY FS_CardinalityType
<1> DEFINE c == Cardinality(used)
           I == (n + 1) .. (n + 1 + c)
<1>2. IsFiniteSet(I) /\ Cardinality(I) = c + 1
  <2> HIDE DEF c
  <2> DEFINE a == n + 1
             b == n + 1 + c
  <2>1. a \in Int /\ b \in Int /\ ~ (a > b) /\ b - a + 1 = c + 1
    BY <1>1 DEF c
  <2> HIDE DEF a, b, c
  <2>2. IsFiniteSet(a .. b) /\ Cardinality(a .. b) = b - a + 1
    BY <2>1, FS_Interval
  <2> QED BY <2>1, <2>2 DEF a, b
<1>3. SUFFICES ASSUME I \subseteq used PROVE FALSE
  OBVIOUS
<1>4. Cardinality(I) <= Cardinality(used)
  BY <1>3, FS_Subset
<1> QED BY <1>1, <1>2, <1>4

(* The port NextPort looks for exists.                                     *)
LEMMA NextPortIsNext ==
  ASSUME NEW p, UsedPorts[p] \in SUBSET Nat, IsFiniteSet(UsedPorts[p]), NEW n \in Nat
  PROVE  IsNext(UsedPorts[p], n, NextPort(p, n))
<1> DEFINE used == UsedPorts[p]
           c == Cardinality(used)
           T == {k \in (n + 1) .. (n + 1 + c) : k \notin used}
<1>1. c \in Nat
  BY FS_CardinalityType
<1> HIDE DEF c
<1>2. T \in SUBSET Nat /\ T # {}
  BY ManyUsed, <1>1 DEF c
<1>3. PICK k \in T : \A j \in T : k <= j
  <2> HIDE DEF T
  <2> QED BY <1>2, SmallestNumber
<1>4. /\ k \in (n + 1) .. (n + 1 + c) /\ PortIsAvailable(p, k)
      /\ \A j \in (n + 1) .. (k - 1) : ~PortIsAvailable(p, j)
  BY <1>1, <1>3 DEF PortIsAvailable
<1>5. /\ NextPort(p, n) \in (n + 1) .. (n + 1 + c)
      /\ PortIsAvailable(p, NextPort(p, n))
      /\ \A j \in (n + 1) .. (NextPort(p, n) - 1) : ~PortIsAvailable(p, j)
  BY <1>4, Zenon DEF NextPort, c
<1> QED BY <1>1, <1>5 DEF IsNext, PortIsAvailable

(* What makes the agreement hold: of the two sets of ports in use one is   *)
(* part of the other.                                                      *)
Nested(used) == \A p, q \in Callers : used[p] \subseteq used[q] \/ used[q] \subseteq used[p]

(* The port that is suggested first, and the first from there on that is   *)
(* free on a side.                                                         *)
FirstSuggestion == LocalFirstMessagePort + LocalFirstMessagePort
IsFirst(used, k) == IF FirstSuggestion \in used THEN IsNext(used, FirstSuggestion, k)
                    ELSE k = FirstSuggestion

(* The messages that can be on their way.                                  *)
Greetings(ports) == {FirstMessage} \cup {AcceptPort(n) : n \in ports}

(* What does not change: U, the ports in use at the start; s, the side     *)
(* whose ports are among those of b; h and g, the first free ports of s    *)
(* and of b.                                                               *)
Sides(U, s, b, h, g) ==
    /\ s # b /\ Callers = {s, b} /\ U \in [Callers -> SUBSET Nat]
    /\ \A p \in Callers : IsFiniteSet(U[p])
    /\ U[s] \subseteq U[b] /\ IsFirst(U[s], h) /\ IsFirst(U[b], g)

(* The ports p may have suggested or accepted so far, when s has agreed    *)
(* on n (0 before), and the messages with them.                            *)
Said(U, s, h, g, n, p) ==
    {k \in Nat : \/ k = FirstSuggestion
                 \/ p # s /\ k = g
                 \/ p = s /\ FirstSuggestion \in U[s] /\ (k = g \/ k = h)
                 \/ p = s /\ FirstSuggestion \notin U[s] /\ k # 0 /\ k = n}
MaySay(U, s, h, g, p) == Greetings(Said(U, s, h, g, port[s], p))
(* The invariant: how far the calls are, ...                               *)
CallsGo ==
    /\ call \in [Callers -> {"none", "waiting", "read", "agreed", "connected"}]
    /\ calls \in [Callers -> 0 .. 1]
    /\ port \in [Callers -> Nat]
    /\ \A p \in Callers : calls[p] = 0 => call[p] = "none" /\ port[p] = 0
    /\ \A p \in Callers : call[p] \in {"waiting", "read"} => port[p] = 0
    /\ \A p \in Callers : call[p] \in {"agreed", "connected"} => port[p] # 0
(* ... that nobody has said anything else than he may, wherever it is on   *)
(* its way, ...                                                            *)
Channels(U, s, h, g) ==
    /\ DOMAIN message = Callers /\ DOMAIN queue = Callers /\ DOMAIN pipe = Callers
    /\ \A p \in Callers : message[p] \in MaySay(U, s, h, g, p)
    /\ \A p \in Callers : queue[p] \in Seq(MaySay(U, s, h, g, p))
    /\ \A p, q \in Callers : p # q => pipe[p].last \in MaySay(U, s, h, g, q) \cup {NoRecord}
    /\ \A p, q \in Callers : p # q => \A m : <<p, m>> \in sent => m \in MaySay(U, s, h, g, q)
    /\ \A d \in sent : d = <<d[1], d[2]>>
(* ... and the ports: b agrees on none but g; once it has, s does so too.  *)
Ports(U, s, b, h, g) ==
    /\ DOMAIN UsedPorts = Callers
    /\ \A p \in Callers : UsedPorts[p] = IF call[p] = "connected" THEN U[p] \cup {port[p]} ELSE U[p]
    /\ port[b] \in {0, g}
    /\ port[s] \in IF FirstSuggestion \in U[s] THEN {0, g} ELSE {0, FirstSuggestion, g}
    /\ port[b] # 0 /\ FirstSuggestion \notin U[s] /\ FirstSuggestion # g => port[s] = g

(* A queue of what may be said is one when more may be said, ...           *)
LEMMA SeqGrows ==
  ASSUME NEW S, NEW T, S \subseteq T, NEW q \in Seq(S)
  PROVE  q \in Seq(T)
  OBVIOUS

(* ... and when something is taken from it or put into it.                 *)
LEMMA SeqSteps ==
  ASSUME NEW S, NEW q \in Seq(S), NEW r,
         r = q \/ (q # <<>> /\ r = Tail(q)) \/ \E m \in S : r = Append(q, m)
  PROVE  r \in Seq(S)
  OBVIOUS

(* What is put into a queue, and what is taken from it.                    *)
LEMMA SeqMoves ==
  ASSUME NEW S, NEW q \in Seq(S), NEW m \in S
  PROVE  Append(q, m) \in Seq(S) /\ (q # <<>> => Head(q) \in S /\ Tail(q) \in Seq(S))
  OBVIOUS

(* What may be said does not become less when s agrees on a port.          *)
LEMMA MaySayGrows ==
  ASSUME NEW U, NEW s, NEW h, NEW g, NEW q,
         port[s]' = port[s] \/ port[s] = 0
  PROVE  MaySay(U, s, h, g, q) \subseteq MaySay(U, s, h, g, q)'
  BY DEF MaySay, Said, Greetings

(* What a step does to the channels.                                       *)
ChannelStep(U, s, h, g) ==
    /\ DOMAIN message' = Callers /\ DOMAIN queue' = Callers /\ DOMAIN pipe' = Callers
    /\ \A p \in Callers : message'[p] = message[p] \/ message'[p] \in MaySay(U, s, h, g, p)'
    /\ \A p \in Callers : \/ queue'[p] = queue[p]
                          \/ queue[p] # <<>> /\ queue'[p] = Tail(queue[p])
                          \/ \E m \in MaySay(U, s, h, g, p)' : queue'[p] = Append(queue[p], m)
    /\ \A p \in Callers : \/ pipe'[p].last = pipe[p].last
                          \/ pipe'[p].last = NoRecord
                          \/ \E m : <<p, m>> \in sent /\ pipe'[p].last = m
    /\ \A d \in sent' : \/ d \in sent
                        \/ \E p, q \in Callers : p # q /\ queue[q] # <<>> /\ d = <<p, Head(queue[q])>>

(* A step that only passes on what may be said keeps it that way.          *)
LEMMA ChannelsGrow ==
  ASSUME NEW U, NEW s, NEW b, NEW h, NEW g, Sides(U, s, b, h, g),
         Channels(U, s, h, g), ChannelStep(U, s, h, g),
         port[s]' = port[s] \/ port[s] = 0
  PROVE  Channels(U, s, h, g)'
<1> DEFINE M(q) == MaySay(U, s, h, g, q)
<1>0. \A q : M(q) \subseteq M(q)'
  BY MaySayGrows
<1> HIDE DEF M
<1>a. /\ DOMAIN message = Callers /\ DOMAIN queue = Callers /\ DOMAIN pipe = Callers
      /\ \A p \in Callers : message[p] \in M(p)
      /\ \A p \in Callers : queue[p] \in Seq(M(p))
      /\ \A p, q \in Callers : p # q => pipe[p].last \in M(q) \cup {NoRecord}
      /\ \A p, q \in Callers : p # q => \A m : <<p, m>> \in sent => m \in M(q)
      /\ \A d \in sent : d = <<d[1], d[2]>>
  BY DEF Channels, M
<1>b. /\ DOMAIN message' = Callers /\ DOMAIN queue' = Callers /\ DOMAIN pipe' = Callers
      /\ \A p \in Callers : message'[p] = message[p] \/ message'[p] \in M(p)'
      /\ \A p \in Callers : \/ queue'[p] = queue[p]
                            \/ queue[p] # <<>> /\ queue'[p] = Tail(queue[p])
                            \/ \E m \in M(p)' : queue'[p] = Append(queue[p], m)
      /\ \A p \in Callers : \/ pipe'[p].last = pipe[p].last
                            \/ pipe'[p].last = NoRecord
                            \/ \E m : <<p, m>> \in sent /\ pipe'[p].last = m
      /\ \A d \in sent' : \/ d \in sent
                          \/ \E p, q \in Callers : p # q /\ queue[q] # <<>> /\ d = <<p, Head(queue[q])>>
  BY DEF ChannelStep, M
<1>c. \A p, q, r \in Callers : p # q /\ p # r => q = r
  BY DEF Sides
<1>1. \A p \in Callers : message'[p] \in M(p)'
  BY <1>0, <1>a, <1>b
<1>2. \A p \in Callers : queue'[p] \in Seq(M(p)')
  <2> SUFFICES ASSUME NEW p \in Callers PROVE queue'[p] \in Seq(M(p)')
    OBVIOUS
  <2>1. queue[p] \in Seq(M(p)')
    <3>1. M(p) \subseteq M(p)' /\ queue[p] \in Seq(M(p))
      BY <1>0, <1>a
    <3> QED BY <3>1, SeqGrows, Zenon
  <2> DEFINE T == M(p)'
  <2>2. queue[p] \in Seq(T)
    BY <2>1
  <2>3. \/ queue'[p] = queue[p]
        \/ queue[p] # <<>> /\ queue'[p] = Tail(queue[p])
        \/ \E m \in T : queue'[p] = Append(queue[p], m)
    BY <1>b
  <2> HIDE DEF T
  <2>4. queue'[p] \in Seq(T)
    BY <2>2, <2>3, SeqSteps, Zenon
  <2> QED BY <2>4 DEF T
<1>3. \A p, q \in Callers : p # q => pipe'[p].last \in M(q)' \cup {NoRecord}
  BY <1>0, <1>a, <1>b
<1>4. \A p \in Callers : queue[p] # <<>> => Head(queue[p]) \in M(p)
  BY <1>a, SeqMoves
<1>5. \A p, q \in Callers : p # q => \A m : <<p, m>> \in sent' => m \in M(q)'
  BY <1>0, <1>a, <1>b, <1>c, <1>4
<1>6. \A d \in sent' : d = <<d[1], d[2]>>
  BY <1>a, <1>b
<1> QED BY <1>b, <1>1, <1>2, <1>3, <1>5, <1>6 DEF Channels, M

(* There is one next free port.                                            *)
LEMMA NextIsUnique ==
  ASSUME NEW used, NEW n \in Nat, NEW k, NEW l, IsNext(used, n, k), IsNext(used, n, l)
  PROVE  k = l
<1>1. k \in Nat /\ l \in Nat /\ k > n /\ l > n
  BY DEF IsNext
<1>2. ~ (k < l)
  <2>1. k < l => k \in (n + 1) .. (l - 1)
    BY <1>1
  <2> QED BY <2>1 DEF IsNext
<1>3. ~ (l < k)
  <2>1. l < k => l \in (n + 1) .. (k - 1)
    BY <1>1
  <2> QED BY <2>1 DEF IsNext
<1> QED BY <1>1, <1>2, <1>3

(* Where fewer ports are in use, the next free one comes earlier; if it    *)
(* is free on the other side too, it is the next one there.                *)
LEMMA NextAgrees ==
  ASSUME NEW small, NEW used, small \subseteq used, NEW n \in Nat, NEW h, NEW g,
         IsNext(small, n, h), IsNext(used, n, g)
  PROVE  /\ h \notin used => h = g
         /\ h \in used => IsNext(used, h, g)
<1>1. h \in Nat /\ g \in Nat /\ h > n /\ g > n
  BY DEF IsNext
<1>2. h <= g
  <2>1. g < h => g \in (n + 1) .. (h - 1)
    BY <1>1
  <2> QED BY <1>1, <2>1 DEF IsNext
<1>3. h < g => h \in (n + 1) .. (g - 1)
  BY <1>1
<1>4. h \notin used => h = g
  BY <1>1, <1>2, <1>3 DEF IsNext
<1>5. ASSUME h \in used PROVE IsNext(used, h, g)
  <2>1. h < g
    BY <1>1, <1>2, <1>5 DEF IsNext
  <2>2. \A j \in (h + 1) .. (g - 1) : j \in (n + 1) .. (g - 1)
    BY <1>1
  <2> QED BY <2>1, <2>2 DEF IsNext
<1> QED BY <1>4, <1>5

(* The ports of the invariant are ports, and free.                         *)
LEMMA FirstPorts ==
  ASSUME NEW U, NEW s, NEW b, NEW h, NEW g, Sides(U, s, b, h, g)
  PROVE  /\ FirstSuggestion \in Nat /\ FirstSuggestion > 0 /\ g \in Nat /\ g > 0 /\ h \in Nat /\ h > 0
         /\ g \notin U[b] /\ g \notin U[s] /\ h \notin U[s]
         /\ FirstSuggestion \notin U[b] => g = FirstSuggestion
  BY DEF Sides, IsFirst, IsNext, FirstSuggestion, LocalFirstMessagePort

(* A side that refuses a port the other may have said suggests one it may  *)
(* say itself.                                                             *)
LEMMA Refusals ==
  ASSUME NEW U, NEW s, NEW b, NEW h, NEW g, Sides(U, s, b, h, g),
         NEW p \in Callers, NEW q \in Callers, p # q, NEW x, x \in {0, FirstSuggestion, g},
         NEW n \in Said(U, s, h, g, x, q), n \in U[p], NEW k, IsNext(U[p], n, k), NEW y
  PROVE  k \in Said(U, s, h, g, y, p)
<1> DEFINE F == FirstSuggestion
<1>0. F \in Nat /\ F > 0 /\ g \in Nat /\ g > 0 /\ g \notin U[b] /\ g \notin U[s] /\ h \in Nat
  BY FirstPorts
<1>1. CASE p = s
  <2>1. q = b /\ q # s
    BY <1>1 DEF Sides
  <2>2. n = F
    BY <1>0, <1>1, <2>1 DEF Said
  <2>3. IsNext(U[s], F, h)
    BY <1>1, <2>2 DEF Sides, IsFirst
  <2>4. k = h
    <3>1. IsNext(U[s], F, k)
      BY <1>1, <2>2
    <3> HIDE DEF F
    <3> QED BY <1>0, <2>3, <3>1, NextIsUnique
  <2> QED BY <1>0, <1>1, <2>2, <2>4 DEF Said
<1>2. CASE p = b
  <2>1. q = s /\ p # s
    BY <1>2 DEF Sides
  <2>2. n = F \/ (n = h /\ F \in U[s])
    <3>1. \/ n = F
          \/ F \in U[s] /\ (n = g \/ n = h)
          \/ n = x /\ n # 0
      BY <2>1 DEF Said
    <3>2. n # g
      BY <1>0, <1>2
    <3> QED BY <1>0, <3>1, <3>2
  <2>3. CASE n = F
    <3>1. IsNext(U[b], F, g)
      BY <1>2, <2>3 DEF Sides, IsFirst
    <3>2. IsNext(U[b], F, k)
      BY <1>2, <2>3
    <3>3. k = g
      <4> HIDE DEF F
      <4> QED BY <1>0, <3>1, <3>2, NextIsUnique
    <3> QED BY <1>0, <2>1, <3>3 DEF Said
  <2>4. CASE n = h /\ F \in U[s]
    <3>1. U[s] \subseteq U[b] /\ F \in U[b]
      BY <2>4 DEF Sides
    <3>2. IsNext(U[s], F, h) /\ IsNext(U[b], F, g)
      BY <2>4, <3>1 DEF Sides, IsFirst
    <3>3. IsNext(U[b], h, g) /\ h \in Nat
      <4>1. h \in U[b]
        BY <1>2, <2>4
      <4> HIDE DEF F
      <4>2. IsNext(U[b], h, g)
        BY <1>0, <3>1, <3>2, <4>1, NextAgrees
      <4> QED BY <3>2, <4>2 DEF IsNext
    <3>4. IsNext(U[b], h, k)
      BY <1>2, <2>4
    <3>5. k = g
      BY <3>3, <3>4, NextIsUnique
    <3> QED BY <1>0, <2>1, <3>5 DEF Said
  <2> QED BY <2>2, <2>3, <2>4
<1> QED BY <1>1, <1>2 DEF Sides

(* A side accepts what the other may have said only if that is the port    *)
(* the other has agreed on or will.                                        *)
LEMMA Acceptances ==
  ASSUME NEW U, NEW s, NEW b, NEW h, NEW g, Sides(U, s, b, h, g), Ports(U, s, b, h, g),
         NEW p \in Callers, NEW q \in Callers, p # q, port[p] = 0,
         NEW n \in Said(U, s, h, g, port[s], q), n \notin U[p]
  PROVE  /\ n \in Nat /\ n # 0
         /\ p = b => n = g /\ (FirstSuggestion \notin U[s] /\ FirstSuggestion # g => port[s] = g)
         /\ p = s => /\ port[b] # 0 => FirstSuggestion \in U[s] \/ FirstSuggestion = g
                     /\ n \in IF FirstSuggestion \in U[s] THEN {g} ELSE {FirstSuggestion, g}
<1> DEFINE F == FirstSuggestion
<1>0. F \in Nat /\ F > 0 /\ g \in Nat /\ g > 0 /\ g \notin U[b] /\ g \notin U[s]
      /\ (F \notin U[b] => g = F) /\ h \in Nat
  BY FirstPorts
<1>1. CASE p = s
  <2>1. q = b /\ q # s
    BY <1>1 DEF Sides
  <2>2. n \in {F, g}
    BY <2>1 DEF Said
  <2>3. port[b] # 0 => F \in U[s] \/ F = g
    BY <1>0, <1>1 DEF Ports
  <2> QED BY <1>0, <1>1, <2>1, <2>2, <2>3
<1>2. CASE p = b
  <2>1. q = s /\ p # s
    BY <1>2 DEF Sides
  <2>2. CASE F \in U[s]
    <3>1. U[s] \subseteq U[b] /\ F \in U[b]
      BY <2>2 DEF Sides
    <3>2. IsNext(U[s], F, h) /\ IsNext(U[b], F, g)
      BY <2>2, <3>1 DEF Sides, IsFirst
    <3>3. n = g \/ n = h
      BY <1>2, <2>1, <2>2, <3>1 DEF Said
    <3>4. h \notin U[b] => h = g
      <4> HIDE DEF F
      <4> QED BY <1>0, <3>1, <3>2, NextAgrees
    <3> QED BY <1>0, <1>2, <2>1, <2>2, <3>3, <3>4
  <2>3. CASE F \notin U[s]
    <3>1. port[s] \in {0, F, g}
      BY <2>3 DEF Ports
    <3>2. n = F \/ (n = port[s] /\ port[s] # 0)
      BY <2>1, <2>3 DEF Said
    <3> QED BY <1>0, <1>2, <2>1, <2>3, <3>1, <3>2
  <2> QED BY <2>2, <2>3
<1> QED BY <1>1, <1>2 DEF Sides

InTouch(U, s, b, h, g) == CallsGo /\ Channels(U, s, h, g) /\ Ports(U, s, b, h, g)

(* There are two chats: one and the other.                                 *)
LEMMA OtherCaller ==
  ASSUME NEW p \in Callers
  PROVE  /\ Other(p) \in Callers /\ Other(p) # p
         /\ \A q \in Callers : q # p => q = Other(p)
<1>1. PICK a \in Callers, b \in Callers : a # b /\ Callers = {a, b}
  BY CallersAssumption
<1>2. \E q \in Callers : q # p
  BY <1>1
<1>3. Other(p) \in Callers /\ Other(p) # p
  BY <1>2, Zenon DEF Other
<1> QED BY <1>1, <1>3

(* The steps that leave the ports as they are keep what is known of them.  *)
LEMMA PortsStay ==
  ASSUME NEW U, NEW s, NEW b, NEW h, NEW g, Sides(U, s, b, h, g), Ports(U, s, b, h, g),
         port' = port, UsedPorts' = UsedPorts,
         \A p \in Callers : call'[p] = "connected" <=> call[p] = "connected"
  PROVE  Ports(U, s, b, h, g)'
  BY DEF Ports

(* The user enters /startcon, for the first time.                          *)
LEMMA CreateConnectionKeeps ==
  ASSUME NEW U, NEW s, NEW b, NEW h, NEW g, Sides(U, s, b, h, g), InTouch(U, s, b, h, g),
         MaxCalls = 1, NEW p \in Callers, CreateConnection(p)
  PROVE  InTouch(U, s, b, h, g)'
<1>1. port[p] = 0 /\ calls[p] = 0
  BY DEF InTouch, CallsGo, CreateConnection
<1>2. port' = port
  BY <1>1 DEF CreateConnection, InTouch, CallsGo
<1>3. CallsGo'
  BY <1>1, <1>2 DEF CreateConnection, InTouch, CallsGo
<1>4. ChannelStep(U, s, h, g)
  <2>1. FirstMessage \in MaySay(U, s, h, g, p)'
    BY DEF MaySay, Greetings
  <2>2. NewPipe.last = NoRecord
    BY DEF NewPipe, NoPipe
  <2> QED BY <2>1, <2>2 DEF CreateConnection, ChannelStep, InTouch, Channels
<1>5. Channels(U, s, h, g)'
  BY <1>2, <1>4, ChannelsGrow DEF InTouch
<1>6. Ports(U, s, b, h, g)'
  BY <1>2, PortsStay DEF CreateConnection, InTouch, CallsGo
<1> QED BY <1>3, <1>5, <1>6 DEF InTouch

(* The steps that only wake, wait or cancel.                               *)
LEMMA QuietKeeps ==
  ASSUME NEW U, NEW s, NEW b, NEW h, NEW g, Sides(U, s, b, h, g), InTouch(U, s, b, h, g),
         UNCHANGED <<call, calls, message, pipe, port, UsedPorts, queue, sent>>
  PROVE  InTouch(U, s, b, h, g)'
<1>1. CallsGo'
  BY DEF InTouch, CallsGo
<1>2. ChannelStep(U, s, h, g)
  BY DEF ChannelStep, InTouch, Channels
<1>3. Channels(U, s, h, g)'
  BY <1>2, ChannelsGrow DEF InTouch
<1> QED BY <1>1, <1>3, PortsStay DEF InTouch

(* The last message is sent again.                                         *)
LEMMA ResendKeeps ==
  ASSUME NEW U, NEW s, NEW b, NEW h, NEW g, Sides(U, s, b, h, g), InTouch(U, s, b, h, g),
         NEW p \in Callers, Resend(p)
  PROVE  InTouch(U, s, b, h, g)'
<1>1. CallsGo'
  BY DEF Resend, InTouch, CallsGo
<1>2. ChannelStep(U, s, h, g)
  <2>1. message[p] \in MaySay(U, s, h, g, p)'
    BY MaySayGrows DEF Resend, InTouch, Channels, MaySay
  <2>2. queue' = [queue EXCEPT ![p] = Append(@, message[p])] /\ sent' = sent
    BY DEF Resend, SendDataFromMainSocket
  <2> QED BY <2>1, <2>2 DEF Resend, ChannelStep, InTouch, Channels
<1>3. Channels(U, s, h, g)'
  BY <1>2, ChannelsGrow DEF InTouch, Resend
<1> QED BY <1>1, <1>3, PortsStay DEF InTouch, Resend

(* The wait ends: a record is read, or the user has cancelled.             *)
LEMMA WaitEndsKeeps ==
  ASSUME NEW U, NEW s, NEW b, NEW h, NEW g, Sides(U, s, b, h, g), InTouch(U, s, b, h, g),
         NEW p \in Callers, WaitEnds(p)
  PROVE  InTouch(U, s, b, h, g)'
<1>1. CallsGo'
  BY DEF WaitEnds, InTouch, CallsGo
<1>2. ChannelStep(U, s, h, g)
  <2>1. pipe'[p].last = pipe[p].last \/ pipe'[p].last = NoRecord
    BY DEF WaitEnds, NoPipe, InTouch, Channels
  <2> QED BY <2>1 DEF WaitEnds, ChannelStep, InTouch, Channels
<1>3. Channels(U, s, h, g)'
  BY <1>2, ChannelsGrow DEF InTouch, WaitEnds
<1>4. \A q \in Callers : call'[q] = "connected" <=> call[q] = "connected"
  BY DEF WaitEnds, InTouch, CallsGo
<1> QED BY <1>1, <1>3, <1>4, PortsStay DEF InTouch, WaitEnds

(* A datagram leaves the queue.                                            *)
LEMMA SenderSendsKeeps ==
  ASSUME NEW U, NEW s, NEW b, NEW h, NEW g, Sides(U, s, b, h, g), InTouch(U, s, b, h, g),
         NEW p \in Callers, SenderSends(p)
  PROVE  InTouch(U, s, b, h, g)'
<1>1. CallsGo'
  BY DEF SenderSends, InTouch, CallsGo
<1>2. ChannelStep(U, s, h, g)
  BY OtherCaller DEF SenderSends, ChannelStep, InTouch, Channels
<1>3. Channels(U, s, h, g)'
  BY <1>2, ChannelsGrow DEF InTouch, SenderSends
<1> QED BY <1>1, <1>3, PortsStay DEF InTouch, SenderSends

(* A datagram comes, maybe an old one.                                     *)
LEMMA ListenerKeeps ==
  ASSUME NEW U, NEW s, NEW b, NEW h, NEW g, Sides(U, s, b, h, g), InTouch(U, s, b, h, g),
         NEW p \in Callers, MainSocket_Listener(p)
  PROVE  InTouch(U, s, b, h, g)'
<1>1. CallsGo'
  BY DEF MainSocket_Listener, InTouch, CallsGo
<1>2. ChannelStep(U, s, h, g)
  <2>1. PICK d \in sent : /\ d[1] = p
                          /\ pipe' = [pipe EXCEPT ![p] = [@ EXCEPT !.last = d[2], !.added = TRUE]]
    BY DEF MainSocket_Listener
  <2>2. <<p, d[2]>> \in sent
    BY <2>1 DEF InTouch, Channels
  <2>3. pipe'[p].last = d[2] /\ \A q \in Callers \ {p} : pipe'[q] = pipe[q]
    BY <2>1 DEF InTouch, Channels
  <2> QED BY <2>1, <2>2, <2>3 DEF MainSocket_Listener, ChannelStep, InTouch, Channels
<1>3. Channels(U, s, h, g)'
  BY <1>2, ChannelsGrow DEF InTouch, MainSocket_Listener
<1> QED BY <1>1, <1>3, PortsStay DEF InTouch, MainSocket_Listener

(* The port agreed on is in use from now on.                               *)
LEMMA EndOfCallKeeps ==
  ASSUME NEW U, NEW s, NEW b, NEW h, NEW g, Sides(U, s, b, h, g), InTouch(U, s, b, h, g),
         NEW p \in Callers, EndOfCall(p)
  PROVE  InTouch(U, s, b, h, g)'
<1>1. CallsGo'
  BY DEF EndOfCall, InTouch, CallsGo
<1>2. ChannelStep(U, s, h, g)
  <2>1. NoPipe.last = NoRecord
    BY DEF NoPipe
  <2> QED BY <2>1 DEF EndOfCall, ChannelStep, InTouch, Channels
<1>3. Channels(U, s, h, g)'
  BY <1>2, ChannelsGrow DEF InTouch, EndOfCall
<1>4. Ports(U, s, b, h, g)'
  <2>1. port' = port /\ call[p] = "agreed"
    BY DEF EndOfCall
  <2>2. DOMAIN UsedPorts' = Callers
        /\ \A q \in Callers : UsedPorts'[q] = IF call'[q] = "connected" THEN U[q] \cup {port[q]} ELSE U[q]
    BY <2>1 DEF EndOfCall, InTouch, Ports, CallsGo
  <2> QED BY <2>1, <2>2 DEF InTouch, Ports
<1> QED BY <1>1, <1>3, <1>4 DEF InTouch

(* What is read is what the other side may have said.                      *)
LEMMA WhatWasRead ==
  ASSUME NEW U, NEW s, NEW b, NEW h, NEW g, Sides(U, s, b, h, g), InTouch(U, s, b, h, g),
         NEW p \in Callers
  PROVE  /\ pipe[p].last.type = "FirstMessage" => pipe[p].last.port = LocalFirstMessagePort
         /\ pipe[p].last.type = "AcceptPort" => pipe[p].last.port \in Said(U, s, h, g, port[s], Other(p))
<1>1. pipe[p].last \in MaySay(U, s, h, g, Other(p)) \cup {NoRecord}
  BY OtherCaller DEF InTouch, Channels
<1> DEFINE m == pipe[p].last
<1>2. \/ m = FirstMessage \/ m = NoRecord
      \/ \E n \in Said(U, s, h, g, port[s], Other(p)) : m = AcceptPort(n)
  BY <1>1 DEF MaySay, Greetings
<1> HIDE DEF m
<1>3. /\ m.type = "FirstMessage" => m.port = LocalFirstMessagePort
      /\ m.type = "AcceptPort" => m.port \in Said(U, s, h, g, port[s], Other(p))
  BY <1>2 DEF FirstMessage, NoRecord, AcceptPort
<1> QED BY <1>3 DEF m

(* An answer that may be given is a step of the channels.                  *)
LEMMA AnswerSays ==
  ASSUME NEW U, NEW s, NEW b, NEW h, NEW g, Sides(U, s, b, h, g), InTouch(U, s, b, h, g),
         NEW p \in Callers, NEW n, n \in Said(U, s, h, g, port'[s], p), Answer(p, AcceptPort(n))
  PROVE  ChannelStep(U, s, h, g)
<1> DEFINE m == AcceptPort(n)
<1>1. m \in MaySay(U, s, h, g, p)'
  BY DEF MaySay, Greetings
<1>2. queue' = [queue EXCEPT ![p] = Append(@, m)] /\ sent' = sent
      /\ message' = [message EXCEPT ![p] = m] /\ pipe' = pipe
  BY DEF Answer, SendDataFromMainSocket
<1> HIDE DEF m
<1> QED BY <1>1, <1>2 DEF ChannelStep, InTouch, Channels

(* The first message is answered with the first suggestion.                *)
LEMMA HandleFirstMessageKeeps ==
  ASSUME NEW U, NEW s, NEW b, NEW h, NEW g, Sides(U, s, b, h, g), InTouch(U, s, b, h, g),
         NEW p \in Callers, HandleFirstMessage(p)
  PROVE  InTouch(U, s, b, h, g)'
<1>1. CallsGo'
  BY DEF HandleFirstMessage, Answer, InTouch, CallsGo
<1>2. Answer(p, AcceptPort(FirstSuggestion))
  BY WhatWasRead DEF HandleFirstMessage, FirstSuggestion
<1>3. FirstSuggestion \in Said(U, s, h, g, port'[s], p)
  BY FirstPorts DEF Said
<1>4. Channels(U, s, h, g)'
  BY <1>2, <1>3, AnswerSays, ChannelsGrow DEF InTouch, HandleFirstMessage
<1>5. Ports(U, s, b, h, g)'
  BY PortsStay DEF InTouch, CallsGo, HandleFirstMessage, Answer
<1> QED BY <1>1, <1>4, <1>5 DEF InTouch

(* A port in use is answered with the next free one.                       *)
LEMMA HandleRefusedPortKeeps ==
  ASSUME NEW U, NEW s, NEW b, NEW h, NEW g, Sides(U, s, b, h, g), InTouch(U, s, b, h, g),
         NEW p \in Callers, HandleRefusedPort(p)
  PROVE  InTouch(U, s, b, h, g)'
<1>1. CallsGo'
  BY DEF HandleRefusedPort, Answer, InTouch, CallsGo
<1> DEFINE n == pipe[p].last.port
           k == NextPort(p, n)
<1>2. /\ n \in Said(U, s, h, g, port[s], Other(p)) /\ n \in Nat
      /\ UsedPorts[p] = U[p] /\ n \in U[p] /\ Answer(p, AcceptPort(k)) /\ port' = port
  <2>1. n \in Said(U, s, h, g, port[s], Other(p))
    BY WhatWasRead DEF HandleRefusedPort
  <2>2. n \in Nat
    BY <2>1 DEF Said
  <2>3. call[p] = "read" /\ Answer(p, AcceptPort(k)) /\ port' = port /\ n \in UsedPorts[p]
    BY DEF HandleRefusedPort, PortIsAvailable
  <2>4. UsedPorts[p] = U[p]
    BY <2>3 DEF InTouch, Ports
  <2> QED BY <2>1, <2>2, <2>3, <2>4
<1>3. U[p] \in SUBSET Nat /\ IsFiniteSet(U[p])
  BY DEF Sides
<1>4. IsNext(UsedPorts[p], n, k)
  BY <1>2, <1>3, NextPortIsNext
<1>5. port[s] \in {0, FirstSuggestion, g}
  BY DEF InTouch, Ports
<1>6. k \in Said(U, s, h, g, port'[s], p)
  <2> DEFINE x == port[s]
             y == port'[s]
  <2>1. x \in {0, FirstSuggestion, g} /\ n \in Said(U, s, h, g, x, Other(p)) /\ IsNext(U[p], n, k)
    BY <1>2, <1>4, <1>5
  <2> HIDE DEF x, y, n, k
  <2>2. k \in Said(U, s, h, g, y, p)
    BY <2>1, <1>2, OtherCaller, Refusals
  <2> QED BY <2>2 DEF y
<1> HIDE DEF n, k
<1>7. Channels(U, s, h, g)'
  BY <1>2, <1>6, AnswerSays, ChannelsGrow DEF InTouch
<1>8. Ports(U, s, b, h, g)'
  BY PortsStay DEF InTouch, CallsGo, HandleRefusedPort, Answer
<1> QED BY <1>1, <1>7, <1>8 DEF InTouch

(* A free port is accepted.                                                *)
LEMMA HandleAcceptPortKeeps ==
  ASSUME NEW U, NEW s, NEW b, NEW h, NEW g, Sides(U, s, b, h, g), InTouch(U, s, b, h, g),
         NEW p \in Callers, HandleAcceptPort(p)
  PROVE  InTouch(U, s, b, h, g)'
<1> DEFINE n == pipe[p].last.port
<1>1. /\ n \in Said(U, s, h, g, port[s], Other(p))
      /\ UsedPorts[p] = U[p] /\ n \notin U[p] /\ Answer(p, AcceptPort(n))
      /\ port[p] = 0 /\ port' = [port EXCEPT ![p] = n] /\ call[p] = "read"
      /\ call' = [call EXCEPT ![p] = "agreed"]
  BY WhatWasRead DEF HandleAcceptPort, InTouch, Ports, CallsGo, PortIsAvailable
<1>2. /\ n \in Nat /\ n # 0
      /\ p = b => n = g /\ (FirstSuggestion \notin U[s] /\ FirstSuggestion # g => port[s] = g)
      /\ p = s => /\ port[b] # 0 => FirstSuggestion \in U[s] \/ FirstSuggestion = g
                  /\ n \in IF FirstSuggestion \in U[s] THEN {g} ELSE {FirstSuggestion, g}
  BY <1>1, OtherCaller, Acceptances DEF InTouch
<1>3. n \in Said(U, s, h, g, port'[s], p)
  <2>1. CASE p = s
    BY <1>1, <1>2, <2>1 DEF Said, InTouch, CallsGo, Sides
  <2>2. CASE p = b
    BY <1>1, <1>2, <2>2 DEF Said, Sides
  <2> QED BY <2>1, <2>2 DEF Sides
<1> HIDE DEF n
<1>4. CallsGo'
  BY <1>1, <1>2 DEF InTouch, CallsGo, Answer
<1>5. port'[s] = port[s] \/ port[s] = 0
  BY <1>1 DEF InTouch, CallsGo, Sides
<1>6. Channels(U, s, h, g)'
  BY <1>1, <1>3, <1>5, AnswerSays, ChannelsGrow DEF InTouch
<1>7. Ports(U, s, b, h, g)'
  <2>1. UsedPorts' = UsedPorts
    BY <1>1 DEF Answer
  <2>2. \A q \in Callers : UsedPorts[q] = IF call'[q] = "connected" THEN U[q] \cup {port'[q]} ELSE U[q]
    BY <1>1 DEF InTouch, Ports, CallsGo
  <2>3. CASE p = s
    <3>1. port'[b] = port[b] /\ port'[s] = n
      BY <1>1, <2>3 DEF InTouch, CallsGo, Sides
    <3> QED BY <1>2, <2>1, <2>2, <2>3, <3>1 DEF InTouch, Ports
  <2>4. CASE p = b
    <3>1. port'[s] = port[s] /\ port'[b] = n
      BY <1>1, <2>4 DEF InTouch, CallsGo, Sides
    <3> QED BY <1>2, <2>1, <2>2, <2>4, <3>1 DEF InTouch, Ports
  <2> QED BY <2>3, <2>4 DEF Sides
<1> QED BY <1>4, <1>6, <1>7 DEF InTouch

(* The inductive invariant.                                                *)
PortsInv == \E U \in UsedPorts0, s, b \in Callers, h, g \in Nat :
               Sides(U, s, b, h, g) /\ InTouch(U, s, b, h, g)

(* "The two sides have come to terms about a port" (MrBoboChatt.cpp:       *)
(* 1486): whatever the network loses, repeats or reorders, two chats that  *)
(* have both connected in their first call use one port, if the ports in   *)
(* use on one side are all in use on the other. Both conditions are        *)
(* needed: see AgreeOnPort.                                                *)
THEOREM PortsAreAgreed ==
  ASSUME MaxCalls = 1, \A used \in UsedPorts0 : Nested(used)
  PROVE  ConnectInit /\ [][ConnectNext]_connectVars => []AgreeOnPort
<1>1. ConnectInit => PortsInv
  <2> SUFFICES ASSUME ConnectInit PROVE PortsInv
    OBVIOUS
  <2> DEFINE U == UsedPorts
  <2>1. U \in UsedPorts0
    BY DEF ConnectInit
  <2>2. U \in [Callers -> SUBSET Nat] /\ \A p \in Callers : IsFiniteSet(U[p])
    BY <2>1, PortsAssumption
  <2>3. PICK s \in Callers, b \in Callers : s # b /\ Callers = {s, b} /\ U[s] \subseteq U[b]
    <3>1. PICK x \in Callers, y \in Callers : x # y /\ Callers = {x, y}
      BY CallersAssumption
    <3>2. U[x] \subseteq U[y] \/ U[y] \subseteq U[x]
      BY <2>1 DEF Nested
    <3> QED BY <3>1, <3>2
  <2>4. \A p \in Callers : \E k \in Nat : IsFirst(U[p], k)
    <3> SUFFICES ASSUME NEW p \in Callers PROVE \E k \in Nat : IsFirst(U[p], k)
      OBVIOUS
    <3>1. FirstSuggestion \in Nat
      BY DEF FirstSuggestion, LocalFirstMessagePort
    <3>2. IsNext(U[p], FirstSuggestion, NextPort(p, FirstSuggestion))
      BY <2>2, <3>1, NextPortIsNext
    <3> QED BY <3>1, <3>2 DEF IsFirst, IsNext
  <2>5. PICK h \in Nat : IsFirst(U[s], h)
    BY <2>4
  <2>6. PICK g \in Nat : IsFirst(U[b], g)
    BY <2>4
  <2>7. Sides(U, s, b, h, g)
    BY <2>2, <2>3, <2>5, <2>6 DEF Sides
  <2>8. CallsGo
    BY DEF ConnectInit, CallsGo
  <2>9. Channels(U, s, h, g)
    BY DEF ConnectInit, Channels, MaySay, Greetings, NoPipe
  <2>10. Ports(U, s, b, h, g)
    BY <2>2, <2>3 DEF ConnectInit, Ports
  <2> HIDE DEF U
  <2> QED BY <2>1, <2>7, <2>8, <2>9, <2>10 DEF PortsInv, InTouch
<1>2. PortsInv /\ [ConnectNext]_connectVars => PortsInv'
  <2> SUFFICES ASSUME PortsInv, [ConnectNext]_connectVars PROVE PortsInv'
    OBVIOUS
  <2>1. PICK U \in UsedPorts0, s \in Callers, b \in Callers, h \in Nat, g \in Nat :
             Sides(U, s, b, h, g) /\ InTouch(U, s, b, h, g)
    BY DEF PortsInv
  <2>2. InTouch(U, s, b, h, g)'
    <3>1. CASE UNCHANGED connectVars
      BY <2>1, <3>1, QuietKeeps DEF connectVars
    <3>2. CASE ConnectNext
      <4>1. PICK p \in Callers : ConnectStep(p)
        BY <3>2 DEF ConnectNext
      <4>2. CASE CreateConnection(p)
        BY <2>1, <4>2, CreateConnectionKeeps
      <4>3. CASE ListenOnInitiationUserInput(p) \/ SenderWaits(p)
        BY <2>1, <4>3, QuietKeeps DEF ListenOnInitiationUserInput, SenderWaits
      <4>4. CASE Resend(p)
        BY <2>1, <4>4, ResendKeeps
      <4>5. CASE WaitEnds(p)
        BY <2>1, <4>5, WaitEndsKeeps
      <4>6. CASE HandleFirstMessage(p)
        BY <2>1, <4>6, HandleFirstMessageKeeps
      <4>7. CASE HandleAcceptPort(p)
        BY <2>1, <4>7, HandleAcceptPortKeeps
      <4>8. CASE HandleRefusedPort(p)
        BY <2>1, <4>8, HandleRefusedPortKeeps
      <4>9. CASE EndOfCall(p)
        BY <2>1, <4>9, EndOfCallKeeps
      <4>10. CASE SenderSends(p)
        BY <2>1, <4>10, SenderSendsKeeps
      <4>11. CASE MainSocket_Listener(p)
        BY <2>1, <4>11, ListenerKeeps
      <4> QED BY <4>1, <4>2, <4>3, <4>4, <4>5, <4>6, <4>7, <4>8, <4>9, <4>10, <4>11 DEF ConnectStep
    <3> QED BY <3>1, <3>2
  <2>3. Sides(U, s, b, h, g)'
    BY <2>1 DEF Sides
  <2> QED BY <2>2, <2>3 DEF PortsInv
<1>3. PortsInv => AgreeOnPort
  <2> SUFFICES ASSUME PortsInv, \A p \in Callers : call[p] = "connected"
               PROVE \A p, q \in Callers : port[p] = port[q]
    BY DEF AgreeOnPort
  <2>1. PICK U \in UsedPorts0, s \in Callers, b \in Callers, h \in Nat, g \in Nat :
             Sides(U, s, b, h, g) /\ InTouch(U, s, b, h, g)
    BY DEF PortsInv
  <2>2. port[s] # 0 /\ port[b] # 0
    BY <2>1 DEF InTouch, CallsGo
  <2>3. port[s] = port[b]
    BY <2>1, <2>2 DEF InTouch, Ports
  <2> QED BY <2>1, <2>3 DEF Sides
<1> QED BY <1>1, <1>2, <1>3, PTL
-----------------------------------------------------------------------------
(* A file read over HTTP: what the stream and its state are made of.       *)
Units == {HeadersEnd} \cup {<<"head", x, y>> : x \in Int, y \in Nat}
                      \cup {<<"byte", k>> : k \in Nat}
Intervals == {Interval(x, y) : x \in Nat, y \in Int}
Clients == {"closed", "opening", "measures", "measuring", "open", "asks", "reads", "reading"}

StreamTypes ==
    /\ FileSize \in Nat /\ linked \in BOOLEAN /\ connected \in BOOLEAN /\ beyond \in BOOLEAN
    /\ ranges \in Seq(Intervals) /\ sending \in Seq(Intervals) /\ wire \in Seq(Units)
    /\ client \in Clients /\ BufferSize \in Nat
    /\ m_ResponseData \in Seq(Units) /\ RecievedData \in Seq(Units)
    /\ m_ParseOffset \in 0 .. Len(m_ResponseData)
    /\ m_CurrentPosition \in Nat

(* How many bytes an interval of a file is answered with.                  *)
BytesOf(first, n) == Smaller(n, IF first < FileSize THEN FileSize - first ELSE 0)

(* The units of the answer, by their place.                                *)
UnitAt(first, n, i) ==
    IF i = 1 THEN <<"head", BytesOf(first, n), FileSize>>
    ELSE IF i = 2 THEN HeadersEnd ELSE <<"byte", first + i - 3>>

(* got, which begins behind c units, and the wire are a beginning of it.   *)
InStream(first, n, got, c) ==
    /\ \A i \in 1 .. Len(got) : got[i] = UnitAt(first, n, c + i)
    /\ \A i \in 1 .. Len(wire) : wire[i] = UnitAt(first, n, c + Len(got) + i)
    /\ c + Len(got) + Len(wire) <= 2 + BytesOf(first, n)

(* An interval that gives no more bytes.                                   *)
Idle == \A i \in 1 .. Len(sending) : \/ sending[i].FirstByte >= FileSize
                                     \/ sending[i].LastByte < sending[i].FirstByte

(* The server has the request still, or has sent so many units; either     *)
(* way, what is there is the beginning of the answer, and the rest is to   *)
(* come.                                                                   *)
Waits(first, n, total) ==
    ranges = <<Interval(first, first + n - 1)>> /\ Idle /\ total = 0
Sends(first, n, total) ==
    /\ ranges = <<>>
    /\ \E j \in 0 .. n : /\ total = 2 + BytesOf(first, j)
                         /\ \/ sending = <<>> /\ j = n
                            \/ sending = <<Interval(first + j, first + n - 1)>>
Coming(first, n, got, c) ==
    /\ InStream(first, n, got, c)
    /\ linked => \/ Waits(first, n, c + Len(got) + Len(wire))
                 \/ Sends(first, n, c + Len(got) + Len(wire))

(* An interval is answered with no more bytes than it has, and none        *)
(* beyond the end.                                                         *)
LEMMA BytesSize ==
  ASSUME FileSize \in Nat, NEW first \in Nat, NEW n \in Nat
  PROVE  /\ BytesOf(first, n) \in Nat /\ BytesOf(first, n) <= n
         /\ first <= FileSize => first + BytesOf(first, n) <= FileSize
         /\ \A j \in 0 .. n : BytesOf(first, j) \in Nat /\ BytesOf(first, j) <= BytesOf(first, n)
  BY DEF BytesOf, Smaller

(* A function on the first numbers is a sequence.                          *)
LEMMA FunctionIsSequence ==
  ASSUME NEW S, NEW L \in Nat, NEW f \in [1 .. L -> S]
  PROVE  f \in Seq(S) /\ Len(f) = L
  OBVIOUS

(* Two units in front of nothing else.                                     *)
LEMMA TwoUnits ==
  ASSUME NEW x, NEW y
  PROVE  <<>> \o <<x, y>> = <<x, y>>
  OBVIOUS

(* The bytes of an interval are the file's, by their places.               *)
LEMMA FileBytesAre ==
  ASSUME FileSize \in Nat, NEW first \in Nat, NEW n \in Int
  PROVE  /\ FileBytes(first, n) \in Seq(Units)
         /\ Len(FileBytes(first, n)) = IF n < 0 THEN 0 ELSE BytesOf(first, n)
         /\ \A i \in 1 .. Len(FileBytes(first, n)) :
               FileBytes(first, n)[i] = <<"byte", first + i - 1>>
<1> DEFINE N == Smaller(n, IF first < FileSize THEN FileSize - first ELSE 0)
           L == IF n < 0 THEN 0 ELSE N
<1>1. N \in Int /\ L \in Nat /\ 1 .. N = 1 .. L /\ BytesOf(first, n) = N
  BY DEF Smaller, BytesOf
<1>2. FileBytes(first, n) = [i \in 1 .. L |-> <<"byte", first + i - 1>>]
  BY <1>1 DEF FileBytes
<1> HIDE DEF L
<1>3. \A i \in 1 .. L : <<"byte", first + i - 1>> \in Units
  <2> SUFFICES ASSUME NEW i \in 1 .. L PROVE <<"byte", first + i - 1>> \in Units
    OBVIOUS
  <2>1. first + i - 1 \in Nat
    BY <1>1
  <2> QED BY <2>1 DEF Units
<1>4. [i \in 1 .. L |-> <<"byte", first + i - 1>>] \in [1 .. L -> Units]
  BY <1>3
<1>5. [i \in 1 .. L |-> <<"byte", first + i - 1>>] \in Seq(Units) /\ Len([i \in 1 .. L |-> <<"byte", first + i - 1>>]) = L
  BY <1>1, <1>4, FunctionIsSequence
<1> QED BY <1>1, <1>2, <1>5 DEF L

(* More bytes of an interval: those behind are those of an interval        *)
(* further on.                                                             *)
LEMMA MoreBytes ==
  ASSUME FileSize \in Nat, NEW first \in Nat, NEW j \in Nat, NEW m \in Nat
  PROVE  BytesOf(first, j + m) = BytesOf(first, j) + BytesOf(first + j, m)
         /\ (BytesOf(first, j) < j => BytesOf(first + j, m) = 0)
  BY DEF BytesOf, Smaller

(* The response's head is the first of what is to come.                    *)
LEMMA SendKeepsComing ==
  ASSUME StreamTypes, SendHTTPDocument, NEW first \in Nat, NEW n \in Nat,
         NEW got \in Seq(Units), NEW c \in {0, 2}, first <= FileSize,
         Coming(first, n, got, c)
  PROVE  Coming(first, n, got, c)'
<1> DEFINE r == Interval(first, first + n - 1)
<1>0. FileSize \in Nat /\ FileSize' = FileSize /\ wire \in Seq(Units) /\ Len(got) \in Nat /\ Len(wire) \in Nat
  BY DEF StreamTypes, SendHTTPDocument
<1>1. linked /\ ranges # <<>> /\ sending = <<>>
  BY DEF SendHTTPDocument
<1>2. Waits(first, n, c + Len(got) + Len(wire))
  BY <1>1 DEF Coming, Sends
<1>3. c = 0 /\ Len(got) = 0 /\ Len(wire) = 0
  BY <1>0, <1>2 DEF Waits
<1>4. wire = <<>> /\ got = <<>>
  BY <1>0, <1>3
<1>5. ranges = <<r>>
  BY <1>2 DEF Waits
<1>6. p_GenerateRequest(r) = <<"head", BytesOf(first, n), FileSize>>
  <2>1. r.FirstByte = first /\ r.LastByte = first + n - 1
    BY DEF Interval
  <2> DEFINE LastByte == IF r.LastByte >= FileSize THEN FileSize - 1 ELSE r.LastByte
  <2>2. LastByte - r.FirstByte + 1 = BytesOf(first, n)
    BY <1>0, <2>1 DEF BytesOf, Smaller
  <2>3. p_GenerateRequest(r) = <<"head", LastByte - r.FirstByte + 1, FileSize>>
    BY DEF p_GenerateRequest
  <2> HIDE DEF LastByte, r
  <2> QED BY <2>2, <2>3
<1>7. wire' = <<p_GenerateRequest(r), HeadersEnd>> /\ sending' = <<r>> /\ ranges' = <<>> /\ linked' = linked
  <2>1. ranges[1] = r /\ Tail(ranges) = <<>>
    <3> HIDE DEF r
    <3> QED BY <1>5
  <2>2. wire' = wire \o <<p_GenerateRequest(ranges[1]), HeadersEnd>> /\ sending' = <<ranges[1]>> /\ ranges' = Tail(ranges)
        /\ linked' = linked
    BY DEF SendHTTPDocument
  <2>3. wire' = <<>> \o <<p_GenerateRequest(r), HeadersEnd>>
    BY <1>4, <2>1, <2>2
  <2> QED BY <2>1, <2>2, <2>3, TwoUnits, Zenon
<1> HIDE DEF r
<1>8. wire'[1] = <<"head", BytesOf(first, n), FileSize>> /\ wire'[2] = HeadersEnd /\ Len(wire') = 2
  BY <1>6, <1>7
<1>9. BytesOf(first, n) \in Nat /\ BytesOf(first, n)' = BytesOf(first, n) /\ BytesOf(first, 0) = 0
  BY <1>0, BytesSize DEF BytesOf, Smaller
<1>10. InStream(first, n, got, c)'
  <2>1. ASSUME NEW i \in 1 .. Len(wire') PROVE wire'[i] = UnitAt(first, n, c + Len(got) + i)'
    <3>1. i = 1 \/ i = 2
      BY <1>8
    <3>2. c + Len(got) + i = i
      BY <1>3, <3>1
    <3> QED BY <1>0, <1>8, <1>9, <3>1, <3>2 DEF UnitAt
  <2>2. c + Len(got) + Len(wire') <= 2 + BytesOf(first, n)'
    BY <1>3, <1>8, <1>9
  <2> QED BY <1>3, <2>1, <2>2 DEF InStream
<1>11. Sends(first, n, c + Len(got) + Len(wire))'
  <2>1. 0 \in 0 .. n /\ c + Len(got) + Len(wire') = 2 + BytesOf(first, 0)'
    BY <1>0, <1>3, <1>8, <1>9 DEF BytesOf, Smaller
  <2>2. sending' = <<Interval(first + 0, first + n - 1)>>
    BY <1>7 DEF r
  <2> QED BY <1>7, <2>1, <2>2 DEF Sends
<1> QED BY <1>10, <1>11 DEF Coming

(* An interval has a first and a last byte.                                *)
LEMMA IntervalFields ==
  ASSUME NEW r \in Intervals
  PROVE  r.FirstByte \in Nat /\ r.LastByte \in Int /\ r = Interval(r.FirstByte, r.LastByte)
  BY DEF Intervals, Interval

(* The units of two sequences put together.                                *)
LEMMA JoinedUnits ==
  ASSUME NEW S, NEW s \in Seq(S), NEW t \in Seq(S)
  PROVE  /\ s \o t \in Seq(S) /\ Len(s \o t) = Len(s) + Len(t)
         /\ \A k \in 1 .. Len(s) : (s \o t)[k] = s[k]
         /\ \A k \in 1 .. Len(s) + Len(t) : k > Len(s) => (s \o t)[k] = t[k - Len(s)]
         /\ (t = <<>> => s \o t = s)
  OBVIOUS

(* The units of a sequence that is cut in two.                             *)
LEMMA CutUnits ==
  ASSUME NEW S, NEW s \in Seq(S), NEW n \in 0 .. Len(s)
  PROVE  /\ SubSeq(s, 1, n) \in Seq(S) /\ Len(SubSeq(s, 1, n)) = n
         /\ \A k \in 1 .. n : SubSeq(s, 1, n)[k] = s[k]
         /\ From(s, n) \in Seq(S) /\ Len(From(s, n)) = Len(s) - n
         /\ \A k \in 1 .. Len(s) - n : From(s, n)[k] = s[n + k]
  BY DEF From

(* What GetNextIntervall does with the interval it works on.               *)
Portion(r) == IF IntervalSize(r) >= MaxDataInMemory THEN MaxDataInMemory ELSE IntervalSize(r)

(* The server works on one interval.                                       *)
LEMMA NextInterval ==
  ASSUME StreamTypes, GetNextIntervall
  PROVE  \E r \in Intervals :
            /\ sending[1] = r /\ sending # <<>> /\ linked
            /\ wire' = wire \o FileBytes(r.FirstByte, Portion(r))
            /\ sending' = IF IntervalSize(r) >= MaxDataInMemory THEN <<Following(r)>> ELSE <<>>
            /\ UNCHANGED <<FileSize, linked, connected, ranges, client, BufferSize, response, m_CurrentHeaders, reading, position, history>>
<1>1. sending \in Seq(Intervals) /\ sending # <<>> /\ linked
  BY DEF StreamTypes, GetNextIntervall
<1>2. sending[1] \in Intervals
  BY <1>1
<1> QED BY <1>1, <1>2 DEF GetNextIntervall, Portion

(* What is left of an interval is an interval with the same end.           *)
LEMMA FollowingIs ==
  ASSUME NEW r \in Intervals
  PROVE  /\ Following(r) \in Intervals
         /\ Following(r).FirstByte = r.FirstByte + MaxDataInMemory
         /\ Following(r).LastByte = r.LastByte
         /\ IntervalSize(r) = r.LastByte - r.FirstByte + 1
  BY IntervalFields, StreamAssumption DEF Following, Interval, Intervals, IntervalSize

(* An interval that is empty or beyond the end gives no more units.        *)
LEMMA IdleSendsNothing ==
  ASSUME StreamTypes, GetNextIntervall, Idle
  PROVE  wire' = wire /\ Idle'
<1>1. PICK r \in Intervals :
         /\ sending[1] = r /\ sending # <<>>
         /\ wire' = wire \o FileBytes(r.FirstByte, Portion(r))
         /\ sending' = IF IntervalSize(r) >= MaxDataInMemory THEN <<Following(r)>> ELSE <<>>
         /\ FileSize' = FileSize
  BY NextInterval
<1>2. r.FirstByte \in Nat /\ r.LastByte \in Int /\ FileSize \in Nat /\ MaxDataInMemory \in Nat /\ MaxDataInMemory > 0
  BY IntervalFields, StreamAssumption DEF StreamTypes
<1>3. r.FirstByte >= FileSize \/ r.LastByte < r.FirstByte
  <2>1. 1 \in 1 .. Len(sending)
    BY <1>1 DEF StreamTypes
  <2> QED BY <1>1, <2>1 DEF Idle
<1>4. Portion(r) \in Int
  BY <1>2, FollowingIs DEF Portion
<1>5. FileBytes(r.FirstByte, Portion(r)) = <<>>
  <2>1. Portion(r) < 0 \/ BytesOf(r.FirstByte, Portion(r)) = 0
    BY <1>2, <1>3, FollowingIs DEF Portion, BytesOf, Smaller
  <2>2. FileBytes(r.FirstByte, Portion(r)) \in Seq(Units) /\ Len(FileBytes(r.FirstByte, Portion(r))) = 0
    BY <1>2, <1>4, <2>1, FileBytesAre
  <2> QED BY <2>2
<1>6. wire' = wire
  <2>1. wire \in Seq(Units)
    BY DEF StreamTypes
  <2> QED BY <1>1, <1>5, <2>1
<1>7. Idle'
  <2>1. CASE IntervalSize(r) >= MaxDataInMemory
    <3>1. sending' = <<Following(r)>>
      BY <1>1, <2>1
    <3>2. Following(r).FirstByte >= FileSize \/ Following(r).LastByte < Following(r).FirstByte
      BY <1>2, <1>3, FollowingIs
    <3> QED BY <1>1, <3>1, <3>2 DEF Idle
  <2>2. CASE ~ (IntervalSize(r) >= MaxDataInMemory)
    BY <1>1, <2>2 DEF Idle
  <2> QED BY <2>1, <2>2
<1> QED BY <1>6, <1>7

(* The next bytes of the interval are the next of what is to come.         *)
LEMMA NextKeepsComing ==
  ASSUME StreamTypes, GetNextIntervall, NEW first \in Nat, NEW n \in Nat,
         NEW got \in Seq(Units), NEW c \in {0, 2}, first <= FileSize,
         Coming(first, n, got, c)
  PROVE  Coming(first, n, got, c)'
<1>0. PICK r \in Intervals :
            /\ sending[1] = r /\ sending # <<>> /\ linked
            /\ wire' = wire \o FileBytes(r.FirstByte, Portion(r))
            /\ sending' = IF IntervalSize(r) >= MaxDataInMemory THEN <<Following(r)>> ELSE <<>>
            /\ UNCHANGED <<FileSize, linked, ranges>>
  BY NextInterval
<1>1. /\ FileSize \in Nat /\ wire \in Seq(Units) /\ Len(got) \in Nat /\ Len(wire) \in Nat
      /\ r.FirstByte \in Nat /\ r.LastByte \in Int /\ MaxDataInMemory \in Nat /\ MaxDataInMemory > 0
  BY IntervalFields, StreamAssumption DEF StreamTypes
<1> DEFINE total == c + Len(got) + Len(wire)
<1>2. CASE Waits(first, n, total)
  <2>1. wire' = wire /\ Idle'
    BY <1>2, IdleSendsNothing DEF Waits
  <2>2. InStream(first, n, got, c)'
    BY <1>0, <2>1 DEF InStream, Coming, UnitAt, BytesOf
  <2>3. Waits(first, n, total)'
    BY <1>0, <1>2, <2>1 DEF Waits
  <2> QED BY <2>2, <2>3 DEF Coming
<1>3. CASE Sends(first, n, total)
  <2>1. PICK j \in 0 .. n : /\ total = 2 + BytesOf(first, j)
                            /\ sending = <<Interval(first + j, first + n - 1)>>
    BY <1>0, <1>3 DEF Sends
  <2>2. r.FirstByte = first + j /\ r.LastByte = first + n - 1
    BY <1>0, <2>1 DEF Interval
  <2>3. IntervalSize(r) = n - j
    BY <2>2 DEF IntervalSize
  <2> DEFINE m == Portion(r)
             a == first + j
             e == j + m
  <2>4. m \in Nat /\ e \in 0 .. n /\ j \in Nat /\ a \in Nat /\ e = j + m /\ a = first + j /\ e \in Nat
    BY <1>1, <2>3 DEF Portion
  <2>7. BytesOf(first, e) = BytesOf(first, j) + BytesOf(a, m)
        /\ (BytesOf(first, j) < j => BytesOf(a, m) = 0)
    BY <1>1, <2>4, MoreBytes
  <2>6. wire' = wire \o FileBytes(a, m) /\ r.FirstByte = a
    BY <1>0, <2>2
  <2> HIDE DEF m, a, e
  <2> DEFINE new == FileBytes(a, m)
  <2>5. new \in Seq(Units) /\ Len(new) = BytesOf(a, m)
        /\ \A i \in 1 .. Len(new) : new[i] = <<"byte", a + i - 1>>
    <3>1. m \in Int /\ ~ (m < 0)
      BY <2>4
    <3> QED BY <1>1, <2>4, <3>1, FileBytesAre
  <2>8. /\ BytesOf(first, j) \in Nat /\ BytesOf(a, m) \in Nat /\ BytesOf(first, n) \in Nat
        /\ BytesOf(first, j) <= j /\ BytesOf(first, e) \in Nat /\ BytesOf(first, e) <= BytesOf(first, n)
    <3>1. BytesOf(first, j) \in Nat /\ BytesOf(first, j) <= j
      BY <1>1, <2>4, BytesSize
    <3>2. BytesOf(a, m) \in Nat
      BY <1>1, <2>4, BytesSize
    <3>3. BytesOf(first, n) \in Nat /\ BytesOf(first, e) \in Nat /\ BytesOf(first, e) <= BytesOf(first, n)
      BY <1>1, <2>4, BytesSize
    <3> QED BY <3>1, <3>2, <3>3
  <2>6a. wire' = wire \o new
    BY <2>6
  <2> HIDE DEF new
  <2>9. /\ wire' \in Seq(Units) /\ Len(wire') = Len(wire) + Len(new)
        /\ \A k \in 1 .. Len(wire) : wire'[k] = wire[k]
        /\ \A k \in 1 .. Len(wire) + Len(new) : k > Len(wire) => wire'[k] = new[k - Len(wire)]
    BY <1>1, <2>5, <2>6a, JoinedUnits
  <2>9a. Len(wire') = Len(wire) + Len(new) /\ Len(new) = BytesOf(a, m) /\ Len(new) \in Nat /\ c \in Nat
    BY <2>5, <2>8, <2>9
  <2>10. \A k, x : BytesOf(k, x)' = BytesOf(k, x) /\ \A i : UnitAt(k, x, i)' = UnitAt(k, x, i)
    BY <1>0 DEF BytesOf, UnitAt
  <2>11. \A i \in 1 .. Len(wire') : wire'[i] = UnitAt(first, n, c + Len(got) + i)
    <3> SUFFICES ASSUME NEW i \in 1 .. Len(wire')
                 PROVE wire'[i] = UnitAt(first, n, c + Len(got) + i)
      OBVIOUS
    <3>1. CASE i <= Len(wire)
      BY <1>1, <2>9, <3>1 DEF Coming, InStream
    <3>2. CASE i > Len(wire)
      <4>1. wire'[i] = new[i - Len(wire)] /\ i - Len(wire) \in 1 .. Len(new)
        BY <1>1, <2>5, <2>9, <3>2
      <4>2. wire'[i] = <<"byte", a + (i - Len(wire)) - 1>>
        BY <2>5, <4>1
      <4>0. Len(new) >= 1 /\ i - Len(wire) >= 1 /\ i - Len(wire) \in Int
        BY <1>1, <2>9a, <4>1
      <4>3. BytesOf(first, j) = j
        BY <2>4, <2>7, <2>8, <2>9a, <4>0
      <4> DEFINE index == c + Len(got) + i
      <4>4. index = total + (i - Len(wire)) /\ total = 2 + j
        BY <1>1, <2>1, <4>3
      <4> HIDE DEF index, total
      <4>5. index # 1 /\ index # 2 /\ first + index - 3 = a + (i - Len(wire)) - 1
        BY <1>1, <2>4, <4>0, <4>4
      <4>6. UnitAt(first, n, index) = <<"byte", a + (i - Len(wire)) - 1>>
        BY <4>5 DEF UnitAt
      <4> QED BY <4>2, <4>6 DEF index
    <3> QED BY <1>1, <3>1, <3>2
  <2>12. total' = 2 + BytesOf(first, e)
    <3>1. total' = total + Len(new)
      BY <1>1, <2>9a
    <3>2. total + Len(new) = 2 + BytesOf(first, e)
      <4> HIDE DEF total
      <4> QED BY <2>1, <2>7, <2>8, <2>9a
    <3> QED BY <3>1, <3>2
  <2>13. InStream(first, n, got, c)'
    <3>1. total' <= 2 + BytesOf(first, n)
      BY <2>8, <2>12
    <3> QED BY <2>10, <2>11, <3>1 DEF InStream, Coming
  <2>14. Sends(first, n, total)'
    <3>1. CASE IntervalSize(r) >= MaxDataInMemory
      <4>1. m = MaxDataInMemory
        BY <3>1 DEF m, Portion
      <4>2. sending' = <<Interval(first + e, first + n - 1)>>
        <5>1. Following(r) = Interval(first + j + MaxDataInMemory, first + n - 1)
          BY <2>2 DEF Following
        <5>2. first + j + MaxDataInMemory = first + e
          BY <1>1, <2>4, <4>1
        <5> QED BY <1>0, <3>1, <5>1, <5>2
      <4> QED BY <1>0, <1>3, <2>4, <2>10, <2>12, <4>2 DEF Sends
    <3>2. CASE ~ (IntervalSize(r) >= MaxDataInMemory)
      <4>1. e = n
        BY <2>3, <2>4, <3>2 DEF m, Portion
      <4>2. sending' = <<>>
        BY <1>0, <3>2
      <4> QED BY <1>0, <1>3, <2>4, <2>10, <2>12, <4>1, <4>2 DEF Sends
    <3> QED BY <3>1, <3>2
  <2> QED BY <2>13, <2>14 DEF Coming
<1> QED BY <1>0, <1>2, <1>3 DEF Coming

(* A connection that breaks loses the end of what is on its way.           *)
LEMMA BreakKeepsComing ==
  ASSUME StreamTypes, BreakLink, NEW first \in Nat, NEW n \in Nat,
         NEW got \in Seq(Units), NEW c \in {0, 2}, first <= FileSize,
         Coming(first, n, got, c)
  PROVE  Coming(first, n, got, c)'
<1>1. PICK k \in 0 .. Len(wire) : wire' = SubSeq(wire, 1, k)
  BY DEF BreakLink
<1>2. /\ wire \in Seq(Units) /\ FileSize \in Nat /\ FileSize' = FileSize /\ linked' = FALSE
      /\ Len(got) \in Nat /\ Len(wire) \in Nat
  BY DEF StreamTypes, BreakLink
<1>3. Len(wire') = k /\ \A i \in 1 .. k : wire'[i] = wire[i]
  BY <1>1, <1>2, CutUnits
<1>4. BytesOf(first, n) \in Nat
  BY <1>2, BytesSize
<1>5. \A i \in 1 .. k : i \in 1 .. Len(wire)
  BY <1>1, <1>2
<1>6. InStream(first, n, got, c)
  BY DEF Coming
<1>7. c + Len(got) + k <= 2 + BytesOf(first, n)
  BY <1>1, <1>2, <1>4, <1>6 DEF InStream
<1>8. InStream(first, n, got, c)'
  BY <1>2, <1>3, <1>5, <1>6, <1>7 DEF InStream, UnitAt, BytesOf
<1> QED BY <1>2, <1>8 DEF Coming

(* What the client takes off the wire is put behind what it has.           *)
Takes(k, got, got2) ==
    /\ k \in 0 .. Len(wire) /\ got2 = got \o SubSeq(wire, 1, k)
    /\ wire' = From(wire, k)
    /\ UNCHANGED <<FileSize, linked, ranges, sending>>

(* What the client takes off the wire is behind what it has.               *)
LEMMA TakeKeepsComing ==
  ASSUME StreamTypes, NEW first \in Nat, NEW n \in Nat,
         NEW got \in Seq(Units), NEW got2, NEW c \in {0, 2}, NEW k, Takes(k, got, got2),
         Coming(first, n, got, c)
  PROVE  Coming(first, n, got2, c)'
<1>1. /\ wire \in Seq(Units) /\ FileSize \in Nat /\ FileSize' = FileSize
      /\ Len(got) \in Nat /\ Len(wire) \in Nat /\ k \in 0 .. Len(wire) /\ k \in Nat
  BY DEF StreamTypes, Takes
<1> DEFINE cut == SubSeq(wire, 1, k)
<1>2. /\ cut \in Seq(Units) /\ Len(cut) = k /\ \A i \in 1 .. k : cut[i] = wire[i]
      /\ Len(wire') = Len(wire) - k /\ \A i \in 1 .. Len(wire) - k : wire'[i] = wire[k + i]
  BY <1>1, CutUnits DEF Takes
<1>3. got2 = got \o cut
  BY DEF Takes
<1> HIDE DEF cut
<1>4. /\ Len(got2) = Len(got) + k
      /\ \A i \in 1 .. Len(got) : got2[i] = got[i]
      /\ \A i \in 1 .. Len(got) + k : i > Len(got) => got2[i] = cut[i - Len(got)]
  <2>1. cut \in Seq(Units) /\ Len(cut) = k
    BY <1>2
  <2>2. /\ Len(got \o cut) = Len(got) + Len(cut)
        /\ \A i \in 1 .. Len(got) : (got \o cut)[i] = got[i]
        /\ \A i \in 1 .. Len(got) + Len(cut) : i > Len(got) => (got \o cut)[i] = cut[i - Len(got)]
    BY <2>1, JoinedUnits
  <2> QED BY <2>1, <2>2, <1>3
<1>5. InStream(first, n, got, c)
  BY DEF Coming
<1>6. \A i : UnitAt(first, n, i)' = UnitAt(first, n, i) /\ BytesOf(first, n)' = BytesOf(first, n)
  BY <1>1 DEF UnitAt, BytesOf
<1>7. \A i \in 1 .. Len(got2) : got2[i] = UnitAt(first, n, c + i)
  <2> SUFFICES ASSUME NEW i \in 1 .. Len(got2) PROVE got2[i] = UnitAt(first, n, c + i)
    OBVIOUS
  <2>1. CASE i <= Len(got)
    BY <1>1, <1>4, <1>5, <2>1 DEF InStream
  <2>2. CASE i > Len(got)
    <3>1. i - Len(got) \in 1 .. k /\ i - Len(got) \in 1 .. Len(wire)
      BY <1>1, <1>4, <2>2
    <3>2. got2[i] = wire[i - Len(got)]
      BY <1>1, <1>2, <1>4, <2>2, <3>1
    <3>3. wire[i - Len(got)] = UnitAt(first, n, c + Len(got) + (i - Len(got)))
      BY <1>5, <3>1 DEF InStream
    <3>4. c + Len(got) + (i - Len(got)) = c + i
      BY <1>1
    <3> QED BY <3>2, <3>3, <3>4
  <2> QED BY <1>1, <2>1, <2>2
<1>8. \A i \in 1 .. Len(wire') : wire'[i] = UnitAt(first, n, c + Len(got2) + i)
  <2> SUFFICES ASSUME NEW i \in 1 .. Len(wire') PROVE wire'[i] = UnitAt(first, n, c + Len(got2) + i)
    OBVIOUS
  <2>1. k + i \in 1 .. Len(wire) /\ i \in 1 .. Len(wire) - k
    BY <1>1, <1>2
  <2>2. wire'[i] = wire[k + i]
    BY <1>2, <2>1
  <2>3. wire[k + i] = UnitAt(first, n, c + Len(got) + (k + i))
    BY <1>5, <2>1 DEF InStream
  <2>4. c + Len(got) + (k + i) = c + Len(got2) + i
    BY <1>1, <1>4
  <2> QED BY <2>2, <2>3, <2>4
<1>9. c + Len(got2) + Len(wire') = c + Len(got) + Len(wire)
  BY <1>1, <1>2, <1>4
<1>10. InStream(first, n, got2, c)'
  BY <1>5, <1>6, <1>7, <1>8, <1>9 DEF InStream
<1>11. ASSUME NEW total PROVE /\ Waits(first, n, total)' <=> Waits(first, n, total)
                              /\ Sends(first, n, total)' <=> Sends(first, n, total)
  BY DEF Takes, Waits, Sends, Idle, BytesOf
<1> QED BY <1>9, <1>10, <1>11 DEF Coming, Takes

(* Once the whole answer has come, nothing else will.                      *)
LEMMA AllHasCome ==
  ASSUME StreamTypes, NEW first \in Nat, NEW n \in Nat,
         NEW got \in Seq(Units), Coming(first, n, got, 2), Len(got) >= BytesOf(first, n)
  PROVE  Len(got) = BytesOf(first, n) /\ wire = <<>> /\ (linked => ranges = <<>> /\ Idle)
<1>1. /\ wire \in Seq(Units) /\ FileSize \in Nat /\ Len(got) \in Nat /\ Len(wire) \in Nat
      /\ BytesOf(first, n) \in Nat
  <2>1. wire \in Seq(Units) /\ FileSize \in Nat /\ Len(got) \in Nat
    BY DEF StreamTypes
  <2>2. BytesOf(first, n) \in Nat
    BY <2>1, BytesSize
  <2> QED BY <2>1, <2>2
<1>2. 2 + Len(got) + Len(wire) <= 2 + BytesOf(first, n)
  BY DEF Coming, InStream
<1>3. Len(got) = BytesOf(first, n) /\ Len(wire) = 0
  BY <1>1, <1>2
<1>4. ASSUME linked PROVE ranges = <<>> /\ Idle
  <2>1. Sends(first, n, 2 + Len(got) + Len(wire))
    BY <1>1, <1>4 DEF Coming, Waits
  <2>2. PICK j \in 0 .. n : /\ 2 + Len(got) + Len(wire) = 2 + BytesOf(first, j)
                            /\ \/ sending = <<>> /\ j = n
                               \/ sending = <<Interval(first + j, first + n - 1)>>
    BY <2>1 DEF Sends
  <2>3. BytesOf(first, j) = BytesOf(first, n)
    <3>1. BytesOf(first, j) \in Nat
      BY <1>1, BytesSize
    <3> QED BY <1>1, <1>3, <2>2, <3>1
  <2>4. first + j >= FileSize \/ first + n - 1 < first + j
    BY <1>1, <2>3 DEF BytesOf, Smaller
  <2>5. Idle
    <3>1. CASE sending = <<>>
      BY <3>1 DEF Idle
    <3>2. CASE sending = <<Interval(first + j, first + n - 1)>>
      BY <2>4, <3>2 DEF Idle, Interval
    <3> QED BY <2>2, <3>1, <3>2
  <2> QED BY <2>1, <2>5 DEF Sends
<1> QED BY <1>1, <1>3, <1>4

(* When the end of the headers is there, it is the second unit.            *)
LEMMA HeadersAre ==
  ASSUME StreamTypes, HasHeaders, NEW first \in Nat, NEW n \in Nat,
         Coming(first, n, m_ResponseData, 0)
  PROVE  /\ Len(m_ResponseData) >= 2
         /\ m_ResponseData[1] = <<"head", BytesOf(first, n), FileSize>>
         /\ (CHOOSE i \in 1 .. Len(m_ResponseData) : m_ResponseData[i] = HeadersEnd) = 2
<1>1. m_ResponseData \in Seq(Units) /\ Len(m_ResponseData) \in Nat
  BY DEF StreamTypes
<1>2. \A i \in 1 .. Len(m_ResponseData) : m_ResponseData[i] = UnitAt(first, n, i)
  BY <1>1 DEF Coming, InStream
<1>3. \A i \in 1 .. Len(m_ResponseData) : UnitAt(first, n, i) = HeadersEnd <=> i = 2
  BY DEF UnitAt, HeadersEnd
<1>4. PICK i \in 1 .. Len(m_ResponseData) : m_ResponseData[i] = HeadersEnd
  BY DEF HasHeaders
<1>5. i = 2
  BY <1>2, <1>3, <1>4
<1>6. 2 \in 1 .. Len(m_ResponseData) /\ 1 \in 1 .. Len(m_ResponseData) /\ Len(m_ResponseData) >= 2
  BY <1>1, <1>4, <1>5
<1>7. m_ResponseData[1] = UnitAt(first, n, 1)
  BY <1>2, <1>6
<1>8. \A k \in 1 .. Len(m_ResponseData) : m_ResponseData[k] = HeadersEnd <=> k = 2
  BY <1>2, <1>3
<1>9. (CHOOSE k \in 1 .. Len(m_ResponseData) : m_ResponseData[k] = HeadersEnd) = 2
  BY <1>6, <1>8
<1> QED BY <1>6, <1>7, <1>9 DEF UnitAt

(* What is behind the headers is the body's beginning.                     *)
LEMMA BodyKeepsComing ==
  ASSUME StreamTypes, NEW first \in Nat, NEW n \in Nat,
         Len(m_ResponseData) >= 2, Coming(first, n, m_ResponseData, 0)
  PROVE  Coming(first, n, From(m_ResponseData, 2), 2) /\ From(m_ResponseData, 2) \in Seq(Units)
         /\ Len(From(m_ResponseData, 2)) = Len(m_ResponseData) - 2
<1> DEFINE body == From(m_ResponseData, 2)
<1>1. m_ResponseData \in Seq(Units) /\ Len(m_ResponseData) \in Nat /\ 2 \in 0 .. Len(m_ResponseData)
      /\ Len(wire) \in Nat
  BY DEF StreamTypes
<1>2. body \in Seq(Units) /\ Len(body) = Len(m_ResponseData) - 2
      /\ \A i \in 1 .. Len(m_ResponseData) - 2 : body[i] = m_ResponseData[2 + i]
  BY <1>1, CutUnits
<1> HIDE DEF body
<1>3. InStream(first, n, m_ResponseData, 0)
  BY DEF Coming
<1>4. \A i \in 1 .. Len(body) : body[i] = UnitAt(first, n, 2 + i)
  <2> SUFFICES ASSUME NEW i \in 1 .. Len(body) PROVE body[i] = UnitAt(first, n, 2 + i)
    OBVIOUS
  <2>1. 2 + i \in 1 .. Len(m_ResponseData) /\ i \in 1 .. Len(m_ResponseData) - 2 /\ 0 + (2 + i) = 2 + i
    BY <1>1, <1>2
  <2>2. m_ResponseData[2 + i] = UnitAt(first, n, 0 + (2 + i))
    BY <1>3, <2>1 DEF InStream
  <2> QED BY <1>2, <2>1, <2>2
<1>5. 2 + Len(body) + Len(wire) = 0 + Len(m_ResponseData) + Len(wire) /\ 2 + Len(body) = 0 + Len(m_ResponseData)
  BY <1>1, <1>2
<1>6. InStream(first, n, body, 2)
  BY <1>3, <1>4, <1>5 DEF InStream
<1>7. Coming(first, n, body, 2)
  BY <1>5, <1>6 DEF Coming
<1> QED BY <1>2, <1>7 DEF body

(* The interval that is asked for.                                         *)
Opens == client \in {"opening", "measures", "measuring"}
First == IF Opens THEN 0 ELSE m_CurrentPosition
Size == IF Opens THEN FirstSize ELSE BufferSize

(* What a read has given.                                                  *)
Given ==
    /\ last.from \in Nat /\ last.size \in Nat /\ last.data \in Seq(Units)
    /\ Len(last.data) <= BytesOf(last.from, last.size)
    /\ \A i \in 1 .. Len(last.data) : last.data[i] = <<"byte", last.from + i - 1>>
    /\ linked => Len(last.data) = BytesOf(last.from, last.size)

(* The invariant, by where the client is.                                  *)
AskedRead == [from |-> m_CurrentPosition, size |-> BufferSize, data |-> <<>>]
Opening == Opens => BufferSize = FirstBuffer /\ last = NoRead
Asking == client \in {"asks", "reads", "reading"} => m_CurrentPosition <= FileSize /\ last = AskedRead
Measured == client \in {"asks", "reads", "reading", "open"} => m_TotalResourceSize = FileSize
Recieving == client \in {"opening", "asks"} /\ connected => Coming(First, Size, m_ResponseData, 0)
Announced == [StatusCode |-> 206, Total |-> FileSize, ResponseSize |-> BytesOf(First, Size)]
Ready == client \in {"reads", "measures"} /\ connected =>
            /\ m_CurrentHeaders = Announced /\ m_ParseOffset = 0
            /\ m_RecievedBodyData = Len(m_ResponseData)
            /\ Coming(First, Size, m_ResponseData, 2)
Reading == client \in {"reading", "measuring"} =>
            /\ m_CurrentHeaders = Announced /\ m_ResponseData = <<>>
            /\ RemainingData = BytesOf(First, Size) - Len(RecievedData)
            /\ Coming(First, Size, RecievedData, 2)
Opened == client = "open" =>
            /\ Given
            /\ connected => m_ResponseData = <<>> /\ wire = <<>>
            /\ linked => ranges = <<>> /\ Idle
(* The inductive invariant. After a read that began beyond the file's      *)
(* end, nothing is known until a URL is set again.                         *)
StreamGood == Opening /\ Asking /\ Measured /\ Recieving /\ Ready /\ Reading /\ Opened
StreamInv == StreamTypes /\ (linked => connected) /\ (~beyond => StreamGood)

(* Each step keeps what the state is made of.                              *)
LEMMA SendKeepsTypes ==
  ASSUME StreamTypes, SendHTTPDocument
  PROVE  StreamTypes'
<1>1. ranges[1] \in Intervals /\ Tail(ranges) \in Seq(Intervals) /\ FileSize \in Nat
  BY DEF StreamTypes, SendHTTPDocument
<1>2. ranges[1].FirstByte \in Nat /\ ranges[1].LastByte \in Int
  BY <1>1, IntervalFields
<1>3. p_GenerateRequest(ranges[1]) \in Units
  <2> DEFINE r == ranges[1]
             LastByte == IF r.LastByte >= FileSize THEN FileSize - 1 ELSE r.LastByte
  <2>1. LastByte - r.FirstByte + 1 \in Int
    BY <1>1, <1>2
  <2>2. p_GenerateRequest(r) = <<"head", LastByte - r.FirstByte + 1, FileSize>>
    BY DEF p_GenerateRequest
  <2> HIDE DEF LastByte, r
  <2>3. p_GenerateRequest(r) \in Units
    BY <1>1, <2>1, <2>2 DEF Units
  <2> QED BY <2>3 DEF r
<1>4. wire' \in Seq(Units)
  <2> DEFINE u == p_GenerateRequest(ranges[1])
  <2>1. wire' = wire \o <<u, HeadersEnd>> /\ u \in Units /\ HeadersEnd \in Units /\ wire \in Seq(Units)
    BY <1>3 DEF SendHTTPDocument, Units, StreamTypes
  <2> HIDE DEF u
  <2>2. <<u, HeadersEnd>> \in Seq(Units)
    BY <2>1
  <2> QED BY <2>1, <2>2, JoinedUnits
<1>5. sending' \in Seq(Intervals) /\ ranges' \in Seq(Intervals)
  BY <1>1 DEF SendHTTPDocument
<1> QED BY <1>4, <1>5 DEF StreamTypes, SendHTTPDocument, response, reading, position, history

(* ... the bytes of an interval, ...                                       *)
LEMMA NextKeepsTypes ==
  ASSUME StreamTypes, GetNextIntervall
  PROVE  StreamTypes'
<1>1. PICK r \in Intervals :
            /\ sending[1] = r /\ sending # <<>> /\ linked
            /\ wire' = wire \o FileBytes(r.FirstByte, Portion(r))
            /\ sending' = IF IntervalSize(r) >= MaxDataInMemory THEN <<Following(r)>> ELSE <<>>
            /\ UNCHANGED <<FileSize, linked, connected, ranges, client, BufferSize, response, m_CurrentHeaders, reading, position, history>>
  BY NextInterval
<1>2. r.FirstByte \in Nat /\ Portion(r) \in Int
  BY IntervalFields, FollowingIs, StreamAssumption DEF Portion
<1>3. FileBytes(r.FirstByte, Portion(r)) \in Seq(Units)
  BY <1>2, FileBytesAre DEF StreamTypes
<1>4. wire' \in Seq(Units)
  BY <1>1, <1>3, JoinedUnits DEF StreamTypes
<1>5. sending' \in Seq(Intervals)
  BY <1>1, FollowingIs
<1> QED BY <1>1, <1>4, <1>5 DEF StreamTypes, response, reading, position, history

(* ... the end of the connection, ...                                      *)
LEMMA BreakKeepsTypes ==
  ASSUME StreamTypes, BreakLink
  PROVE  StreamTypes'
<1>1. wire' \in Seq(Units)
  BY CutUnits DEF StreamTypes, BreakLink
<1> QED BY <1>1 DEF StreamTypes, BreakLink, server, response, reading, position, history

(* A sequence of one.                                                      *)
LEMMA OneUnit ==
  ASSUME NEW S, NEW x \in S
  PROVE  <<x>> \in Seq(S) /\ <<>> \in Seq(S)
  OBVIOUS

(* ... a URL, ...                                                          *)
LEMMA OpenKeepsTypes ==
  ASSUME StreamTypes, SetInputURL
  PROVE  StreamTypes'
<1>1. ranges' \in Seq(Intervals)
  <2>1. 0 \in Nat /\ FirstSize - 1 \in Int
    BY StreamAssumption
  <2>2. Interval(0, FirstSize - 1) \in Intervals
    BY <2>1 DEF Intervals
  <2>3. ranges' = <<>> \/ ranges' = <<Interval(0, FirstSize - 1)>>
    BY DEF SetInputURL
  <2>4. <<>> \in Seq(Intervals) /\ <<Interval(0, FirstSize - 1)>> \in Seq(Intervals)
    BY <2>2, OneUnit
  <2> QED BY <2>3, <2>4, Zenon
<1>2. FirstBuffer \in Nat
  BY StreamAssumption
<1>3. linked' \in BOOLEAN /\ connected' \in BOOLEAN /\ beyond' \in BOOLEAN
  BY DEF SetInputURL, ConnectToHost
<1>4. sending' = <<>> /\ wire' = <<>> /\ m_ResponseData' = <<>> /\ m_ParseOffset' = 0
      /\ client' = "opening" /\ BufferSize' = FirstBuffer
      /\ UNCHANGED <<FileSize, RecievedData, m_CurrentPosition>>
  BY DEF SetInputURL, ConnectToHost, reading, position
<1>5. client' \in Clients
  BY <1>4 DEF Clients
<1>6. m_ParseOffset' \in 0 .. Len(m_ResponseData')
  BY <1>4
<1> QED BY <1>1, <1>2, <1>3, <1>4, <1>5, <1>6 DEF StreamTypes

(* ... a read, ...                                                         *)
LEMMA RangeKeepsTypes ==
  ASSUME StreamTypes, NEW n \in BufferSizes, ReadRange(n)
  PROVE  StreamTypes'
<1>1. n \in Nat
  BY StreamAssumption
<1>2. ranges' \in Seq(Intervals)
  <2>1. Interval(m_CurrentPosition, m_CurrentPosition + n - 1) \in Intervals
    BY <1>1 DEF Intervals, StreamTypes
  <2> QED BY <2>1 DEF ReadRange, SendRequest, StreamTypes
<1>3. connected' \in BOOLEAN /\ beyond' \in BOOLEAN
  BY DEF ReadRange, SendRequest, StreamTypes
<1> QED BY <1>1, <1>2, <1>3 DEF StreamTypes, ReadRange, response, reading, position, Clients

(* ... a seek, ...                                                         *)
LEMMA SeekKeepsTypes ==
  ASSUME StreamTypes, NEW offset, NEW whence, SetInputPosition(offset, whence)
  PROVE  StreamTypes'
<1>1. m_CurrentPosition' \in Nat
  <2>1. m_CurrentPosition' \in 0 .. MaxPlace
    BY Zenon DEF SetInputPosition
  <2> QED BY <2>1, StreamAssumption
<1> QED BY <1>1 DEF StreamTypes, SetInputPosition, server, response, reading, history

(* What can be taken off the wire.                                         *)
LEMMA RecievedSize ==
  ASSUME StreamTypes, NEW n, n \in 0 .. Len(wire)
  PROVE  /\ n \in Nat /\ SubSeq(wire, 1, n) \in Seq(Units) /\ From(wire, n) \in Seq(Units)
  BY CutUnits DEF StreamTypes

(* ... what is received of the headers, ...                                *)
LEMMA HeadersKeepTypes ==
  ASSUME StreamTypes, RecieveHeaders
  PROVE  StreamTypes'
<1>1. PICK n \in 0 .. Len(wire) : /\ RecieveData(n)
                                  /\ m_ResponseData' = m_ResponseData \o SubSeq(wire, 1, n)
                                  /\ wire' = From(wire, n)
  BY DEF RecieveHeaders
<1>2. connected' \in BOOLEAN
  BY <1>1 DEF RecieveData, StreamTypes
<1>3. SubSeq(wire, 1, n) \in Seq(Units) /\ wire' \in Seq(Units)
  BY <1>1, RecievedSize
<1>4. m_ResponseData' \in Seq(Units) /\ Len(m_ResponseData') >= Len(m_ResponseData)
  BY <1>1, <1>3, JoinedUnits DEF StreamTypes
<1>5. m_ParseOffset' \in 0 .. Len(m_ResponseData')
  BY <1>4 DEF StreamTypes, RecieveHeaders
<1> QED BY <1>2, <1>3, <1>4, <1>5 DEF StreamTypes, RecieveHeaders, server, reading, position, history

(* ... their parsing, ...                                                  *)
LEMMA ParseKeepsTypes ==
  ASSUME StreamTypes, ParseHeaders
  PROVE  StreamTypes'
<1> DEFINE end == CHOOSE i \in 1 .. Len(m_ResponseData) : m_ResponseData[i] = HeadersEnd
<1>1. m_ResponseData \in Seq(Units) /\ Len(m_ResponseData) \in Nat
  BY DEF StreamTypes
<1>2. ASSUME connected PROVE end \in 0 .. Len(m_ResponseData)
  <2>1. \E i \in 1 .. Len(m_ResponseData) : m_ResponseData[i] = HeadersEnd
    BY <1>2 DEF ParseHeaders, p_ParseResponseHeaders, HasHeaders
  <2>2. end \in 1 .. Len(m_ResponseData)
    BY <2>1
  <2> QED BY <1>1, <2>2
<1>3. \/ UNCHANGED response
      \/ /\ connected /\ m_ResponseData' = From(m_ResponseData, end) /\ m_ParseOffset' = 0
      \/ /\ connected /\ m_ResponseData' = m_ResponseData /\ m_ParseOffset' = end
  BY DEF ParseHeaders, p_ParseResponseHeaders, Parsed
<1> HIDE DEF end
<1>4. m_ResponseData' \in Seq(Units) /\ m_ParseOffset' \in 0 .. Len(m_ResponseData')
  <2>1. CASE UNCHANGED response
    BY <2>1 DEF response, StreamTypes
  <2>2. CASE connected /\ m_ResponseData' = From(m_ResponseData, end) /\ m_ParseOffset' = 0
    <3>1. m_ResponseData' \in Seq(Units)
      BY <1>1, <1>2, <2>2, CutUnits
    <3> QED BY <2>2, <3>1
  <2>3. CASE connected /\ m_ResponseData' = m_ResponseData /\ m_ParseOffset' = end
    BY <1>1, <1>2, <2>3
  <2> QED BY <1>3, <2>1, <2>2, <2>3
<1>5. client' \in Clients
  BY DEF ParseHeaders, Clients
<1> QED BY <1>4, <1>5 DEF StreamTypes, ParseHeaders, server, reading, position, history

(* ... the beginning of the body's read, ...                               *)
LEMMA BeginKeepsTypes ==
  ASSUME StreamTypes, BeginRead
  PROVE  StreamTypes'
<1>1. /\ m_ResponseData \in Seq(Units) /\ Len(m_ResponseData) \in Nat /\ BufferSize \in Nat
      /\ m_ParseOffset \in 0 .. Len(m_ResponseData)
  BY DEF StreamTypes
<1>2. Smaller(BufferSize, Len(m_ResponseData)) \in 0 .. Len(m_ResponseData)
  BY <1>1 DEF Smaller
<1>3. m_ResponseData' \in Seq(Units) /\ m_ParseOffset' = 0
  BY <1>1, <1>2, CutUnits DEF BeginRead
<1>4. RecievedData' \in Seq(Units)
  <2> DEFINE a == m_ParseOffset + 1
             e == Smaller(m_ParseOffset + BufferSize, Len(m_ResponseData))
  <2>1. a \in Nat \ {0} /\ e \in Nat /\ e <= Len(m_ResponseData)
    BY <1>1 DEF Smaller
  <2>2. RecievedData' = SubSeq(m_ResponseData, a, e)
    BY DEF BeginRead
  <2> HIDE DEF a, e
  <2>3. \A i \in a .. e : m_ResponseData[i] \in Units
    BY <1>1, <2>1
  <2> QED BY <1>1, <2>1, <2>2, <2>3
<1>5. client' \in Clients
  BY DEF BeginRead, Clients
<1> QED BY <1>3, <1>4, <1>5 DEF StreamTypes, BeginRead, server, position, history

(* ... what is received of the body, ...                                   *)
LEMMA BodyKeepsTypes ==
  ASSUME StreamTypes, RecieveBody
  PROVE  StreamTypes'
<1>1. PICK n \in 0 .. Len(wire) : /\ RecieveData(n)
                                  /\ RecievedData' = RecievedData \o SubSeq(wire, 1, n)
                                  /\ wire' = From(wire, n)
  BY DEF RecieveBody
<1>2. connected' \in BOOLEAN
  BY <1>1 DEF RecieveData, StreamTypes
<1>3. SubSeq(wire, 1, n) \in Seq(Units) /\ wire' \in Seq(Units)
  BY <1>1, RecievedSize
<1>4. RecievedData' \in Seq(Units)
  BY <1>1, <1>3, JoinedUnits DEF StreamTypes
<1> QED BY <1>2, <1>3, <1>4 DEF StreamTypes, RecieveBody, server, position, history

(* ... its end, ...                                                        *)
LEMMA EndKeepsTypes ==
  ASSUME StreamTypes, EndRead
  PROVE  StreamTypes'
<1> DEFINE n == Smaller(BufferSize, Len(RecievedData))
           got == SubSeq(RecievedData, 1, n)
<1>1. /\ RecievedData \in Seq(Units) /\ m_ResponseData \in Seq(Units) /\ BufferSize \in Nat
      /\ n \in 0 .. Len(RecievedData) /\ n \in Nat
  BY DEF StreamTypes, Smaller
<1> HIDE DEF n
<1>2. got \in Seq(Units) /\ Len(got) = n
  BY <1>1, CutUnits
<1>3. /\ m_ResponseData' = m_ResponseData \o From(RecievedData, Len(got)) /\ RecievedData' = <<>>
      /\ Finish(got) \/ Measure
      /\ UNCHANGED <<FileSize, linked, connected, server, wire, BufferSize, m_ParseOffset, m_RecievedBodyData,
                       m_CurrentHeaders, beyond, readings, opens>>
  BY DEF EndRead, n
<1> HIDE DEF got
<1>4. From(RecievedData, Len(got)) \in Seq(Units)
  BY <1>1, <1>2, CutUnits
<1>5. m_ResponseData' \in Seq(Units) /\ Len(m_ResponseData') >= Len(m_ResponseData)
  BY <1>1, <1>3, <1>4, JoinedUnits
<1>6. m_ParseOffset' \in 0 .. Len(m_ResponseData')
  BY <1>3, <1>5 DEF StreamTypes
<1>7. m_CurrentPosition' \in Nat /\ client' = "open"
  BY <1>1, <1>2, <1>3 DEF Finish, Measure, StreamTypes
<1> QED BY <1>3, <1>5, <1>6, <1>7 DEF StreamTypes, server, Clients

(* ... and a read that gives nothing.                                      *)
LEMMA RefuseKeepsTypes ==
  ASSUME StreamTypes, RefuseRead
  PROVE  StreamTypes'
<1>1. m_CurrentPosition' \in Nat /\ client' \in Clients
  BY DEF RefuseRead, Finish, p_Reset, StreamTypes, Clients
<1> QED BY <1>1 DEF StreamTypes, RefuseRead, server, response, reading

(* A request is being answered.                                            *)
Busy == client \in {"opening", "measures", "measuring", "asks", "reads", "reading"}

(* What is asked for does not begin beyond the end of the file.            *)
LEMMA PlaceOfRead ==
  ASSUME StreamTypes, Asking, Busy
  PROVE  First \in Nat /\ Size \in Nat /\ First <= FileSize
<1>1. FirstSize \in Nat /\ FileSize \in Nat /\ m_CurrentPosition \in Nat /\ BufferSize \in Nat
  BY StreamAssumption DEF StreamTypes
<1> QED BY <1>1 DEF First, Size, Busy, Opens, Asking

(* What is asked for does not change while it is read.                     *)
LEMMA RequestIs ==
  ASSUME UNCHANGED <<client, BufferSize, m_CurrentPosition>>
  PROVE  First' = First /\ Size' = Size
  BY DEF First, Size, Opens

(* What happens without the client.                                        *)
ServerStep == SendHTTPDocument \/ GetNextIntervall \/ BreakLink

(* The server's steps and the end of the connection keep what is to come.  *)
LEMMA ServerKeepsComing ==
  ASSUME StreamTypes, ServerStep, NEW first \in Nat, NEW n \in Nat,
         NEW got \in Seq(Units), NEW c \in {0, 2}, first <= FileSize,
         Coming(first, n, got, c)
  PROVE  Coming(first, n, got, c)'
  BY SendKeepsComing, NextKeepsComing, BreakKeepsComing DEF ServerStep

(* ... and leave the client as it is.                                      *)
LEMMA ServerLeaves ==
  ASSUME ServerStep
  PROVE  /\ UNCHANGED <<FileSize, connected, client, BufferSize, m_ResponseData, m_ParseOffset,
                        m_RecievedBodyData, m_CurrentHeaders, RecievedData, RemainingData,
                        m_CurrentPosition, m_TotalResourceSize, last, beyond>>
         /\ linked' => linked
  BY DEF ServerStep, SendHTTPDocument, GetNextIntervall, BreakLink, response, reading, position, history

(* So does the invariant while the headers come, ...                       *)
LEMMA ServerKeepsRecieving ==
  ASSUME StreamTypes, ServerStep, Asking, Recieving
  PROVE  Recieving'
<1>1. UNCHANGED <<connected, client, BufferSize, m_ResponseData, m_CurrentPosition>>
  BY ServerLeaves
<1>2. SUFFICES ASSUME client \in {"opening", "asks"}, connected
               PROVE Coming(First, Size, m_ResponseData, 0)'
  BY <1>1 DEF Recieving
<1>3. Busy
  BY <1>2 DEF Busy
<1>4. PICK f \in Nat, n \in Nat, got \in Seq(Units) : f = First /\ n = Size /\ got = m_ResponseData
  BY <1>3, PlaceOfRead DEF StreamTypes
<1>5. Coming(f, n, got, 0) /\ f <= FileSize
  BY <1>2, <1>3, <1>4, PlaceOfRead DEF Recieving
<1>6. Coming(f, n, got, 0)'
  BY <1>5, ServerKeepsComing
<1>7. f = First' /\ n = Size' /\ got = m_ResponseData'
  BY <1>1, <1>4, RequestIs
<1> QED BY <1>6, <1>7

(* What the server has announced stays while the request does.             *)
LEMMA AnnouncedIs ==
  ASSUME UNCHANGED <<FileSize, client, BufferSize, m_CurrentPosition>>
  PROVE  Announced' = Announced
<1>1. First' = First /\ Size' = Size
  BY RequestIs
<1> QED BY <1>1 DEF Announced, BytesOf

(* ... when they have come, ...                                            *)
LEMMA ServerKeepsReady ==
  ASSUME StreamTypes, ServerStep, Asking, Ready
  PROVE  Ready'
<1>1. UNCHANGED <<FileSize, connected, client, BufferSize, m_ResponseData, m_CurrentPosition, m_CurrentHeaders,
                  m_ParseOffset, m_RecievedBodyData>>
  BY ServerLeaves
<1>2. SUFFICES ASSUME client \in {"reads", "measures"}, connected
               PROVE Coming(First, Size, m_ResponseData, 2)'
  BY <1>1, AnnouncedIs DEF Ready
<1>3. Busy
  BY <1>2 DEF Busy
<1>4. PICK f \in Nat, n \in Nat, got \in Seq(Units) : f = First /\ n = Size /\ got = m_ResponseData
  BY <1>3, PlaceOfRead DEF StreamTypes
<1>5. Coming(f, n, got, 2) /\ f <= FileSize
  BY <1>2, <1>3, <1>4, PlaceOfRead DEF Ready
<1>6. Coming(f, n, got, 2)'
  BY <1>5, ServerKeepsComing
<1>7. f = First' /\ n = Size' /\ got = m_ResponseData'
  BY <1>1, <1>4, RequestIs
<1> QED BY <1>6, <1>7

(* ... while the body comes, ...                                           *)
LEMMA ServerKeepsReading ==
  ASSUME StreamTypes, ServerStep, Asking, Reading
  PROVE  Reading'
<1>1. UNCHANGED <<FileSize, client, BufferSize, m_ResponseData, m_CurrentPosition, m_CurrentHeaders,
                  RecievedData, RemainingData>>
  BY ServerLeaves
<1>a. /\ Announced' = Announced /\ First' = First /\ Size' = Size
      /\ BytesOf(First, Size)' = BytesOf(First, Size)
  <2>1. Announced' = Announced /\ First' = First /\ Size' = Size
    BY <1>1, AnnouncedIs, RequestIs
  <2> QED BY <1>1, <2>1 DEF BytesOf
<1>2. SUFFICES ASSUME client \in {"reading", "measuring"}
               PROVE Coming(First, Size, RecievedData, 2)'
  BY <1>1, <1>a DEF Reading
<1>3. Busy
  BY <1>2 DEF Busy
<1>4. PICK f \in Nat, n \in Nat, got \in Seq(Units) : f = First /\ n = Size /\ got = RecievedData
  BY <1>3, PlaceOfRead DEF StreamTypes
<1>5. Coming(f, n, got, 2) /\ f <= FileSize
  BY <1>2, <1>3, <1>4, PlaceOfRead DEF Reading
<1>6. Coming(f, n, got, 2)'
  BY <1>5, ServerKeepsComing
<1>7. f = First' /\ n = Size' /\ got = RecievedData'
  BY <1>1, <1>4, RequestIs
<1> QED BY <1>6, <1>7

(* ... and between two reads, when the server has nothing to send.         *)
LEMMA ServerKeepsOpened ==
  ASSUME StreamTypes, ServerStep, Opened, linked => connected
  PROVE  Opened'
<1>1. UNCHANGED <<FileSize, connected, client, m_ResponseData, last>> /\ (linked' => linked)
  BY ServerLeaves
<1>2. SUFFICES ASSUME client = "open"
               PROVE /\ Given' /\ (connected => wire' = <<>>)
                     /\ linked' => ranges' = <<>> /\ Idle'
  BY <1>1 DEF Opened
<1>3. Given'
  BY <1>1, <1>2 DEF Opened, Given, BytesOf
<1>4. CASE SendHTTPDocument
  BY <1>2, <1>4 DEF Opened, SendHTTPDocument
<1>5. CASE GetNextIntervall
  <2>1. linked /\ ranges' = ranges
    BY <1>5 DEF GetNextIntervall
  <2>2. Idle /\ ranges = <<>> /\ connected /\ wire = <<>>
    BY <1>2, <2>1 DEF Opened
  <2> QED BY <1>3, <1>5, <2>1, <2>2, IdleSendsNothing
<1>6. CASE BreakLink
  <2>1. ~ linked' /\ linked
    BY <1>6 DEF BreakLink
  <2>2. wire = <<>>
    BY <1>2, <2>1 DEF Opened
  <2>3. wire' = <<>>
    BY <1>6, <2>2 DEF BreakLink
  <2> QED BY <1>3, <2>1, <2>3
<1> QED BY <1>4, <1>5, <1>6 DEF ServerStep

(* The steps without the client keep the invariant.                        *)
LEMMA ServerKeeps ==
  ASSUME StreamInv, ServerStep
  PROVE  StreamInv'
<1>1. StreamTypes'
  BY SendKeepsTypes, NextKeepsTypes, BreakKeepsTypes DEF ServerStep, StreamInv
<1>2. linked' => connected'
  BY ServerLeaves DEF StreamInv
<1>3. ASSUME ~ beyond' PROVE StreamGood'
  <2>1. StreamGood /\ StreamTypes /\ (linked => connected)
    BY <1>3, ServerLeaves DEF StreamInv
  <2>2. Opening' /\ Asking' /\ Measured'
    BY <2>1, ServerLeaves DEF StreamGood, Opening, Asking, Measured, AskedRead, Opens
  <2> QED BY <2>1, <2>2, ServerKeepsRecieving, ServerKeepsReady, ServerKeepsReading, ServerKeepsOpened DEF StreamGood
<1> QED BY <1>1, <1>2, <1>3 DEF StreamInv

(* A request that has just been sent is to be answered as a whole.         *)
LEMMA NothingYet ==
  ASSUME FileSize' \in Nat, NEW first \in Nat, NEW n \in Nat, wire' = <<>>,
         linked' => ranges' = <<Interval(first, first + n - 1)>> /\ Idle'
  PROVE  Coming(first, n, <<>>, 0)'
<1>1. BytesOf(first, n)' \in Nat
  <2>1. \A size \in Nat : Smaller(n, IF first < size THEN size - first ELSE 0) \in Nat
    BY DEF Smaller
  <2>2. BytesOf(first, n)' = Smaller(n, IF first < FileSize' THEN FileSize' - first ELSE 0)
    BY DEF BytesOf
  <2> QED BY <2>1, <2>2, Zenon
<1>2. InStream(first, n, <<>>, 0)'
  BY <1>1 DEF InStream
<1>3. 0 + Len(<<>>) + Len(wire') = 0
  OBVIOUS
<1>4. linked' => Waits(first, n, 0)'
  BY Zenon DEF Waits
<1> QED BY <1>2, <1>3, <1>4 DEF Coming

(* A URL is set: a new connection, with nothing on its way.                *)
LEMMA OpenKeeps ==
  ASSUME StreamInv, SetInputURL
  PROVE  StreamInv'
<1>1. StreamTypes'
  BY OpenKeepsTypes DEF StreamInv
<1>2. linked' = connected'
  BY DEF SetInputURL, ConnectToHost
<1>3. /\ client' = "opening" /\ BufferSize' = FirstBuffer /\ last' = NoRead
      /\ m_ResponseData' = <<>> /\ wire' = <<>> /\ sending' = <<>>
      /\ ranges' = IF linked' THEN <<Interval(0, FirstSize - 1)>> ELSE <<>>
  BY DEF SetInputURL, ConnectToHost
<1>4. Opening' /\ Asking' /\ Measured' /\ Ready' /\ Reading' /\ Opened'
  BY <1>3 DEF Opening, Asking, Measured, Ready, Reading, Opened, Opens
<1>5. Recieving'
  <2>1. First' = 0 /\ Size' = FirstSize /\ FirstSize \in Nat /\ FileSize' \in Nat
    BY <1>1, <1>3, StreamAssumption DEF First, Size, Opens, StreamTypes
  <2>2. linked' => ranges' = <<Interval(0, 0 + FirstSize - 1)>> /\ Idle'
    <3>1. 0 + FirstSize - 1 = FirstSize - 1
      BY <2>1
    <3>2. Idle'
      BY <1>3 DEF Idle
    <3>3. linked' => ranges' = <<Interval(0, 0 + FirstSize - 1)>>
      BY <1>3, <3>1
    <3> QED BY <3>2, <3>3
  <2>3. Coming(0, FirstSize, <<>>, 0)'
    BY <1>3, <2>1, <2>2, NothingYet
  <2> QED BY <1>3, <2>1, <2>3 DEF Recieving
<1> QED BY <1>1, <1>2, <1>4, <1>5 DEF StreamInv, StreamGood

(* A read asks for its interval while nothing else is on its way.          *)
LEMMA RangeKeeps ==
  ASSUME StreamInv, NEW n \in BufferSizes, ReadRange(n)
  PROVE  StreamInv'
<1>0. n \in Nat /\ StreamTypes
  BY StreamAssumption DEF StreamInv
<1>1. StreamTypes'
  BY RangeKeepsTypes DEF StreamInv
<1>2. /\ client = "open" /\ connected /\ client' = "asks" /\ BufferSize' = n
      /\ connected' \in {connected, linked} /\ linked' = linked
      /\ ranges' = IF linked THEN Append(ranges, Interval(m_CurrentPosition, m_CurrentPosition + n - 1)) ELSE ranges
      /\ last' = [from |-> m_CurrentPosition, size |-> n, data |-> <<>>]
      /\ beyond' = (beyond \/ m_CurrentPosition > FileSize)
      /\ UNCHANGED <<FileSize, sending, wire, m_ResponseData, m_CurrentPosition, m_TotalResourceSize>>
  BY DEF ReadRange, p_IsValid, SendRequest, response, position
<1>3. linked' => connected'
  BY <1>2 DEF StreamInv
<1>4. ASSUME ~ beyond' PROVE StreamGood'
  <2>1. StreamGood /\ m_CurrentPosition <= FileSize /\ m_CurrentPosition \in Nat /\ FileSize \in Nat
    <3>1. ~ beyond /\ ~ (m_CurrentPosition > FileSize)
      BY <1>2, <1>4, Zenon
    <3>2. m_CurrentPosition \in Nat /\ FileSize \in Nat
      BY <1>0 DEF StreamTypes
    <3>3. StreamGood
      BY <3>1 DEF StreamInv
    <3> QED BY <3>1, <3>2, <3>3
  <2>2. /\ m_ResponseData = <<>> /\ wire = <<>> /\ m_TotalResourceSize = FileSize
        /\ linked => ranges = <<>> /\ Idle
    BY <1>2, <2>1 DEF StreamGood, Opened, Measured
  <2>3. Opening' /\ Ready' /\ Reading' /\ Opened' /\ Measured'
    BY <1>2, <2>2 DEF Opening, Measured, Ready, Reading, Opened, Opens
  <2>4. Asking'
    BY <1>2, <2>1 DEF Asking, AskedRead
  <2>5. Recieving'
    <3>1. PICK f \in Nat : f = m_CurrentPosition
      BY <2>1
    <3>2. First' = f /\ Size' = n
      BY <1>2, <3>1 DEF First, Size, Opens
    <3>3. linked' => ranges' = <<Interval(f, f + n - 1)>> /\ Idle'
      <4>1. linked' => Idle'
        BY <1>2, <2>2 DEF Idle
      <4>2. ASSUME linked' PROVE ranges' = <<Interval(f, f + n - 1)>>
        <5> DEFINE x == Interval(f, f + n - 1)
        <5>1. ranges' = Append(ranges, x) /\ ranges = <<>>
          BY <1>2, <2>2, <3>1, <4>2
        <5> HIDE DEF x
        <5>2. ranges' = <<x>>
          BY <5>1
        <5> QED BY <5>2 DEF x
      <4> QED BY <4>1, <4>2
    <3>4. Coming(f, n, <<>>, 0)'
      BY <1>0, <1>2, <2>1, <2>2, <3>3, NothingYet
    <3> QED BY <1>2, <2>2, <3>2, <3>4 DEF Recieving
  <2> QED BY <2>3, <2>4, <2>5 DEF StreamGood
<1> QED BY <1>1, <1>3, <1>4 DEF StreamInv

(* A seek moves nothing but the position.                                  *)
LEMMA SeekKeeps ==
  ASSUME StreamInv, NEW offset, NEW whence, SetInputPosition(offset, whence)
  PROVE  StreamInv'
<1>1. StreamTypes'
  BY SeekKeepsTypes DEF StreamInv
<1>2. /\ client = "open"
      /\ UNCHANGED <<FileSize, linked, connected, ranges, sending, wire, client, BufferSize, m_ResponseData,
                     m_TotalResourceSize, last, beyond>>
  BY Zenon DEF SetInputPosition, p_IsValid, server, response, history
<1>3. ASSUME StreamGood PROVE StreamGood'
  <2>1. Opening' /\ Asking' /\ Measured' /\ Recieving' /\ Ready' /\ Reading'
    BY <1>2, <1>3 DEF StreamGood, Opening, Asking, Measured, Recieving, Ready, Reading, Opens
  <2>2. Given'
    <3>1. Opened /\ client = "open"
      BY <1>2, <1>3 DEF StreamGood
    <3>2. Given
      BY <3>1 DEF Opened
    <3>3. Given'
      BY <1>2, <3>2 DEF Given, BytesOf
    <3> QED BY <1>2, <3>3
  <2>3. Opened'
    <3>1. Idle' <=> Idle
      BY <1>2 DEF Idle
    <3> QED BY <1>2, <1>3, <2>2, <3>1 DEF StreamGood, Opened
  <2> QED BY <2>1, <2>3 DEF StreamGood
<1> QED BY <1>1, <1>2, <1>3 DEF StreamInv

(* The socket learns that a connection is lost only when it is.            *)
LEMMA LinkIsKnown ==
  ASSUME linked => connected, NEW n, RecieveData(n), linked' = linked
  PROVE  (linked' => connected') /\ (connected' => connected)
  BY DEF RecieveData

(* Part of the headers, and maybe of the body, is received.                *)
LEMMA RecieveHeadersKeeps ==
  ASSUME StreamInv, RecieveHeaders
  PROVE  StreamInv'
<1>0. StreamTypes
  BY DEF StreamInv
<1>1. StreamTypes'
  BY HeadersKeepTypes DEF StreamInv
<1>2. /\ client \in {"opening", "asks"} /\ connected
      /\ UNCHANGED <<FileSize, linked, ranges, sending, client, BufferSize, m_CurrentPosition,
                     m_TotalResourceSize, last, beyond>>
  BY DEF RecieveHeaders, server, position, history
<1>3. PICK k \in 0 .. Len(wire) : /\ RecieveData(k)
                                  /\ m_ResponseData' = m_ResponseData \o SubSeq(wire, 1, k)
                                  /\ wire' = From(wire, k)
  BY DEF RecieveHeaders
<1>4. linked' => connected'
  BY <1>2, <1>3, LinkIsKnown DEF StreamInv
<1>5. ASSUME ~ beyond' PROVE StreamGood'
  <2>1. StreamGood
    BY <1>2, <1>5 DEF StreamInv
  <2>2. Opening' /\ Asking' /\ Measured' /\ Ready' /\ Reading' /\ Opened'
    BY <1>2, <2>1 DEF StreamGood, Opening, Asking, AskedRead, Measured, Ready, Reading, Opened, Opens
  <2>3. Coming(First, Size, m_ResponseData, 0)'
    <3>1. Busy
      BY <1>2 DEF Busy
    <3>2. PICK f \in Nat, n \in Nat, got \in Seq(Units) : f = First /\ n = Size /\ got = m_ResponseData
      BY <1>0, <2>1, <3>1, PlaceOfRead DEF StreamTypes, StreamGood
    <3>3. PICK got2 : got2 = m_ResponseData'
      OBVIOUS
    <3>4. Coming(f, n, got, 0)
      BY <1>2, <2>1, <3>2 DEF StreamGood, Recieving
    <3>5. Takes(k, got, got2)
      BY <1>2, <1>3, <3>2, <3>3 DEF Takes
    <3>6. Coming(f, n, got2, 0)'
      BY <1>0, <3>4, <3>5, TakeKeepsComing
    <3>7. f = First' /\ n = Size' /\ got2 = m_ResponseData'
      BY <1>2, <3>2, <3>3, RequestIs
    <3> QED BY <3>6, <3>7
  <2> QED BY <2>2, <2>3 DEF StreamGood, Recieving
<1> QED BY <1>1, <1>4, <1>5 DEF StreamInv

(* Part of the body is received.                                           *)
LEMMA RecieveBodyKeeps ==
  ASSUME StreamInv, RecieveBody
  PROVE  StreamInv'
<1>0. StreamTypes
  BY DEF StreamInv
<1>1. StreamTypes'
  BY BodyKeepsTypes DEF StreamInv
<1>2. /\ client \in {"reading", "measuring"} /\ connected
      /\ UNCHANGED <<FileSize, linked, ranges, sending, client, BufferSize, m_CurrentPosition, m_ResponseData,
                     m_CurrentHeaders, m_TotalResourceSize, last, beyond>>
  BY DEF RecieveBody, ReadsOn, server, position, history
<1>3. PICK k \in 0 .. Len(wire) : /\ RecieveData(k)
                                  /\ RecievedData' = RecievedData \o SubSeq(wire, 1, k)
                                  /\ wire' = From(wire, k)
                                  /\ RemainingData' = RemainingData - k
  BY DEF RecieveBody
<1>4. linked' => connected'
  BY <1>2, <1>3, LinkIsKnown DEF StreamInv
<1>5. ASSUME ~ beyond' PROVE StreamGood'
  <2>1. StreamGood
    BY <1>2, <1>5 DEF StreamInv
  <2>2. Opening' /\ Asking' /\ Measured' /\ Ready' /\ Recieving' /\ Opened'
    BY <1>2, <2>1 DEF StreamGood, Opening, Asking, AskedRead, Measured, Ready, Recieving, Opened, Opens
  <2>3. Busy
    BY <1>2 DEF Busy
  <2>4. PICK f \in Nat, n \in Nat, got \in Seq(Units) : f = First /\ n = Size /\ got = RecievedData
    BY <1>0, <2>1, <2>3, PlaceOfRead DEF StreamTypes, StreamGood
  <2>5. PICK got2 : got2 = RecievedData'
    OBVIOUS
  <2>6. Coming(f, n, got, 2)
    BY <1>2, <2>1, <2>4 DEF StreamGood, Reading
  <2>7. Takes(k, got, got2)
    BY <1>2, <1>3, <2>4, <2>5 DEF Takes
  <2>8. Coming(f, n, got2, 2)'
    BY <1>0, <2>6, <2>7, TakeKeepsComing
  <2>9. f = First' /\ n = Size' /\ got2 = RecievedData' /\ Announced' = Announced
    BY <1>2, <2>4, <2>5, RequestIs, AnnouncedIs
  <2>10. RemainingData' = BytesOf(First, Size)' - Len(RecievedData')
    <3>1. RemainingData = BytesOf(f, n) - Len(got)
      BY <1>2, <2>1, <2>4 DEF StreamGood, Reading
    <3>2. Len(got2) = Len(got) + k
      <4>1. wire \in Seq(Units) /\ got2 = got \o SubSeq(wire, 1, k)
        BY <1>0, <2>7 DEF StreamTypes, Takes
      <4>2. SubSeq(wire, 1, k) \in Seq(Units) /\ Len(SubSeq(wire, 1, k)) = k
        BY <4>1, CutUnits
      <4> QED BY <4>1, <4>2, JoinedUnits
    <3>3. BytesOf(f, n) \in Nat /\ Len(got) \in Nat /\ k \in Nat
      <4>1. FileSize \in Nat /\ wire \in Seq(Units) /\ Len(wire) \in Nat
        BY <1>0 DEF StreamTypes
      <4>2. BytesOf(f, n) \in Nat
        BY <4>1, BytesSize
      <4> QED BY <4>1, <4>2
    <3>4. BytesOf(First, Size)' = BytesOf(f, n)
      BY <1>2, <2>9 DEF BytesOf
    <3> DEFINE B == BytesOf(f, n)
    <3>5. RemainingData' = B - (Len(got) + k)
      <4>1. RemainingData = B - Len(got) /\ B \in Nat
        BY <3>1, <3>3
      <4> HIDE DEF B
      <4> QED BY <1>3, <3>3, <4>1
    <3> QED BY <2>9, <3>2, <3>4, <3>5
  <2>11. Reading'
    <3>1. m_CurrentHeaders = Announced /\ m_ResponseData = <<>>
      BY <1>2, <2>1 DEF StreamGood, Reading
    <3>2. Coming(First, Size, RecievedData, 2)'
      BY <2>8, <2>9
    <3> QED BY <1>2, <2>9, <2>10, <3>1, <3>2 DEF Reading
  <2> QED BY <2>2, <2>11 DEF StreamGood
<1> QED BY <1>1, <1>4, <1>5 DEF StreamInv

(* What is to come does not change by what the client does with what it    *)
(* has.                                                                    *)
LEMMA ComingStays ==
  ASSUME NEW first, NEW n, NEW got, NEW c, Coming(first, n, got, c),
         UNCHANGED <<FileSize, linked, ranges, sending, wire>>
  PROVE  Coming(first, n, got, c)'
<1>1. /\ BytesOf(first, n)' = BytesOf(first, n) /\ \A i : UnitAt(first, n, i)' = UnitAt(first, n, i)
  BY DEF BytesOf, UnitAt
<1>2. InStream(first, n, got, c)'
  BY <1>1 DEF Coming, InStream
<1>3. ASSUME NEW total
      PROVE /\ Waits(first, n, total)' <=> Waits(first, n, total)
            /\ Sends(first, n, total)' <=> Sends(first, n, total)
  BY DEF Waits, Sends, Idle, BytesOf
<1> QED BY <1>2, <1>3 DEF Coming

(* The headers are parsed: what the server has announced is known, and     *)
(* what came with them is the body's beginning.                            *)
LEMMA ParseKeeps ==
  ASSUME StreamInv, ParseHeaders
  PROVE  StreamInv'
<1>0. StreamTypes
  BY DEF StreamInv
<1>1. StreamTypes'
  BY ParseKeepsTypes DEF StreamInv
<1>2. /\ client \in {"opening", "asks"} /\ client' = IF client = "asks" THEN "reads" ELSE "measures"
      /\ UNCHANGED <<FileSize, linked, connected, ranges, sending, wire, BufferSize, m_CurrentPosition,
                     m_TotalResourceSize, last, beyond>>
  BY DEF ParseHeaders, server, position, history
<1>3. linked' => connected'
  BY <1>2 DEF StreamInv
<1>4. ASSUME ~ beyond' PROVE StreamGood'
  <2>1. StreamGood
    BY <1>2, <1>4 DEF StreamInv
  <2>2. Opening' /\ Asking' /\ Measured' /\ Recieving' /\ Reading' /\ Opened'
    BY <1>2, <2>1 DEF StreamGood, Opening, Asking, AskedRead, Measured, Recieving, Reading, Opened, Opens
  <2>3. First' = First /\ Size' = Size
    BY <1>2 DEF First, Size, Opens
  <2>4. ASSUME connected
        PROVE /\ m_CurrentHeaders' = Announced' /\ m_ParseOffset' = 0
              /\ m_RecievedBodyData' = Len(m_ResponseData')
              /\ Coming(First, Size, m_ResponseData, 2)'
    <3>1. Busy
      BY <1>2 DEF Busy
    <3>2. PICK f \in Nat, n \in Nat : f = First /\ n = Size
      BY <1>0, <2>1, <3>1, PlaceOfRead DEF StreamGood
    <3>3. Coming(f, n, m_ResponseData, 0) /\ HasHeaders
      BY <1>2, <2>1, <2>4, <3>2 DEF StreamGood, Recieving, ParseHeaders, p_ParseResponseHeaders
    <3>4. /\ Len(m_ResponseData) >= 2
          /\ m_ResponseData[1] = <<"head", BytesOf(f, n), FileSize>>
          /\ (CHOOSE i \in 1 .. Len(m_ResponseData) : m_ResponseData[i] = HeadersEnd) = 2
      BY <1>0, <3>3, HeadersAre
    <3>5. FileSize \in Nat /\ BytesOf(f, n) \in Nat /\ ~ (BytesOf(f, n) < 0)
      <4>1. FileSize \in Nat
        BY <1>0 DEF StreamTypes
      <4>2. BytesOf(f, n) \in Nat
        BY <4>1, BytesSize
      <4> QED BY <4>1, <4>2
    <3>6. /\ m_CurrentHeaders' = [StatusCode |-> 206, Total |-> FileSize, ResponseSize |-> BytesOf(f, n)]
          /\ m_ResponseData' = From(m_ResponseData, 2) /\ m_ParseOffset' = 0
          /\ m_RecievedBodyData' = Len(From(m_ResponseData, 2))
      <4> DEFINE head == m_ResponseData[1]
                 end == CHOOSE i \in 1 .. Len(m_ResponseData) : m_ResponseData[i] = HeadersEnd
      <4>1. head[1] = "head" /\ head[2] = BytesOf(f, n) /\ head[3] = FileSize /\ end = 2
        BY <3>4
      <4>2. IF ~connected \/ head[1] # "head"
            THEN m_CurrentHeaders' = NoHeaders /\ UNCHANGED response
            ELSE /\ m_CurrentHeaders' = [StatusCode |-> 206, Total |-> head[3],
                                         ResponseSize |-> IF head[2] < 0 THEN -1 ELSE head[2]]
                 /\ IF head[2] < 0 THEN m_ParseOffset' = end /\ UNCHANGED <<m_ResponseData, m_RecievedBodyData>>
                    ELSE Parsed(From(m_ResponseData, end))
        BY DEF ParseHeaders, p_ParseResponseHeaders
      <4> HIDE DEF head, end
      <4> QED BY <2>4, <3>5, <4>1, <4>2 DEF Parsed
    <3>7. Announced' = [StatusCode |-> 206, Total |-> FileSize, ResponseSize |-> BytesOf(f, n)]
      BY <1>2, <2>3, <3>2 DEF Announced, BytesOf
    <3>8. Coming(f, n, From(m_ResponseData, 2), 2)
      BY <1>0, <3>3, <3>4, BodyKeepsComing
    <3>9. PICK body : body = From(m_ResponseData, 2)
      OBVIOUS
    <3>10. Coming(f, n, body, 2)'
      BY <1>2, <3>8, <3>9, ComingStays
    <3>11. f = First' /\ n = Size' /\ body = m_ResponseData'
      BY <2>3, <3>2, <3>6, <3>9
    <3>12. Coming(First, Size, m_ResponseData, 2)'
      BY <3>10, <3>11
    <3> QED BY <3>6, <3>7, <3>12
  <2> QED BY <1>2, <2>2, <2>4 DEF StreamGood, Ready
<1> QED BY <1>1, <1>3, <1>4 DEF StreamInv

(* A sequence that fits is taken as a whole.                               *)
LEMMA WholeSequence ==
  ASSUME NEW S, NEW s \in Seq(S), NEW m \in Nat, Len(s) <= m
  PROVE  /\ Smaller(m, Len(s)) = Len(s) /\ SubSeq(s, 1, Len(s)) = s /\ From(s, Len(s)) = <<>>
         /\ <<>> \o From(s, Len(s)) = <<>>
  BY DEF Smaller, From

(* The answer fits into the reader's buffer.                               *)
LEMMA AnswerFits ==
  ASSUME StreamTypes, Opening, Busy, NEW first \in Nat, NEW n \in Nat, n = Size,
         NEW got \in Seq(Units), Coming(first, n, got, 2)
  PROVE  /\ BytesOf(first, n) \in Nat /\ BytesOf(first, n) <= BufferSize
         /\ Len(got) \in Nat /\ Len(got) <= BytesOf(first, n)
<1>1. FileSize \in Nat /\ BufferSize \in Nat /\ Len(got) \in Nat /\ Len(wire) \in Nat
      /\ FirstSize \in Nat /\ FirstBuffer \in Nat /\ FirstSize <= FirstBuffer
  BY StreamAssumption DEF StreamTypes
<1>2. n <= BufferSize
  BY <1>1 DEF Opening, Size
<1>3. BytesOf(first, n) \in Nat /\ BytesOf(first, n) <= n
  BY <1>1, BytesSize
<1>4. 2 + Len(got) + Len(wire) <= 2 + BytesOf(first, n)
  BY DEF Coming, InStream
<1> QED BY <1>1, <1>2, <1>3, <1>4

(* What came with the headers is the first of what is read.                *)
LEMMA BeginKeeps ==
  ASSUME StreamInv, BeginRead
  PROVE  StreamInv'
<1>0. StreamTypes
  BY DEF StreamInv
<1>1. StreamTypes'
  BY BeginKeepsTypes DEF StreamInv
<1>2. /\ client \in {"reads", "measures"} /\ client' = IF client = "reads" THEN "reading" ELSE "measuring"
      /\ ~ Refused
      /\ UNCHANGED <<FileSize, linked, connected, ranges, sending, wire, BufferSize, m_CurrentPosition,
                     m_CurrentHeaders, m_TotalResourceSize, last, beyond>>
  BY DEF BeginRead, server, position, history
<1>3. linked' => connected'
  BY <1>2 DEF StreamInv
<1>4. ASSUME ~ beyond' PROVE StreamGood'
  <2>1. StreamGood /\ connected
    BY <1>2, <1>4 DEF StreamInv, Refused
  <2>2. Opening' /\ Asking' /\ Measured' /\ Recieving' /\ Ready' /\ Opened'
    BY <1>2, <2>1 DEF StreamGood, Opening, Asking, AskedRead, Measured, Recieving, Ready, Opened, Opens
  <2>3. First' = First /\ Size' = Size
    BY <1>2 DEF First, Size, Opens
  <2>4. Busy
    BY <1>2 DEF Busy
  <2>5. PICK f \in Nat, n \in Nat, got \in Seq(Units) : f = First /\ n = Size /\ got = m_ResponseData
    BY <1>0, <2>1, <2>4, PlaceOfRead DEF StreamGood, StreamTypes
  <2>6. /\ m_CurrentHeaders = Announced /\ m_ParseOffset = 0 /\ m_RecievedBodyData = Len(got)
        /\ Coming(f, n, got, 2)
    BY <1>2, <2>1, <2>5 DEF StreamGood, Ready
  <2>7. PICK B : B = BytesOf(f, n)
    OBVIOUS
  <2>8. B \in Nat /\ B <= BufferSize /\ Len(got) \in Nat /\ Len(got) <= B /\ BufferSize \in Nat
    <3>1. BufferSize \in Nat
      BY <1>0 DEF StreamTypes
    <3> QED BY <1>0, <2>1, <2>4, <2>5, <2>6, <2>7, <3>1, AnswerFits DEF StreamGood
  <2>9. m_CurrentHeaders.ResponseSize = B
    BY <2>5, <2>6, <2>7 DEF Announced
  <2>10. RemainingData' = B - Len(got)
    <3> DEFINE Remains == IF m_CurrentHeaders.ResponseSize < m_RecievedBodyData
                       THEN BufferSize ELSE m_CurrentHeaders.ResponseSize - m_RecievedBodyData
    <3>1. Remains = B - Len(got)
      BY <2>6, <2>8, <2>9
    <3>2. RemainingData' = Smaller(Remains, BufferSize)
      BY DEF BeginRead
    <3> HIDE DEF Remains
    <3> QED BY <2>8, <3>1, <3>2 DEF Smaller
  <2>11. RecievedData' = got /\ m_ResponseData' = <<>>
    <3>1. /\ RecievedData' = SubSeq(got, 0 + 1, Smaller(0 + BufferSize, Len(got)))
          /\ m_ResponseData' = From(got, Smaller(BufferSize, Len(got)))
      BY <2>5, <2>6 DEF BeginRead
    <3>2. /\ Smaller(BufferSize, Len(got)) = Len(got) /\ SubSeq(got, 1, Len(got)) = got /\ From(got, Len(got)) = <<>>
      BY <2>8, WholeSequence
    <3>3. 0 + 1 = 1 /\ 0 + BufferSize = BufferSize
      BY <2>8
    <3> QED BY <3>1, <3>2, <3>3
  <2>12. Coming(f, n, got, 2)'
    BY <1>2, <2>6, ComingStays
  <2>13. f = First' /\ n = Size' /\ got = RecievedData'
    BY <2>3, <2>5, <2>11
  <2>14. BytesOf(First, Size)' = B
    BY <1>2, <2>7, <2>13 DEF BytesOf
  <2>15. Announced' = Announced
    BY <1>2, <2>3 DEF Announced, BytesOf
  <2>16. Coming(First, Size, RecievedData, 2)'
    BY <2>12, <2>13
  <2>17. Reading'
    BY <1>2, <2>6, <2>10, <2>11, <2>13, <2>14, <2>15, <2>16 DEF Reading
  <2> QED BY <2>2, <2>17 DEF StreamGood
<1> QED BY <1>1, <1>3, <1>4 DEF StreamInv

(* Only a connection that is lost is refused; its read gives nothing.      *)
LEMMA RefuseKeeps ==
  ASSUME StreamInv, RefuseRead
  PROVE  StreamInv'
<1>0. StreamTypes
  BY DEF StreamInv
<1>1. StreamTypes'
  BY RefuseKeepsTypes DEF StreamInv
<1>2. /\ client \in {"reads", "measures"} /\ Refused
      /\ \/ client = "reads" /\ Finish(<<>>)
         \/ client = "measures" /\ client' = "closed"
      /\ UNCHANGED <<FileSize, linked, connected, ranges, sending, wire, BufferSize, m_ResponseData,
                     m_CurrentHeaders, beyond>>
  BY DEF RefuseRead, p_Reset, server, response
<1>3. linked' => connected'
  BY <1>2 DEF StreamInv
<1>4. ASSUME ~ beyond' PROVE StreamGood'
  <2>1. StreamGood
    BY <1>2, <1>4 DEF StreamInv
  <2>2. ~ connected /\ ~ linked
    <3>1. connected => m_CurrentHeaders.StatusCode = 206
      BY <1>2, <2>1 DEF StreamGood, Ready, Announced
    <3>2. ~ connected
      BY <1>2, <3>1 DEF Refused
    <3> QED BY <3>2 DEF StreamInv
  <2>3. CASE client' = "closed"
    BY <2>3 DEF StreamGood, Opening, Asking, Measured, Recieving, Ready, Reading, Opened, Opens
  <2>4. CASE client = "reads" /\ Finish(<<>>)
    <3>1. /\ client' = "open" /\ last' = [last EXCEPT !.data = <<>>]
          /\ m_TotalResourceSize' = m_TotalResourceSize
      BY <2>4 DEF Finish
    <3>2. last = AskedRead /\ m_TotalResourceSize = FileSize
      BY <2>1, <2>4 DEF StreamGood, Asking, Measured
    <3>3. last' = [from |-> m_CurrentPosition, size |-> BufferSize, data |-> <<>>]
      BY <3>1, <3>2 DEF AskedRead
    <3>4. Opening' /\ Asking' /\ Measured' /\ Recieving' /\ Ready' /\ Reading'
      BY <1>2, <3>1, <3>2 DEF Opening, Asking, Measured, Recieving, Ready, Reading, Opens
    <3>5. Given'
      <4>1. m_CurrentPosition \in Nat /\ BufferSize \in Nat /\ FileSize \in Nat
        BY <1>0 DEF StreamTypes
      <4>2. BytesOf(m_CurrentPosition, BufferSize) \in Nat
        BY <4>1, BytesSize
      <4>3. last'.from = m_CurrentPosition /\ last'.size = BufferSize /\ last'.data = <<>>
        BY <3>3
      <4>4. BytesOf(last.from, last.size)' = BytesOf(m_CurrentPosition, BufferSize)
        BY <1>2, <4>3 DEF BytesOf
      <4> QED BY <1>2, <2>2, <4>1, <4>2, <4>3, <4>4 DEF Given
    <3>6. Opened'
      BY <1>2, <2>2, <3>5 DEF Opened
    <3> QED BY <3>4, <3>6 DEF StreamGood
  <2> QED BY <1>2, <2>3, <2>4
<1> QED BY <1>1, <1>3, <1>4 DEF StreamInv

(* A read of a connection that is not lost ends when the whole answer is   *)
(* there.                                                                  *)
LEMMA ReadsNoMore ==
  ASSUME StreamInv, StreamGood, client \in {"reading", "measuring"}, ~ ReadsOn, connected,
         NEW f \in Nat, NEW n \in Nat, NEW got \in Seq(Units),
         f = First, n = Size, got = RecievedData
  PROVE  Len(got) >= BytesOf(f, n)
<1>1. StreamTypes /\ Busy
  BY DEF StreamInv, Busy
<1>2. Coming(f, n, got, 2) /\ RemainingData = BytesOf(f, n) - Len(got)
  BY DEF StreamGood, Reading
<1>3. PICK B : B = BytesOf(f, n)
  OBVIOUS
<1>4. B \in Nat /\ B <= BufferSize /\ Len(got) \in Nat /\ Len(got) <= B /\ BufferSize \in Nat
  <2>1. BufferSize \in Nat
    BY <1>1 DEF StreamTypes
  <2> QED BY <1>1, <1>2, <1>3, <2>1, AnswerFits DEF StreamGood
<1>5. Len(got) >= BufferSize \/ RemainingData = 0
  BY <1>4 DEF ReadsOn
<1> QED BY <1>2, <1>3, <1>4, <1>5

(* The end of a read: what has come is given, and nothing is left over.    *)
LEMMA EndKeeps ==
  ASSUME StreamInv, EndRead
  PROVE  StreamInv'
<1>0. StreamTypes
  BY DEF StreamInv
<1>1. StreamTypes'
  BY EndKeepsTypes DEF StreamInv
<1>2. /\ client \in {"reading", "measuring"} /\ client' = "open" /\ ~ ReadsOn
      /\ UNCHANGED <<FileSize, linked, connected, ranges, sending, wire, BufferSize, m_CurrentHeaders, beyond>>
  BY DEF EndRead, Finish, Measure, server
<1>3. linked' => connected'
  BY <1>2 DEF StreamInv
<1>4. ASSUME ~ beyond' PROVE StreamGood'
  <2>1. StreamGood
    BY <1>2, <1>4 DEF StreamInv
  <2>2. Busy
    BY <1>2 DEF Busy
  <2>3. PICK f \in Nat, n \in Nat, got \in Seq(Units) : f = First /\ n = Size /\ got = RecievedData
    BY <1>0, <2>1, <2>2, PlaceOfRead DEF StreamGood, StreamTypes
  <2>4. Coming(f, n, got, 2) /\ m_ResponseData = <<>> /\ m_CurrentHeaders = Announced
    BY <1>2, <2>1, <2>3 DEF StreamGood, Reading
  <2>5. PICK B : B = BytesOf(f, n)
    OBVIOUS
  <2>6. B \in Nat /\ B <= BufferSize /\ Len(got) \in Nat /\ Len(got) <= B /\ BufferSize \in Nat /\ FileSize \in Nat
    <3>1. BufferSize \in Nat /\ FileSize \in Nat
      BY <1>0 DEF StreamTypes
    <3> QED BY <1>0, <2>1, <2>2, <2>3, <2>4, <2>5, <3>1, AnswerFits DEF StreamGood
  <2>7. ASSUME connected
        PROVE Len(got) = B /\ wire = <<>> /\ (linked => ranges = <<>> /\ Idle)
    <3>1. Len(got) >= BytesOf(f, n)
      BY <1>2, <2>1, <2>3, <2>7, ReadsNoMore
    <3> QED BY <1>0, <2>4, <2>5, <3>1, AllHasCome
  <2>8. /\ m_ResponseData' = <<>>
        /\ Finish(got) \/ Measure
    <3>1. SubSeq(got, 1, Smaller(BufferSize, Len(got))) = got /\ <<>> \o From(got, Len(got)) = <<>>
      BY <2>6, WholeSequence
    <3> QED BY <2>3, <2>4, <3>1 DEF EndRead
  <2>9. Idle' <=> Idle
    BY <1>2 DEF Idle
  <2>10. Opening' /\ Asking' /\ Recieving' /\ Ready' /\ Reading'
    BY <1>2 DEF Opening, Asking, Recieving, Ready, Reading, Opens
  <2>11. Measured' /\ Given'
    <3>1. CASE client = "reading"
      <4>1. Finish(got)
        BY <2>8, <3>1 DEF Measure
      <4>2. last = AskedRead /\ m_TotalResourceSize = FileSize /\ f = m_CurrentPosition /\ n = BufferSize
        BY <2>1, <2>3, <3>1 DEF StreamGood, Asking, Measured, First, Size, Opens
      <4>3. last' = [from |-> f, size |-> n, data |-> got] /\ m_TotalResourceSize' = m_TotalResourceSize
        BY <4>1, <4>2 DEF Finish, AskedRead
      <4>4. \A i \in 1 .. Len(got) : got[i] = <<"byte", f + i - 1>>
        <5> SUFFICES ASSUME NEW i \in 1 .. Len(got) PROVE got[i] = <<"byte", f + i - 1>>
          OBVIOUS
        <5>1. got[i] = UnitAt(f, n, 2 + i)
          BY <2>4 DEF Coming, InStream
        <5>2. 2 + i # 1 /\ 2 + i # 2 /\ f + (2 + i) - 3 = f + i - 1
          BY <2>6
        <5> QED BY <5>1, <5>2 DEF UnitAt
      <4>5. linked => Len(got) = B
        BY <2>7 DEF StreamInv
      <4>6. last'.from = f /\ last'.size = n /\ last'.data = got
        BY <4>3
      <4>7. BytesOf(last.from, last.size)' = B
        BY <1>2, <2>5, <4>6 DEF BytesOf
      <4>8. Given'
        BY <1>2, <2>6, <4>4, <4>5, <4>6, <4>7 DEF Given
      <4> QED BY <1>2, <4>2, <4>3, <4>8 DEF Measured
    <3>2. CASE client = "measuring"
      <4>1. Measure /\ last = NoRead
        BY <2>1, <2>8, <3>2 DEF Finish, StreamGood, Opening, Opens
      <4>2. m_TotalResourceSize' = FileSize
        BY <2>4, <4>1 DEF Measure, Announced
      <4>3. last'.from = 0 /\ last'.size = 0 /\ last'.data = <<>>
        BY <4>1 DEF Measure, NoRead
      <4>4. BytesOf(last.from, last.size)' = 0
        <5>1. BytesOf(last.from, last.size)' = Smaller(0, IF 0 < FileSize THEN FileSize - 0 ELSE 0)
          BY <1>2, <4>3 DEF BytesOf
        <5> QED BY <2>6, <5>1 DEF Smaller
      <4>5. Given'
        BY <4>3, <4>4 DEF Given
      <4> QED BY <1>2, <4>2, <4>5 DEF Measured
    <3> QED BY <1>2, <3>1, <3>2
  <2>12. Opened'
    BY <1>2, <2>7, <2>8, <2>9, <2>11 DEF Opened, StreamInv
  <2> QED BY <2>10, <2>11, <2>12 DEF StreamGood
<1> QED BY <1>1, <1>3, <1>4 DEF StreamInv

(* What the invariant says of the last read is the property.               *)
LEMMA ReadIsTheFile ==
  ASSUME StreamInv
  PROVE  ReadsAreTheFile
<1> SUFFICES ASSUME client = "open", ~ beyond
             PROVE /\ m_TotalResourceSize = FileSize
                   /\ last.data = SubSeq(FileBytes(last.from, last.size), 1, Len(last.data))
                   /\ linked => last.data = FileBytes(last.from, last.size)
  BY DEF ReadsAreTheFile
<1>1. StreamTypes /\ Measured /\ Given
  BY DEF StreamInv, StreamGood, Opened
<1>2. PICK f \in Nat, n \in Nat, data \in Seq(Units) : f = last.from /\ n = last.size /\ data = last.data
  BY <1>1 DEF Given
<1> DEFINE there == FileBytes(f, n)
<1>3. there \in Seq(Units) /\ Len(there) = BytesOf(f, n) /\ Len(data) \in Nat
      /\ \A i \in 1 .. Len(there) : there[i] = <<"byte", f + i - 1>>
  <2>1. FileSize \in Nat /\ n \in Int /\ ~ (n < 0)
    BY <1>1 DEF StreamTypes
  <2>2. /\ FileBytes(f, n) \in Seq(Units)
        /\ Len(FileBytes(f, n)) = IF n < 0 THEN 0 ELSE BytesOf(f, n)
        /\ \A i \in 1 .. Len(FileBytes(f, n)) : FileBytes(f, n)[i] = <<"byte", f + i - 1>>
    BY <2>1, FileBytesAre
  <2> HIDE DEF there
  <2> QED BY <2>1, <2>2 DEF there
<1> HIDE DEF there
<1>4. /\ Len(data) <= Len(there) /\ (linked => Len(data) = Len(there))
      /\ \A i \in 1 .. Len(data) : data[i] = <<"byte", f + i - 1>>
  BY <1>1, <1>2, <1>3 DEF Given
<1>5. Len(data) \in 0 .. Len(there) /\ \A i \in 1 .. Len(data) : data[i] = there[i]
  <2>1. Len(data) \in Nat /\ Len(there) \in Nat /\ Len(data) <= Len(there)
    BY <1>3, <1>4
  <2>2. \A i \in 1 .. Len(data) : i \in 1 .. Len(there)
    BY <2>1
  <2>3. \A i \in 1 .. Len(data) : data[i] = there[i]
    BY <1>3, <1>4, <2>2
  <2> QED BY <2>1, <2>3
<1>6. /\ SubSeq(there, 1, Len(data)) \in Seq(Units) /\ Len(SubSeq(there, 1, Len(data))) = Len(data)
      /\ \A i \in 1 .. Len(data) : SubSeq(there, 1, Len(data))[i] = there[i]
  BY <1>3, <1>5, CutUnits
<1>7. data = SubSeq(there, 1, Len(data))
  <2> DEFINE cut == SubSeq(there, 1, Len(data))
  <2>1. cut \in Seq(Units) /\ Len(cut) = Len(data) /\ \A i \in 1 .. Len(data) : data[i] = cut[i]
    BY <1>5, <1>6
  <2> HIDE DEF cut
  <2>2. data = cut
    BY <2>1
  <2> QED BY <2>2 DEF cut
<1>8. linked => data = there
  <2> SUFFICES ASSUME linked PROVE data = there
    OBVIOUS
  <2>1. /\ data \in Seq(Units) /\ there \in Seq(Units) /\ Len(data) = Len(there)
        /\ \A i \in 1 .. Len(data) : data[i] = there[i]
    BY <1>3, <1>4, <1>5
  <2> QED BY <2>1
<1> QED BY <1>1, <1>2, <1>7, <1>8 DEF Measured, there

(* When the server has no more to send and nothing is on its way, all of   *)
(* the answer has come.                                                    *)
LEMMA NoReadStarves ==
  ASSUME StreamInv
  PROVE  NeverStarved
<1> SUFFICES ASSUME linked, ~ beyond, wire = <<>>, ranges = <<>>, sending = <<>>
             PROVE /\ client \in {"opening", "asks"} => HasHeaders
                   /\ client \in {"reading", "measuring"} => ~ ReadsOn
  BY DEF NeverStarved
<1>1. StreamTypes /\ StreamGood /\ connected
  BY DEF StreamInv
<1>2. ASSUME NEW f \in Nat, NEW n \in Nat, NEW got \in Seq(Units), NEW c \in {0, 2}, Coming(f, n, got, c)
      PROVE c + Len(got) = 2 + BytesOf(f, n)
  <2>1. Sends(f, n, c + Len(got) + Len(wire))
    BY <1>2 DEF Coming, Waits
  <2>2. Len(wire) = 0 /\ Len(got) \in Nat
    OBVIOUS
  <2>3. c + Len(got) + Len(wire) = 2 + BytesOf(f, n)
    BY <2>1 DEF Sends
  <2> QED BY <2>2, <2>3
<1>3. ASSUME client \in {"opening", "asks"} PROVE HasHeaders
  <2>1. Busy
    BY <1>3 DEF Busy
  <2>2. PICK f \in Nat, n \in Nat, got \in Seq(Units) : f = First /\ n = Size /\ got = m_ResponseData
    BY <1>1, <2>1, PlaceOfRead DEF StreamGood, StreamTypes
  <2>3. Coming(f, n, got, 0)
    BY <1>1, <1>3, <2>2 DEF StreamGood, Recieving
  <2>4. BytesOf(f, n) \in Nat
    BY <1>1, BytesSize DEF StreamTypes
  <2>5. 2 \in 1 .. Len(got) /\ 0 + 2 = 2
    <3>1. 0 + Len(got) = 2 + BytesOf(f, n) /\ Len(got) \in Nat
      BY <1>2, <2>3
    <3> QED BY <2>4, <3>1
  <2>6. got[2] = UnitAt(f, n, 0 + 2)
    BY <2>3, <2>5 DEF Coming, InStream
  <2>7. got[2] = HeadersEnd
    BY <2>6 DEF UnitAt
  <2> QED BY <2>2, <2>5, <2>7 DEF HasHeaders
<1>4. ASSUME client \in {"reading", "measuring"} PROVE ~ ReadsOn
  <2>1. Busy
    BY <1>4 DEF Busy
  <2>2. PICK f \in Nat, n \in Nat, got \in Seq(Units) : f = First /\ n = Size /\ got = RecievedData
    BY <1>1, <2>1, PlaceOfRead DEF StreamGood, StreamTypes
  <2>3. Coming(f, n, got, 2) /\ RemainingData = BytesOf(f, n) - Len(got)
    BY <1>1, <1>4, <2>2 DEF StreamGood, Reading
  <2>4. BytesOf(f, n) \in Nat
    BY <1>1, BytesSize DEF StreamTypes
  <2>5. 2 + Len(got) = 2 + BytesOf(f, n) /\ Len(got) \in Nat
    BY <1>2, <2>3
  <2>6. RemainingData = 0
    BY <2>3, <2>4, <2>5
  <2> QED BY <2>6 DEF ReadsOn
<1> QED BY <1>3, <1>4

(* The invariant holds from the first step on.                             *)
LEMMA StreamInvariant == StreamInit /\ [][StreamNext]_streamVars => []StreamInv
<1>1. StreamInit => StreamInv
  <2> SUFFICES ASSUME StreamInit PROVE StreamInv
    OBVIOUS
  <2>1. StreamTypes
    <3>1. FileSize \in Nat /\ linked \in BOOLEAN /\ connected \in BOOLEAN /\ beyond \in BOOLEAN
      BY StreamAssumption DEF StreamInit
    <3>2. ranges = <<>> /\ sending = <<>> /\ wire = <<>> /\ m_ResponseData = <<>> /\ RecievedData = <<>>
          /\ BufferSize = 0 /\ m_CurrentPosition = 0
      BY DEF StreamInit
    <3>3. client \in Clients
      BY DEF StreamInit, Clients
    <3>4. m_ParseOffset \in 0 .. Len(m_ResponseData)
      BY DEF StreamInit
    <3> QED BY <3>1, <3>2, <3>3, <3>4 DEF StreamTypes
  <2>2. StreamGood
    BY DEF StreamInit, StreamGood, Opening, Asking, Measured, Recieving, Ready, Reading, Opened, Opens
  <2> QED BY <2>1, <2>2 DEF StreamInv, StreamInit
<1>2. StreamInv /\ [StreamNext]_streamVars => StreamInv'
  <2> SUFFICES ASSUME StreamInv, [StreamNext]_streamVars PROVE StreamInv'
    OBVIOUS
  <2>1. CASE UNCHANGED streamVars
    <3>1. UNCHANGED <<FileSize, linked, connected, ranges, sending, wire, client, BufferSize, m_ResponseData,
                      m_ParseOffset, m_RecievedBodyData, m_CurrentHeaders, RecievedData, RemainingData,
                      m_CurrentPosition, m_TotalResourceSize, last, beyond>>
      BY <2>1 DEF streamVars, server, response, reading, position, history
    <3>2. StreamTypes' <=> StreamTypes
      BY <3>1 DEF StreamTypes
    <3>3. StreamGood' <=> StreamGood
      <4>1. \A f, n, got, c : Coming(f, n, got, c)' <=> Coming(f, n, got, c)
        BY <3>1 DEF Coming, InStream, Waits, Sends, Idle, UnitAt, BytesOf
      <4>2. First' = First /\ Size' = Size /\ Announced' = Announced /\ Idle' = Idle /\ Given' = Given
        BY <3>1 DEF First, Size, Opens, Announced, BytesOf, Idle, Given
      <4> QED BY <3>1, <4>1, <4>2 DEF StreamGood, Opening, Asking, AskedRead, Measured, Recieving, Ready, Reading, Opened,
                                      Opens, Coming, InStream, Waits, Sends, UnitAt, BytesOf
    <3> QED BY <3>1, <3>2, <3>3 DEF StreamInv
  <2>2. CASE SendHTTPDocument \/ GetNextIntervall \/ BreakLink
    BY <2>2, ServerKeeps DEF ServerStep
  <2>3. CASE SetInputURL
    BY <2>3, OpenKeeps
  <2>4. CASE \E n \in BufferSizes : ReadRange(n)
    BY <2>4, RangeKeeps
  <2>5. CASE \E offset \in -MaxPlace .. MaxPlace, whence \in {"SEEK_SET", "SEEK_CUR", "SEEK_END"} :
                SetInputPosition(offset, whence)
    BY <2>5, SeekKeeps
  <2>6. CASE RecieveHeaders
    BY <2>6, RecieveHeadersKeeps
  <2>7. CASE ParseHeaders
    BY <2>7, ParseKeeps
  <2>8. CASE BeginRead
    BY <2>8, BeginKeeps
  <2>9. CASE RecieveBody
    BY <2>9, RecieveBodyKeeps
  <2>10. CASE EndRead
    BY <2>10, EndKeeps
  <2>11. CASE RefuseRead
    BY <2>11, RefuseKeeps
  <2> QED BY <2>1, <2>2, <2>3, <2>4, <2>5, <2>6, <2>7, <2>8, <2>9, <2>10, <2>11 DEF StreamNext
<1> QED BY <1>1, <1>2, PTL

(* HTTPFileStream::Read gives what the file holds where it stood, however  *)
(* the connection cuts the answer, and all of it unless the connection     *)
(* was lost; the file's size is known (MrPostOGet.cpp: HTTPFileStream,     *)
(* HTTPClient).                                                            *)
THEOREM StreamGivesTheFile == StreamInit /\ [][StreamNext]_streamVars => []ReadsAreTheFile
<1>1. StreamInv => ReadsAreTheFile
  BY ReadIsTheFile
<1> QED BY <1>1, StreamInvariant, PTL

(* No read waits for bytes that nobody will send: as long as the           *)
(* connection is up and nothing is on its way, the headers are there, and  *)
(* a read of the body is over.                                             *)
THEOREM StreamIsAnswered == StreamInit /\ [][StreamNext]_streamVars => []NeverStarved
<1>1. StreamInv => NeverStarved
  BY NoReadStarves
<1> QED BY <1>1, StreamInvariant, PTL
-----------------------------------------------------------------------------
(* A download from a peer: what is written, requested and received are     *)
(* messages, a message is its units.                                       *)
PeerKinds == {"keepalive", "choke", "unchoke", "interested", "not_interested",
              "bitfield", "have", "request", "cancel", "piece"}
PeerMessages == [kind : PeerKinds, piece : Int, begin : Int, length : Int]
PeerUnit == Nat \X Nat

(* Units in the order they are written in, whole messages from the k-th    *)
(* message of w to its last.                                               *)
NextUnit(w, u) == IF u[2] < 2 + ContentSize(w[u[1]]) THEN <<u[1], u[2] + 1>> ELSE <<u[1] + 1, 1>>
InOrder(s, w, k) ==
    /\ s \in Seq(PeerUnit)
    /\ \A i \in 1 .. Len(s) : s[i][1] \in 1 .. Len(w)
    /\ s # <<>> => s[1] = <<k, 1>> /\ s[Len(s)] = <<Len(w), 2 + ContentSize(w[Len(w)])>>
    /\ s = <<>> => k = Len(w) + 1
    /\ \A i \in 1 .. (Len(s) - 1) : s[i + 1] = NextUnit(w, s[i])

(* The content of a message has two units at most.                         *)
LEMMA SizeIsSmall ==
  ASSUME NEW m
  PROVE  ContentSize(m) \in 0 .. 2
  BY DEF ContentSize

(* The units of a message are counted from one.                            *)
LEMMA UnitsAreCounted ==
  ASSUME NEW k \in Nat, NEW m
  PROVE  /\ UnitsOf(k, m) \in Seq(PeerUnit) /\ Len(UnitsOf(k, m)) = 2 + ContentSize(m)
         /\ \A j \in 1 .. (2 + ContentSize(m)) : UnitsOf(k, m)[j] = <<k, j>>
  <1>1. ContentSize(m) \in 0 .. 2
    BY SizeIsSmall
  <1>2. \A j \in 1 .. (2 + ContentSize(m)) : <<k, j>> \in PeerUnit
    BY <1>1 DEF PeerUnit
  <1> QED
    BY <1>1, <1>2 DEF UnitsOf

(* A message that is written behind others.                                *)
LEMMA WrittenBehind ==
  ASSUME NEW w \in Seq(PeerMessages), NEW m \in PeerMessages, NEW s, NEW k \in Nat,
         InOrder(s, w, k)
  PROVE  InOrder(s \o UnitsOf(Len(w) + 1, m), Append(w, m), k)
  <1>. DEFINE n == Len(w) + 1
              t == UnitsOf(n, m)
              v == Append(w, m)
  <1>1. n \in Nat /\ ContentSize(m) \in 0 .. 2 /\ Len(v) = n /\ v[n] = m
        /\ \A i \in 1 .. Len(w) : v[i] = w[i]
    BY SizeIsSmall
  <1>2. t \in Seq(PeerUnit) /\ Len(t) = 2 + ContentSize(m) /\ \A j \in 1 .. (2 + ContentSize(m)) : t[j] = <<n, j>>
    BY <1>1, UnitsAreCounted
  <1>3. s \in Seq(PeerUnit) /\ Len(s) \in Nat
    BY DEF InOrder
  <1>4. /\ s \o t \in Seq(PeerUnit) /\ Len(s \o t) = Len(s) + Len(t)
        /\ \A i \in 1 .. Len(s) : (s \o t)[i] = s[i]
        /\ \A i \in 1 .. Len(t) : (s \o t)[Len(s) + i] = t[i]
    BY <1>2, <1>3, JoinedElements
  <1>. HIDE DEF n, t, v
  <1>5. \A i \in 1 .. Len(s \o t) :
           \/ i \in 1 .. Len(s) /\ (s \o t)[i] = s[i]
           \/ i - Len(s) \in 1 .. (2 + ContentSize(m)) /\ (s \o t)[i] = <<n, i - Len(s)>>
    <2>1. SUFFICES ASSUME NEW i \in 1 .. Len(s \o t), ~(i \in 1 .. Len(s))
                   PROVE  /\ i - Len(s) \in 1 .. (2 + ContentSize(m))
                          /\ (s \o t)[i] = <<n, i - Len(s)>>
      BY <1>4
    <2>2. i - Len(s) \in 1 .. (2 + ContentSize(m)) /\ i = Len(s) + (i - Len(s))
      BY <2>1, <1>1, <1>2, <1>3, <1>4
    <2> QED
      BY <2>2, <1>2, <1>4
  <1>6. \A i \in 1 .. Len(s \o t) : (s \o t)[i][1] \in 1 .. Len(v)
    <2>1. TAKE i \in 1 .. Len(s \o t)
    <2>2. CASE i \in 1 .. Len(s) /\ (s \o t)[i] = s[i]
      <3>1. s[i][1] \in 1 .. Len(w)
        BY <2>2 DEF InOrder
      <3> QED
        BY <3>1, <2>2, <1>1 DEF n
    <2>3. CASE (s \o t)[i] = <<n, i - Len(s)>>
      BY <2>3, <1>1 DEF n
    <2> QED
      BY <2>2, <2>3, <1>5
  <1>7. (s \o t)[1] = <<k, 1>>
    <2>1. CASE s = <<>>
      <3>1. k = n /\ Len(s) = 0 /\ 1 \in 1 .. Len(t)
        BY <2>1, <1>1, <1>2 DEF InOrder, n
      <3>2. (s \o t)[Len(s) + 1] = t[1]
        BY <3>1, <1>4
      <3>3. t[1] = <<n, 1>>
        BY <3>1, <1>2
      <3> QED
        BY <3>1, <3>2, <3>3
    <2>2. CASE s # <<>>
      <3>1. s[1] = <<k, 1>> /\ 1 \in 1 .. Len(s)
        BY <2>2, <1>3 DEF InOrder
      <3> QED
        BY <3>1, <1>4
    <2> QED
      BY <2>1, <2>2
  <1>8. (s \o t)[Len(s \o t)] = <<Len(v), 2 + ContentSize(v[Len(v)])>> /\ s \o t # <<>>
    <2>1. Len(t) \in 1 .. Len(t) /\ Len(t) \in 1 .. (2 + ContentSize(m))
      BY <1>1, <1>2
    <2>2. (s \o t)[Len(s) + Len(t)] = t[Len(t)] /\ t[Len(t)] = <<n, Len(t)>>
      BY <2>1, <1>2, <1>4
    <2>3. Len(s \o t) = Len(s) + Len(t) /\ Len(s \o t) > 0
      BY <2>1, <1>3, <1>4
    <2> QED
      BY <2>2, <2>3, <1>1, <1>2
  <1>9. \A i \in 1 .. (Len(s \o t) - 1) : (s \o t)[i + 1] = NextUnit(v, (s \o t)[i])
    <2>1. TAKE i \in 1 .. (Len(s \o t) - 1)
    <2>2. i \in 1 .. Len(s \o t) /\ i + 1 \in 1 .. Len(s \o t) /\ i \in Int
      BY <1>1, <1>2, <1>3, <1>4
    <2>3. CASE i + 1 \in 1 .. Len(s)
      <3>1. i \in 1 .. (Len(s) - 1) /\ i \in 1 .. Len(s)
        BY <2>2, <2>3, <1>3
      <3>2. s[i + 1] = NextUnit(w, s[i]) /\ s[i][1] \in 1 .. Len(w)
        BY <3>1 DEF InOrder
      <3>3. NextUnit(w, s[i]) = NextUnit(v, s[i])
        BY <3>2, <1>1 DEF NextUnit
      <3> QED
        BY <2>3, <3>1, <3>2, <3>3, <1>4
    <2>4. CASE i = Len(s)
      <3>1. s # <<>> /\ i \in 1 .. Len(s)
        BY <2>4, <2>2, <1>3
      <3>2. s[i] = <<Len(w), 2 + ContentSize(w[Len(w)])>> /\ s[i][1] \in 1 .. Len(w)
        BY <2>4, <3>1 DEF InOrder
      <3>3. Len(w) \in 1 .. Len(w) /\ v[Len(w)] = w[Len(w)]
        BY <3>2, <1>1
      <3>4. NextUnit(v, s[i]) = <<n, 1>>
        <4>1. ContentSize(v[Len(w)]) \in 0 .. 2
          BY SizeIsSmall
        <4> QED
          BY <3>2, <3>3, <4>1 DEF NextUnit, n
      <3>5. (s \o t)[Len(s) + 1] = t[1] /\ t[1] = <<n, 1>>
        <4>1. 1 \in 1 .. Len(t) /\ 1 \in 1 .. (2 + ContentSize(m))
          BY <1>1, <1>2
        <4> QED
          BY <4>1, <1>2, <1>4
      <3> QED
        BY <2>4, <3>1, <3>4, <3>5, <1>4
    <2>5. CASE ~(i \in 1 .. Len(s))
      <3>1. (s \o t)[i] = <<n, i - Len(s)>>
        BY <2>2, <2>5, <1>5
      <3>2. (s \o t)[i + 1] = <<n, i + 1 - Len(s)>> /\ i + 1 - Len(s) \in 1 .. (2 + ContentSize(m))
        <4>1. ~(i + 1 \in 1 .. Len(s))
          BY <2>2, <2>5, <1>3
        <4>2. PICK j \in 1 .. Len(s \o t) : j = i + 1
          BY <2>2
        <4>3. /\ (s \o t)[j] = <<n, j - Len(s)>>
              /\ j - Len(s) \in 1 .. (2 + ContentSize(m))
          BY <4>1, <4>2, <1>5
        <4> QED
          BY <4>2, <4>3
      <3>3. i - Len(s) \in Int /\ i + 1 - Len(s) = (i - Len(s)) + 1
            /\ i - Len(s) < 2 + ContentSize(m)
        BY <2>2, <3>2, <1>1, <1>3
      <3> QED
        BY <3>1, <3>2, <3>3, <1>1 DEF NextUnit
    <2> QED
      BY <2>2, <2>3, <2>4, <2>5, <1>3
  <1> QED
    BY <1>4, <1>6, <1>7, <1>8, <1>9 DEF InOrder, n, t, v
-----------------------------------------------------------------------------
(* What is left of a sequence from which n elements are taken.             *)
LEMMA RestElements ==
  ASSUME NEW S, NEW s \in Seq(S), NEW n \in 0 .. Len(s)
  PROVE  /\ Rest(s, n) \in Seq(S) /\ Len(Rest(s, n)) = Len(s) - n
         /\ \A i \in 1 .. (Len(s) - n) : Rest(s, n)[i] = s[n + i]
  BY DEF Rest

(* What is taken and what is left are the sequence.                        *)
LEMMA TakenAndRest ==
  ASSUME NEW S, NEW s \in Seq(S), NEW n \in 0 .. Len(s)
  PROVE  /\ SubSeq(s, 1, n) \in Seq(S) /\ Len(SubSeq(s, 1, n)) = n
         /\ SubSeq(s, 1, n) \o Rest(s, n) = s
  <1>. DEFINE a == SubSeq(s, 1, n)
              b == Rest(s, n)
  <1>1. a \in Seq(S) /\ Len(a) = n /\ \A i \in 1 .. n : a[i] = s[i]
    OBVIOUS
  <1>2. b \in Seq(S) /\ Len(b) = Len(s) - n /\ \A i \in 1 .. (Len(s) - n) : b[i] = s[n + i]
    BY RestElements
  <1>. HIDE DEF a, b
  <1>3. /\ a \o b \in Seq(S) /\ Len(a \o b) = Len(a) + Len(b)
        /\ \A i \in 1 .. Len(a) : (a \o b)[i] = a[i]
        /\ \A i \in 1 .. Len(b) : (a \o b)[Len(a) + i] = b[i]
    BY <1>1, <1>2, JoinedElements
  <1>4. Len(a \o b) = Len(s) /\ Len(s) \in Nat
    BY <1>1, <1>2, <1>3
  <1>5. \A i \in 1 .. Len(s) : (a \o b)[i] = s[i]
    <2>1. TAKE i \in 1 .. Len(s)
    <2>2. CASE i \in 1 .. n
      BY <2>2, <1>1, <1>3
    <2>3. CASE ~(i \in 1 .. n)
      <3>1. i - n \in 1 .. (Len(s) - n) /\ n + (i - n) = i
        BY <2>3, <1>4
      <3>2. (a \o b)[n + (i - n)] = b[i - n] /\ b[i - n] = s[n + (i - n)]
        BY <3>1, <1>1, <1>2, <1>3
      <3> QED
        BY <3>1, <3>2
    <2> QED
      BY <2>2, <2>3
  <1>6. a \o b = s
    <2>. DEFINE c == a \o b
    <2>1. c \in Seq(S) /\ Len(c) = Len(s) /\ \A i \in 1 .. Len(s) : c[i] = s[i]
      BY <1>3, <1>4, <1>5
    <2>. HIDE DEF c
    <2>2. c = s
      BY <2>1
    <2> QED
      BY <2>2 DEF c
  <1> QED
    BY <1>1, <1>6 DEF a, b

(* Three sequences one behind the other.                                   *)
LEMMA JoinedThree ==
  ASSUME NEW S, NEW a \in Seq(S), NEW b \in Seq(S), NEW c \in Seq(S)
  PROVE  (a \o b) \o c = a \o (b \o c)
  OBVIOUS

(* What is left behind the first of two sequences is the second.           *)
LEMMA RestOfJoined ==
  ASSUME NEW S, NEW a \in Seq(S), NEW b \in Seq(S)
  PROVE  Rest(a \o b, Len(a)) = b
  BY DEF Rest

(* Units in their order begin with a whole message, and go on with the     *)
(* next.                                                                   *)
LEMMA FirstWholeMessage ==
  ASSUME NEW w \in Seq(PeerMessages), NEW k \in Nat, NEW s, InOrder(s, w, k), s # <<>>
  PROVE  /\ k \in 1 .. Len(w) /\ 2 + ContentSize(w[k]) \in 1 .. Len(s)
         /\ \A j \in 1 .. (2 + ContentSize(w[k])) : s[j] = <<k, j>>
         /\ InOrder(Rest(s, 2 + ContentSize(w[k])), w, k + 1)
  <1>. DEFINE size == ContentSize(w[k])
              n == 2 + size
              r == Rest(s, n)
  <1>1. size \in 0 .. 2 /\ n \in 2 .. 4
    BY SizeIsSmall
  <1>2. s \in Seq(PeerUnit) /\ Len(s) \in Nat /\ 1 \in 1 .. Len(s)
    BY DEF InOrder
  <1>3. s[1] = <<k, 1>> /\ k \in 1 .. Len(w)
    <2>1. s[1] = <<k, 1>> /\ s[1][1] \in 1 .. Len(w)
      BY <1>2 DEF InOrder
    <2> QED
      BY <2>1
  <1>4. s[Len(s)] = <<Len(w), 2 + ContentSize(w[Len(w)])>>
    BY DEF InOrder
  <1>5. ASSUME NEW j \in 1 .. (1 + size), j \in 1 .. Len(s), s[j] = <<k, j>>
        PROVE  j + 1 \in 1 .. Len(s) /\ s[j + 1] = <<k, j + 1>>
    <2>1. j # Len(s)
      <3>1. SUFFICES ASSUME j = Len(s)
                     PROVE  FALSE
        OBVIOUS
      <3>2. k = Len(w) /\ j = 2 + ContentSize(w[Len(w)])
        BY <3>1, <1>4, <1>5
      <3> QED
        BY <3>2, <1>1
    <2>2. j \in 1 .. (Len(s) - 1) /\ j + 1 \in 1 .. Len(s)
      BY <2>1, <1>2, <1>5
    <2>3. s[j + 1] = NextUnit(w, s[j])
      BY <2>2 DEF InOrder
    <2>4. NextUnit(w, <<k, j>>) = <<k, j + 1>>
      BY <1>1 DEF NextUnit
    <2> QED
      BY <2>2, <2>3, <2>4, <1>5
  <1>. HIDE DEF size
  <1>6. 2 \in 1 .. Len(s) /\ s[2] = <<k, 2>>
    <2>1. 1 \in 1 .. (1 + size)
      BY <1>1
    <2> QED
      BY <2>1, <1>2, <1>3, <1>5
  <1>7. size >= 1 => 3 \in 1 .. Len(s) /\ s[3] = <<k, 3>>
    <2>1. size >= 1 => 2 \in 1 .. (1 + size)
      BY <1>1
    <2> QED
      BY <2>1, <1>5, <1>6
  <1>8. size = 2 => 4 \in 1 .. Len(s) /\ s[4] = <<k, 4>>
    <2>1. size = 2 => 3 \in 1 .. (1 + size) /\ size >= 1
      BY <1>1
    <2> QED
      BY <2>1, <1>5, <1>7
  <1>9. n \in 1 .. Len(s) /\ \A j \in 1 .. n : s[j] = <<k, j>>
    <2>1. CASE size = 0
      BY <2>1, <1>2, <1>3, <1>6
    <2>2. CASE size = 1
      BY <2>2, <1>2, <1>3, <1>6, <1>7
    <2>3. CASE size = 2
      BY <2>3, <1>2, <1>3, <1>6, <1>7, <1>8
    <2> QED
      BY <2>1, <2>2, <2>3, <1>1
  <1>10. s[n] = <<k, n>> /\ n \in 0 .. Len(s)
    BY <1>1, <1>2, <1>9
  <1>. HIDE DEF n
  <1>11. /\ r \in Seq(PeerUnit) /\ Len(r) = Len(s) - n
         /\ \A i \in 1 .. (Len(s) - n) : r[i] = s[n + i]
    BY <1>2, <1>10, RestElements
  <1>. HIDE DEF r
  <1>12. InOrder(r, w, k + 1)
    <2>1. \A i \in 1 .. Len(r) : r[i][1] \in 1 .. Len(w)
      <3>1. TAKE i \in 1 .. Len(r)
      <3>2. i \in 1 .. (Len(s) - n) /\ n + i \in 1 .. Len(s)
        BY <1>2, <1>10, <1>11
      <3>3. s[n + i][1] \in 1 .. Len(w)
        BY <3>2 DEF InOrder
      <3> QED
        BY <3>2, <3>3, <1>11
    <2>2. CASE r = <<>>
      <3>1. Len(s) = n
        BY <2>2, <1>2, <1>10, <1>11
      <3>2. k = Len(w)
        BY <3>1, <1>4, <1>10
      <3>3. Len(r) = 0
        BY <2>2
      <3> QED
        BY <3>2, <3>3, <2>1, <2>2, <1>11 DEF InOrder
    <2>3. CASE r # <<>>
      <3>1. Len(r) \in Nat /\ Len(r) > 0
        BY <2>3, <1>11
      <3>2. 1 \in 1 .. (Len(s) - n) /\ n \in 1 .. (Len(s) - 1) /\ n + 1 \in 1 .. Len(s)
            /\ Len(r) \in 1 .. (Len(s) - n) /\ n + Len(r) = Len(s)
        BY <3>1, <1>2, <1>9, <1>10, <1>11
      <3>3. r[1] = <<k + 1, 1>>
        <4>1. s[n + 1] = NextUnit(w, s[n])
          BY <3>2 DEF InOrder
        <4>2. NextUnit(w, <<k, n>>) = <<k + 1, 1>>
          BY <1>1 DEF NextUnit, n, size
        <4> QED
          BY <4>1, <4>2, <3>2, <1>10, <1>11
      <3>4. r[Len(r)] = <<Len(w), 2 + ContentSize(w[Len(w)])>>
        BY <3>2, <1>4, <1>11
      <3>5. \A i \in 1 .. (Len(r) - 1) : r[i + 1] = NextUnit(w, r[i])
        <4>1. TAKE i \in 1 .. (Len(r) - 1)
        <4>2. /\ i \in 1 .. (Len(s) - n) /\ i + 1 \in 1 .. (Len(s) - n)
              /\ n + i \in 1 .. (Len(s) - 1) /\ (n + i) + 1 = n + (i + 1)
          BY <1>2, <1>10, <1>11
        <4>3. s[(n + i) + 1] = NextUnit(w, s[n + i])
          BY <4>2 DEF InOrder
        <4>4. PICK j \in 1 .. (Len(s) - n) : j = i + 1
          BY <4>2
        <4>5. r[j] = s[n + j] /\ r[i] = s[n + i]
          BY <4>2, <1>11
        <4> QED
          BY <4>2, <4>3, <4>4, <4>5
      <3> QED
        BY <3>3, <3>4, <3>5, <2>1, <2>3, <1>11 DEF InOrder
    <2> QED
      BY <2>2, <2>3
  <1> QED
    BY <1>3, <1>9, <1>12 DEF r, n, size

(* A message that came whole, and what came or comes behind it.            *)
LEMMA MessageTaken ==
  ASSUME NEW w \in Seq(PeerMessages), NEW k \in Nat, NEW came \in Seq(PeerUnit),
         NEW rest \in Seq(PeerUnit), InOrder(came \o rest, w, k), came # <<>>
  PROVE  /\ k \in 1 .. Len(w) /\ came[1] = <<k, 1>>
         /\ Len(came) >= 2 => came[2] = <<k, 2>>
         /\ Len(came) = ContentSize(w[k]) + 2
               => came = UnitsOf(k, w[k]) /\ InOrder(rest, w, k + 1)
  <1>. DEFINE s == came \o rest
  <1>1. /\ s \in Seq(PeerUnit) /\ Len(s) = Len(came) + Len(rest)
        /\ \A i \in 1 .. Len(came) : s[i] = came[i]
    BY JoinedElements
  <1>2. Len(came) \in Nat /\ 1 \in 1 .. Len(came) /\ Len(rest) \in Nat
    OBVIOUS
  <1>3. s # <<>> /\ InOrder(s, w, k) /\ Rest(s, Len(came)) = rest
    <2>1. Len(s) # 0
      BY <1>1, <1>2
    <2> QED
      BY <2>1, RestOfJoined
  <1>. HIDE DEF s
  <1>4. /\ k \in 1 .. Len(w) /\ 2 + ContentSize(w[k]) \in 1 .. Len(s)
        /\ \A j \in 1 .. (2 + ContentSize(w[k])) : s[j] = <<k, j>>
        /\ InOrder(Rest(s, 2 + ContentSize(w[k])), w, k + 1)
    BY <1>3, FirstWholeMessage
  <1>5. ContentSize(w[k]) \in 0 .. 2
    BY SizeIsSmall
  <1>6. came[1] = <<k, 1>>
    <2>1. 1 \in 1 .. (2 + ContentSize(w[k]))
      BY <1>5
    <2> QED
      BY <2>1, <1>1, <1>2, <1>4
  <1>8. ASSUME Len(came) >= 2 PROVE came[2] = <<k, 2>>
    <2>1. 2 \in 1 .. (2 + ContentSize(w[k])) /\ 2 \in 1 .. Len(came)
      BY <1>2, <1>5, <1>8
    <2> QED
      BY <2>1, <1>1, <1>4
  <1>7. ASSUME Len(came) = ContentSize(w[k]) + 2
        PROVE  came = UnitsOf(k, w[k]) /\ InOrder(rest, w, k + 1)
    <2>1. Len(came) = 2 + ContentSize(w[k])
      BY <1>5, <1>7
    <2>2. /\ UnitsOf(k, w[k]) \in Seq(PeerUnit) /\ Len(UnitsOf(k, w[k])) = 2 + ContentSize(w[k])
          /\ \A j \in 1 .. (2 + ContentSize(w[k])) : UnitsOf(k, w[k])[j] = <<k, j>>
      BY UnitsAreCounted
    <2>3. \A j \in 1 .. Len(came) : came[j] = UnitsOf(k, w[k])[j]
      BY <2>1, <2>2, <1>1, <1>4
    <2>4. came = UnitsOf(k, w[k])
      BY <2>1, <2>2, <2>3
    <2> QED
      BY <2>1, <2>4, <1>3, <1>4
  <1> QED
    BY <1>4, <1>6, <1>7, <1>8
-----------------------------------------------------------------------------
(* What is received is kept as units; a piece's message is an answer to a  *)
(* request: of a piece of the torrent, and for the first piece within its  *)
(* size, as long as a request may be or up to the end.                     *)
PeerStreamType ==
    /\ IsConnected \in BOOLEAN /\ written \in Seq(PeerMessages)
    /\ OnTheWay \in Seq(PeerUnit) /\ NewMessageData \in Seq(PeerUnit) /\ CurrentMessage \in Seq(PeerUnit)
    /\ CurrentMessageSize \in Int /\ handled \in Seq(Seq(PeerUnit))

Answers(torrent) ==
    {m \in PeerMessages :
        /\ m.piece \in 1 .. Len(torrent)
        /\ m.piece = 1 => /\ m.begin < torrent[1]
                          /\ m.length = MaxRequestBytes \/ m.begin + m.length = torrent[1]}
PieceStates == [PieceIndex : Int, PieceSize : Nat, CurrentOffset : Int, Completed : BOOLEAN]
DownloadType ==
    /\ pieces \in Seq(Nat)
    /\ RecievedPieceMessages \in Seq(Answers(pieces)) /\ requested \in Seq(Answers(pieces))
    /\ \A i \in 1 .. Len(written) : written[i].kind = "piece" => written[i] \in Answers(pieces)
    /\ answered \in Nat /\ CurrentPiece \in Nat \ {0}
    /\ DownloadState \in Seq(PieceStates) /\ AssignedPieces \in Seq(PieceStates)
    /\ PieceData \in Seq(Seq(PeerMessages)) /\ FinishedAssignmentsWaiting \in Nat

(* The messages that were handled are the first ones; what is kept of the  *)
(* next one, what is received behind it and what is to come are the        *)
(* others.  Until the threads run, what is received is what has come       *)
(* behind the handshakes.                                                  *)
HandledInOrder ==
    /\ handled # <<>> => Len(handled) \in 1 .. Len(written)
    /\ \A k \in 1 .. Len(handled) : handled[k] = UnitsOf(k, written[k])
ConnectingToPeer ==
    /\ receive = "none" /\ handled = <<>>
    /\ CurrentMessage = <<>> /\ CurrentMessageSize = -1
    /\ IF loop = "handshakes" THEN InOrder(NewMessageData \o OnTheWay, written, 1)
       ELSE ~ IsConnected /\ InOrder(NewMessageData, written, 1)
Partial(size, came, w, k) ==
    IF size = -1 THEN came = <<>>
    ELSE k \in 1 .. Len(w) /\ size = ContentSize(w[k]) /\ Len(came) < size + 2 /\ came # <<>>
TransferringFromPeer ==
    /\ receive # "none" /\ loop \notin {"connects", "handshakes"}
    /\ InOrder(CurrentMessage \o (NewMessageData \o OnTheWay), written, Len(handled) + 1)
    /\ Partial(CurrentMessageSize, CurrentMessage, written, Len(handled) + 1)
PeerFlow == ConnectingToPeer \/ TransferringFromPeer \/ loop = "undefined"

(* Before a piece is assigned nothing is requested.  From then on the data *)
(* of the first piece are its blocks in their order, and an assignment is  *)
(* finished only when the last of them is there.                           *)
Unassigned ==
    /\ DownloadState = <<>> /\ AssignedPieces = <<>> /\ PieceData = <<>>
    /\ RecievedPieceMessages = <<>> /\ requested = <<>> /\ FinishedAssignmentsWaiting = 0
    /\ \A i \in 1 .. Len(written) : written[i].kind # "piece"
FirstPiece(d, data, size) ==
    /\ \A k \in 1 .. Len(data) : data[k].begin = (k - 1) * MaxRequestBytes
    /\ d.CurrentOffset = Len(data) * MaxRequestBytes \/ d.CurrentOffset = size
    /\ d.Completed => d.CurrentOffset = size
Assigned ==
    /\ Len(DownloadState) = Len(pieces) /\ Len(AssignedPieces) = Len(pieces)
    /\ \A i \in 1 .. Len(pieces) : /\ DownloadState[i].PieceIndex = i
                                   /\ DownloadState[i].PieceSize = pieces[i]
    /\ pieces # <<>> => PieceData # <<>> /\ FirstPiece(DownloadState[1], PieceData[1], pieces[1])
    /\ FinishedAssignmentsWaiting > 0 => pieces # <<>> /\ DownloadState[1].Completed
    /\ loop = "transfers" => FinishedAssignmentsWaiting > 0
AssignmentPhase ==
    \/ loop \in {"connects", "handshakes", "transfers", "resets", "assigns"} /\ Unassigned
    \/ loop \in {"stores", "notifies", "waits", "transfers"} /\ Assigned
    \/ loop = "undefined" /\ (PieceData = <<>> \/ Assigned)

PeerInv == PeerStreamType /\ DownloadType /\ HandledInOrder /\ PeerFlow /\ AssignmentPhase
-----------------------------------------------------------------------------
(* Units in three parts.                                                   *)
LEMMA JoinedThreeUnits ==
  ASSUME NEW a \in Seq(PeerUnit), NEW b \in Seq(PeerUnit), NEW c \in Seq(PeerUnit)
  PROVE  (a \o b) \o c = a \o (b \o c)
  BY JoinedThree

(* A message the peer writes is one that can be received.                  *)
LEMMA MessageWritten ==
  ASSUME PeerStreamType, HandledInOrder, PeerFlow, IsConnected, loop # "undefined",
         NEW m \in PeerMessages, Writes(m), UNCHANGED <<IsConnected, parse, loop>>
  PROVE  /\ PeerStreamType' /\ HandledInOrder' /\ PeerFlow'
         /\ \A i \in 1 .. Len(written') :
               \/ written'[i] = m
               \/ i \in 1 .. Len(written) /\ written'[i] = written[i]
  <1>. DEFINE n == Len(written) + 1
              t == UnitsOf(n, m)
  <1>1. /\ written' \in Seq(PeerMessages) /\ Len(written') = n /\ n \in Nat
        /\ \A i \in 1 .. Len(written) : written'[i] = written[i]
        /\ written'[n] = m /\ written' = Append(written, m) /\ OnTheWay' = OnTheWay \o t
    BY DEF Writes, PeerStreamType
  <1>2. t \in Seq(PeerUnit)
    BY <1>1, UnitsAreCounted
  <1>. HIDE DEF n, t
  <1>9. /\ NewMessageData \in Seq(PeerUnit) /\ OnTheWay \in Seq(PeerUnit)
        /\ CurrentMessage \in Seq(PeerUnit)
    BY DEF PeerStreamType
  <1>3. IsConnected' = IsConnected /\ loop' = loop /\ handled' = handled /\ receive' = receive
        /\ NewMessageData' = NewMessageData /\ CurrentMessage' = CurrentMessage
        /\ CurrentMessageSize' = CurrentMessageSize
    BY DEF parse
  <1>4. PeerStreamType'
    <2>1. OnTheWay' \in Seq(PeerUnit)
      BY <1>1, <1>2, JoinedElements DEF PeerStreamType
    <2> QED
      BY <2>1, <1>1, <1>3 DEF PeerStreamType
  <1>5. \A i \in 1 .. Len(written) : i \in 1 .. Len(written') /\ i # n
    BY <1>1 DEF n
  <1>6. HandledInOrder'
    <2>1. \A k \in 1 .. Len(handled) : k \in 1 .. Len(written)
      BY DEF HandledInOrder, PeerStreamType
    <2>2. \A k \in 1 .. Len(handled) : handled[k] = UnitsOf(k, written'[k])
      BY <1>1, <2>1 DEF HandledInOrder
    <2>3. handled # <<>> => Len(handled) \in 1 .. Len(written')
      BY <1>1 DEF HandledInOrder, n
    <2> QED
      BY <2>2, <2>3, <1>3 DEF HandledInOrder
  <1>7. PeerFlow'
    <2>1. CASE ConnectingToPeer
      <3>0. loop = "handshakes"
        BY <2>1 DEF ConnectingToPeer
      <3>1. NewMessageData \o OnTheWay' = (NewMessageData \o OnTheWay) \o t
        <4>1. NewMessageData \o (OnTheWay \o t) = (NewMessageData \o OnTheWay) \o t
          BY <1>2, <1>9, JoinedThreeUnits
        <4> QED
          BY <4>1, <1>1
      <3>2. InOrder((NewMessageData \o OnTheWay) \o t, Append(written, m), 1)
        <4>1. InOrder(NewMessageData \o OnTheWay, written, 1) /\ written \in Seq(PeerMessages)
          BY <2>1, <3>0 DEF ConnectingToPeer, PeerStreamType
        <4> QED
          BY <4>1, WrittenBehind DEF t, n
      <3>3. InOrder(NewMessageData' \o OnTheWay', written', 1)
        BY <3>1, <3>2, <1>1, <1>3
      <3>4. ConnectingToPeer'
        BY <2>1, <3>0, <3>3, <1>3 DEF ConnectingToPeer
      <3> QED
        BY <3>4 DEF PeerFlow
    <2>2. CASE TransferringFromPeer
      <3>. DEFINE d == NewMessageData \o OnTheWay
                  s == CurrentMessage \o d
                  k == Len(handled) + 1
      <3>1. d \in Seq(PeerUnit) /\ s \in Seq(PeerUnit) /\ k \in Nat
        BY JoinedElements DEF PeerStreamType
      <3>2. NewMessageData \o OnTheWay' = d \o t
        <4>1. NewMessageData \o (OnTheWay \o t) = (NewMessageData \o OnTheWay) \o t
          BY <1>2, <1>9, JoinedThreeUnits
        <4> QED
          BY <4>1, <1>1
      <3>3. CurrentMessage \o (d \o t) = s \o t
        <4>. HIDE DEF d
        <4> QED
          BY <3>1, <1>2, <1>9, JoinedThreeUnits
      <3>4. InOrder(s, written, k)
        BY <2>2 DEF TransferringFromPeer
      <3>. HIDE DEF d, s, k
      <3>5. InOrder(s \o t, Append(written, m), k)
        <4>1. written \in Seq(PeerMessages)
          BY DEF PeerStreamType
        <4> QED
          BY <4>1, <3>1, <3>4, WrittenBehind DEF t, n
      <3>6. InOrder(CurrentMessage' \o (NewMessageData' \o OnTheWay'), written', k)
        BY <3>2, <3>3, <3>5, <1>1, <1>3
      <3>7. Partial(CurrentMessageSize, CurrentMessage, written', k)
        <4>1. Partial(CurrentMessageSize, CurrentMessage, written, k)
          BY <2>2 DEF TransferringFromPeer, k
        <4>2. k \in 1 .. Len(written) => written'[k] = written[k] /\ k \in 1 .. Len(written')
          BY <1>1, <1>5
        <4> QED
          BY <4>1, <4>2 DEF Partial
      <3>8. TransferringFromPeer'
        BY <2>2, <3>6, <3>7, <1>3 DEF TransferringFromPeer, k
      <3> QED
        BY <3>8 DEF PeerFlow
    <2> QED
      BY <2>1, <2>2 DEF PeerFlow
  <1>8. \A i \in 1 .. Len(written') : i = n \/ i \in 1 .. Len(written)
    BY <1>1 DEF n
  <1>10. \A i \in 1 .. Len(written') :
            \/ written'[i] = m
            \/ i \in 1 .. Len(written) /\ written'[i] = written[i]
    BY <1>1, <1>8
  <1> QED
    BY <1>4, <1>6, <1>7, <1>10

(* A message that is given to p_HandleMessage is the next one, and is     *)
(* whole; as long as it is not whole it is kept.                           *)
LEMMA MessageEndInOrder ==
  ASSUME PeerStreamType, HandledInOrder, receive # "none", loop \notin {"connects", "handshakes"},
         NEW k \in Nat, k = Len(handled) + 1,
         NEW size \in 0 .. 2, k \in 1 .. Len(written) => size = ContentSize(written[k]),
         NEW came \in Seq(PeerUnit), came # <<>>, Len(came) <= size + 2,
         NEW rest \in Seq(PeerUnit), OnTheWay' \in Seq(PeerUnit),
         InOrder(came \o (rest \o OnTheWay'), written, k),
         MessageEnd(size, came, rest), UNCHANGED <<IsConnected, written, loop>>
  PROVE  /\ PeerStreamType' /\ HandledInOrder' /\ TransferringFromPeer'
         /\ \/ UNCHANGED RecievedPieceMessages
            \/ /\ k \in 1 .. Len(written) /\ written[k].kind = "piece"
               /\ RecievedPieceMessages' = Append(RecievedPieceMessages, written[k])
  <1>1. written \in Seq(PeerMessages) /\ rest \o OnTheWay' \in Seq(PeerUnit)
    BY JoinedElements DEF PeerStreamType
  <1>2. /\ k \in 1 .. Len(written) /\ came[1] = <<k, 1>>
        /\ Len(came) = ContentSize(written[k]) + 2
               => came = UnitsOf(k, written[k]) /\ InOrder(rest \o OnTheWay', written, k + 1)
    <2>. DEFINE r == rest \o OnTheWay'
    <2>. HIDE DEF r
    <2>1. r \in Seq(PeerUnit) /\ InOrder(came \o r, written, k)
      BY <1>1 DEF r
    <2>2. /\ k \in 1 .. Len(written) /\ came[1] = <<k, 1>>
          /\ Len(came) = ContentSize(written[k]) + 2
                 => came = UnitsOf(k, written[k]) /\ InOrder(r, written, k + 1)
      BY <2>1, <1>1, MessageTaken
    <2> QED
      BY <2>2 DEF r
  <1>3. size = ContentSize(written[k])
    BY <1>2
  <1>4. CASE Len(came) # size + 2
    <2>1. /\ CurrentMessageSize' = size /\ CurrentMessage' = came
          /\ NewMessageData' = rest /\ receive' = "loop"
          /\ UNCHANGED <<handled, RecievedPieceMessages>>
      BY <1>4 DEF MessageEnd
    <2>2. Len(came) < size + 2 /\ size # -1
      BY <1>4
    <2>3. Partial(CurrentMessageSize', CurrentMessage', written', Len(handled') + 1)
      BY <2>1, <2>2, <1>2, <1>3 DEF Partial
    <2>4. PeerStreamType' /\ HandledInOrder'
      BY <2>1 DEF PeerStreamType, HandledInOrder
    <2> QED
      BY <2>1, <2>3, <2>4 DEF TransferringFromPeer
  <1>5. CASE Len(came) = size + 2
    <2>1. /\ CurrentMessageSize' = -1 /\ CurrentMessage' = <<>> /\ NewMessageData' = rest
          /\ handled' = Append(handled, came) /\ p_HandleMessage(written[k])
      <3>1. came = UnitsOf(k, written[k]) /\ came[1][1] = k
        BY <1>2, <1>3, <1>5
      <3>2. Read(came) = {written[k]}
        BY <3>1 DEF Read
      <3>3. /\ CurrentMessageSize' = -1 /\ CurrentMessage' = <<>> /\ NewMessageData' = rest
            /\ handled' = Append(handled, came) /\ \E m \in Read(came) : p_HandleMessage(m)
        BY <1>5 DEF MessageEnd
      <3> QED
        BY <3>2, <3>3
    <2>2. came = UnitsOf(k, written[k]) /\ InOrder(rest \o OnTheWay', written, k + 1)
      BY <1>2, <1>3, <1>5
    <2>3. /\ Len(handled') = Len(handled) + 1 /\ handled' \in Seq(Seq(PeerUnit))
          /\ \A i \in 1 .. Len(handled) : handled'[i] = handled[i]
          /\ handled'[Len(handled) + 1] = came /\ Len(handled) \in Nat
      BY <2>1 DEF PeerStreamType
    <2>4. PeerStreamType'
      <3>1. CurrentMessage' \in Seq(PeerUnit) /\ CurrentMessageSize' \in Int
        BY <2>1
      <3> QED
        BY <2>1, <2>3, <3>1 DEF PeerStreamType
    <2>5. HandledInOrder'
      <3>1. \A i \in 1 .. Len(handled') : handled'[i] = UnitsOf(i, written[i])
        <4>1. TAKE i \in 1 .. Len(handled')
        <4>2. CASE i \in 1 .. Len(handled)
          BY <4>2, <2>3 DEF HandledInOrder
        <4>3. CASE i = Len(handled) + 1
          <5>1. i = k
            BY <4>3, <2>3
          <5> QED
            BY <5>1, <4>3, <2>2, <2>3
        <4> QED
          BY <4>2, <4>3, <2>3
      <3>2. Len(handled') = k
        BY <2>3
      <3> QED
        BY <3>1, <3>2, <1>2 DEF HandledInOrder
    <2>6. TransferringFromPeer'
      <3>1. k + 1 = Len(handled') + 1
        BY <2>3
      <3>2. <<>> \o (rest \o OnTheWay') = rest \o OnTheWay'
        BY <1>1
      <3>3. InOrder(CurrentMessage' \o (NewMessageData' \o OnTheWay'), written', Len(handled') + 1)
        BY <2>1, <2>2, <3>1, <3>2
      <3>4. receive' # "none"
        BY <2>1 DEF p_HandleMessage
      <3> QED
        BY <2>1, <3>3, <3>4 DEF TransferringFromPeer, Partial
    <2>7. \/ UNCHANGED RecievedPieceMessages
          \/ /\ written[k].kind = "piece"
             /\ RecievedPieceMessages' = Append(RecievedPieceMessages, written[k])
      BY <2>1 DEF p_HandleMessage
    <2> QED
      BY <2>4, <2>5, <2>6, <2>7, <1>2
  <1> QED
    BY <1>4, <1>5

(* What is received of the units that come, moves them and changes no      *)
(* order.                                                                  *)
LEMMA UnitsMoved ==
  ASSUME NEW a \in Seq(PeerUnit), NEW b \in Seq(PeerUnit), NEW n \in 0 .. Len(b)
  PROVE  /\ a \o SubSeq(b, 1, n) \in Seq(PeerUnit) /\ Rest(b, n) \in Seq(PeerUnit)
         /\ (a \o SubSeq(b, 1, n)) \o Rest(b, n) = a \o b
  <1>. DEFINE x == SubSeq(b, 1, n)
              y == Rest(b, n)
  <1>1. x \in Seq(PeerUnit) /\ y \in Seq(PeerUnit)
    BY TakenAndRest, RestElements
  <1>2. x \o y = b
    BY TakenAndRest
  <1>. HIDE DEF x, y
  <1>3. a \o x \in Seq(PeerUnit)
    BY <1>1, JoinedElements
  <1>4. (a \o x) \o y = a \o (x \o y)
    BY <1>1, JoinedThreeUnits
  <1> QED
    BY <1>1, <1>2, <1>3, <1>4 DEF x, y

(* The bytes of one message at most are taken from what was received.      *)
LEMMA ParsedInOrder ==
  ASSUME PeerStreamType, HandledInOrder, receive # "none", loop \notin {"connects", "handshakes"},
         NEW k \in Nat, k = Len(handled) + 1,
         NEW size \in 0 .. 2, k \in 1 .. Len(written) => size = ContentSize(written[k]),
         NEW begun \in Seq(PeerUnit), Len(begun) < size + 2,
         NEW data \in Seq(PeerUnit), data # <<>> \/ begun # <<>>, OnTheWay' \in Seq(PeerUnit),
         InOrder(begun \o (data \o OnTheWay'), written, k),
         NEW n, n = size + 2 - Len(begun),
         MessageEnd(size, begun \o SubSeq(data, 1, IF n > Len(data) THEN Len(data) ELSE n),
                    Rest(data, n)),
         UNCHANGED <<IsConnected, written, loop>>
  PROVE  /\ PeerStreamType' /\ HandledInOrder' /\ TransferringFromPeer'
         /\ \/ UNCHANGED RecievedPieceMessages
            \/ /\ k \in 1 .. Len(written) /\ written[k].kind = "piece"
               /\ RecievedPieceMessages' = Append(RecievedPieceMessages, written[k])
  <1>1. PICK x : x = OnTheWay'
    OBVIOUS
  <1>2. PICK j : j = (IF n > Len(data) THEN Len(data) ELSE n)
    OBVIOUS
  <1>. DEFINE taken == SubSeq(data, 1, j)
              rest == Rest(data, n)
              came == begun \o taken
  <1>3. Len(data) \in Nat /\ Len(begun) \in Nat /\ (Len(data) # 0 \/ Len(begun) # 0)
    OBVIOUS
  <1>4. j \in 0 .. Len(data) /\ j <= n /\ (j > 0 \/ Len(begun) > 0)
    BY <1>2, <1>3
  <1>5. rest = Rest(data, j)
    <2>1. CASE n > Len(data)
      <3>1. rest = <<>> /\ Rest(data, Len(data)) = <<>> /\ j = Len(data)
        BY <2>1, <1>2, <1>3 DEF Rest
      <3> QED
        BY <3>1
    <2>2. CASE ~(n > Len(data))
      BY <2>2, <1>2
    <2> QED
      BY <2>1, <2>2
  <1>6. taken \in Seq(PeerUnit) /\ Len(taken) = j
    BY <1>4, TakenAndRest
  <1>7. MessageEnd(size, came, rest)
    BY <1>2
  <1>11. rest \in Seq(PeerUnit)
    BY <1>4, <1>5, RestElements
  <1>12. taken \o rest = data
    BY <1>4, <1>5, TakenAndRest
  <1>. HIDE DEF taken, rest
  <1>8. came \in Seq(PeerUnit) /\ Len(came) = Len(begun) + j
    BY <1>6, JoinedElements
  <1>9. came # <<>> /\ Len(came) <= size + 2
    BY <1>3, <1>4, <1>8
  <1>10. InOrder(came \o (rest \o x), written, k)
    <2>1. x \in Seq(PeerUnit) /\ rest \o x \in Seq(PeerUnit)
      BY <1>1, <1>11, JoinedElements
    <2>2. taken \o (rest \o x) = data \o x
      <3>1. x \in Seq(PeerUnit)
        BY <2>1
      <3>2. (taken \o rest) \o x = taken \o (rest \o x)
        BY <3>1, <1>6, <1>11, JoinedThreeUnits
      <3> QED
        BY <3>2, <1>12
    <2>3. (begun \o taken) \o (rest \o x) = begun \o (taken \o (rest \o x))
      <3>. DEFINE y == rest \o x
      <3>1. y \in Seq(PeerUnit)
        BY <2>1
      <3>. HIDE DEF y
      <3>2. (begun \o taken) \o y = begun \o (taken \o y)
        BY <3>1, <1>6, JoinedThreeUnits
      <3> QED
        BY <3>2 DEF y
    <2> QED
      BY <2>2, <2>3, <1>1
  <1>. HIDE DEF came
  <1> QED
    BY <1>1, <1>7, <1>8, <1>9, <1>10, <1>11, MessageEndInOrder

(* Whatever part of the units has come, the receiving thread handles the   *)
(* next message when it is whole.                                          *)
LEMMA ReceivedInOrder ==
  ASSUME PeerStreamType, HandledInOrder, PeerFlow, loop # "undefined", p_RecievePeerMessagesHandler
  PROVE  /\ PeerStreamType' /\ HandledInOrder' /\ TransferringFromPeer'
         /\ \/ UNCHANGED RecievedPieceMessages
            \/ \E k \in 1 .. Len(written) :
                  /\ written[k].kind = "piece"
                  /\ RecievedPieceMessages' = Append(RecievedPieceMessages, written[k])
  <1>1. TransferringFromPeer /\ receive # "none" /\ loop \notin {"connects", "handshakes"}
        /\ UNCHANGED <<IsConnected, written, loop>>
    BY DEF p_RecievePeerMessagesHandler, PeerFlow, ConnectingToPeer, TransferringFromPeer, handler
  <1>2. PICK k \in Nat : k = Len(handled) + 1
    BY DEF PeerStreamType
  <1>3. PICK n \in 0 .. Len(OnTheWay) : \E data \in {NewMessageData \o SubSeq(OnTheWay, 1, n)} :
          /\ n > 0 \/ ~IsConnected
          /\ OnTheWay' = Rest(OnTheWay, n)
          /\ IF receive = "loop" /\ ~IsConnected
             THEN n = 0 /\ receive' = "ended"
                  /\ UNCHANGED <<CurrentMessageSize, CurrentMessage, NewMessageData, handled,
                                 state, RecievedPieceMessages, retrieve>>
             ELSE IF CurrentMessageSize = -1 /\ Len(data) < 2
             THEN NewMessageData' = data /\ receive' = "size"
                  /\ UNCHANGED <<CurrentMessageSize, CurrentMessage, handled, state,
                                 RecievedPieceMessages, retrieve>>
             ELSE Parse(data)
    BY DEF p_RecievePeerMessagesHandler
  <1>4. PICK data : data = NewMessageData \o SubSeq(OnTheWay, 1, n)
    OBVIOUS
  <1>5. /\ NewMessageData \in Seq(PeerUnit) /\ OnTheWay \in Seq(PeerUnit)
        /\ CurrentMessage \in Seq(PeerUnit)
    BY DEF PeerStreamType
  <1>6. PICK x : x = Rest(OnTheWay, n)
    OBVIOUS
  <1>7. data \in Seq(PeerUnit) /\ x \in Seq(PeerUnit) /\ data \o x = NewMessageData \o OnTheWay
    BY <1>4, <1>5, <1>6, UnitsMoved
  <1>8. OnTheWay' = x
    BY <1>3, <1>6
  <1>9. /\ InOrder(CurrentMessage \o (data \o x), written, k)
        /\ Partial(CurrentMessageSize, CurrentMessage, written, k)
    BY <1>1, <1>2, <1>7 DEF TransferringFromPeer
  <1>10. CASE receive = "loop" /\ ~IsConnected
    <2>1. /\ n = 0 /\ receive' = "ended"
          /\ UNCHANGED <<CurrentMessageSize, CurrentMessage, NewMessageData, handled,
                         RecievedPieceMessages>>
      BY <1>3, <1>10
    <2>2. OnTheWay' = OnTheWay
      BY <2>1, <1>5, <1>6, <1>8 DEF Rest
    <2> QED
      BY <2>1, <2>2, <1>1 DEF PeerStreamType, HandledInOrder, TransferringFromPeer
  <1>11. CASE ~(receive = "loop" /\ ~IsConnected) /\ CurrentMessageSize = -1 /\ Len(data) < 2
    <2>1. /\ NewMessageData' = data /\ receive' = "size"
          /\ UNCHANGED <<CurrentMessageSize, CurrentMessage, handled, RecievedPieceMessages>>
      BY <1>3, <1>4, <1>11
    <2>2. PeerStreamType' /\ HandledInOrder'
      BY <2>1, <1>1, <1>7, <1>8 DEF PeerStreamType, HandledInOrder
    <2>3. TransferringFromPeer'
      BY <2>1, <1>1, <1>2, <1>8, <1>9 DEF TransferringFromPeer
    <2> QED
      BY <2>1, <2>2, <2>3
  <1>12. CASE ~(receive = "loop" /\ ~IsConnected) /\ ~(CurrentMessageSize = -1 /\ Len(data) < 2)
    <2>1. Parse(data)
      BY <1>3, <1>4, <1>12
    <2>2. CASE CurrentMessageSize = -1
      <3>1. CurrentMessage = <<>> /\ Len(data) >= 2 /\ data # <<>>
        BY <2>2, <1>7, <1>9, <1>12 DEF Partial
      <3>2. InOrder(<<>> \o (data \o x), written, k) /\ InOrder(data \o x, written, k)
        <4>1. data \o x \in Seq(PeerUnit)
          BY <1>7, JoinedElements
        <4>2. <<>> \o (data \o x) = data \o x
          BY <4>1
        <4> QED
          BY <4>2, <3>1, <1>9
      <3>3. k \in 1 .. Len(written) /\ data[1] = <<k, 1>> /\ data[2] = <<k, 2>>
        <4>1. written \in Seq(PeerMessages)
          BY DEF PeerStreamType
        <4> QED
          BY <4>1, <3>1, <3>2, <1>7, MessageTaken
      <3>. DEFINE size == ContentSize(written[k])
                  m == size + 2
      <3>4. size \in 0 .. 2 /\ m = size + 2 - Len(<<>>)
        BY SizeIsSmall
      <3>5. MessageEnd(size, SubSeq(data, 1, IF m > Len(data) THEN Len(data) ELSE m),
                       Rest(data, m))
        <4>1. ParseBigEndianInteger(data) = {size}
          BY <3>3 DEF ParseBigEndianInteger
        <4>2. \E z \in ParseBigEndianInteger(data) : \E e \in {z + 2} :
                 MessageEnd(z, SubSeq(data, 1, IF e > Len(data) THEN Len(data) ELSE e),
                            Rest(data, e))
          BY <2>1, <2>2 DEF Parse
        <4>. HIDE DEF size
        <4>3. \E e \in {size + 2} :
                 MessageEnd(size, SubSeq(data, 1, IF e > Len(data) THEN Len(data) ELSE e),
                            Rest(data, e))
          BY <4>1, <4>2
        <4> QED
          BY <4>3
      <3>6. <<>> \o SubSeq(data, 1, IF m > Len(data) THEN Len(data) ELSE m)
              = SubSeq(data, 1, IF m > Len(data) THEN Len(data) ELSE m)
        <4>1. SubSeq(data, 1, IF m > Len(data) THEN Len(data) ELSE m) \in Seq(PeerUnit)
          BY <3>4, <1>7
        <4> QED
          BY <4>1
      <3>. HIDE DEF size, m
      <3>7. MessageEnd(size, <<>> \o SubSeq(data, 1, IF m > Len(data) THEN Len(data) ELSE m),
                       Rest(data, m))
        BY <3>5, <3>6
      <3>8. k \in 1 .. Len(written) => size = ContentSize(written[k])
        BY DEF size
      <3>9. <<>> \in Seq(PeerUnit) /\ Len(<<>>) < size + 2
        BY <3>4
      <3>10. /\ PeerStreamType' /\ HandledInOrder' /\ TransferringFromPeer'
             /\ \/ UNCHANGED RecievedPieceMessages
                \/ /\ k \in 1 .. Len(written) /\ written[k].kind = "piece"
                   /\ RecievedPieceMessages' = Append(RecievedPieceMessages, written[k])
        BY <3>1, <3>2, <3>4, <3>7, <3>8, <3>9, <1>1, <1>2, <1>7, <1>8, ParsedInOrder
      <3> QED
        BY <3>10
    <2>3. CASE CurrentMessageSize # -1
      <3>. DEFINE size == CurrentMessageSize
                  m == size + 2 - Len(CurrentMessage)
      <3>1. /\ k \in 1 .. Len(written) /\ size = ContentSize(written[k]) /\ Len(CurrentMessage) < size + 2
            /\ CurrentMessage # <<>>
        BY <2>3, <1>9 DEF Partial
      <3>2. size \in 0 .. 2
        BY <3>1, SizeIsSmall
      <3>3. MessageEnd(size, CurrentMessage
                                \o SubSeq(data, 1, IF m > Len(data) THEN Len(data) ELSE m),
                       Rest(data, m))
        BY <2>1, <2>3 DEF Parse
      <3>. HIDE DEF size, m
      <3>4. /\ PeerStreamType' /\ HandledInOrder' /\ TransferringFromPeer'
            /\ \/ UNCHANGED RecievedPieceMessages
               \/ /\ k \in 1 .. Len(written) /\ written[k].kind = "piece"
                  /\ RecievedPieceMessages' = Append(RecievedPieceMessages, written[k])
        <4>1. m = size + 2 - Len(CurrentMessage)
          BY DEF m
        <4> QED
          BY <4>1, <3>1, <3>2, <3>3, <1>1, <1>2, <1>5, <1>7, <1>8, <1>9, ParsedInOrder
      <3> QED
        BY <3>4
    <2> QED
      BY <2>2, <2>3
  <1> QED
    BY <1>10, <1>11, <1>12
-----------------------------------------------------------------------------
(* A step that leaves the stream alone, and does not go back to another    *)
(* peer.                                                                   *)
LEMMA StreamKept ==
  ASSUME PeerStreamType, HandledInOrder, PeerFlow, loop # "undefined", UNCHANGED <<stream, parse>>,
         \/ UNCHANGED loop
         \/ loop' = "undefined"
         \/ loop \notin {"connects", "handshakes"} /\ loop' \notin {"connects", "handshakes"}
  PROVE  PeerStreamType' /\ HandledInOrder' /\ PeerFlow'
  <1>1. UNCHANGED <<IsConnected, written, OnTheWay, CurrentMessageSize, CurrentMessage,
                    NewMessageData, receive, handled>>
    BY DEF stream, parse
  <1>2. PeerStreamType' /\ HandledInOrder'
    BY <1>1 DEF PeerStreamType, HandledInOrder
  <1>3. CASE loop' = "undefined"
    BY <1>2, <1>3 DEF PeerFlow
  <1>4. CASE UNCHANGED loop
    <2>1. ConnectingToPeer => ConnectingToPeer'
      BY <1>1, <1>4 DEF ConnectingToPeer
    <2>2. TransferringFromPeer => TransferringFromPeer'
      BY <1>1, <1>4 DEF TransferringFromPeer
    <2> QED
      BY <1>2, <2>1, <2>2 DEF PeerFlow
  <1>5. CASE loop \notin {"connects", "handshakes"} /\ loop' \notin {"connects", "handshakes"}
    <2>1. ConnectingToPeer => ConnectingToPeer'
      BY <1>1, <1>5 DEF ConnectingToPeer
    <2>2. TransferringFromPeer => TransferringFromPeer'
      BY <1>1, <1>5 DEF TransferringFromPeer
    <2> QED
      BY <1>2, <2>1, <2>2 DEF PeerFlow
  <1> QED
    BY <1>3, <1>4, <1>5

(* A step that leaves the download alone: it may add piece messages that   *)
(* are answers once pieces are assigned.                                   *)
LEMMA DownloadKept ==
  ASSUME DownloadType, AssignmentPhase, loop # "undefined",
         UNCHANGED <<pieces, retrieval, asked, handler>>,
         \/ UNCHANGED RecievedPieceMessages
         \/ \E k \in 1 .. Len(written) :
               /\ written[k].kind = "piece"
               /\ RecievedPieceMessages' = Append(RecievedPieceMessages, written[k]),
         \/ UNCHANGED written
         \/ \A i \in 1 .. Len(written') :
               \/ written'[i].kind # "piece"
               \/ i \in 1 .. Len(written) /\ written'[i] = written[i]
  PROVE  DownloadType' /\ AssignmentPhase'
  <1>1. UNCHANGED <<pieces, requested, answered, CurrentPiece, DownloadState, AssignedPieces,
                    PieceData, FinishedAssignmentsWaiting, loop>>
    BY DEF retrieval, asked, handler
  <1>2. \A i \in 1 .. Len(written') :
           \/ written'[i].kind # "piece"
           \/ i \in 1 .. Len(written) /\ written'[i] = written[i]
    OBVIOUS
  <1>3. RecievedPieceMessages' \in Seq(Answers(pieces))
    <2>1. RecievedPieceMessages \in Seq(Answers(pieces))
      BY DEF DownloadType
    <2>2. ASSUME NEW k \in 1 .. Len(written), written[k].kind = "piece",
                 RecievedPieceMessages' = Append(RecievedPieceMessages, written[k])
          PROVE  RecievedPieceMessages' \in Seq(Answers(pieces))
      <3>1. written[k] \in Answers(pieces)
        BY <2>2 DEF DownloadType
      <3> QED
        BY <2>1, <2>2, <3>1
    <2> QED
      BY <2>1, <2>2
  <1>4. DownloadType'
    <2>1. Answers(pieces') = Answers(pieces)
      BY <1>1
    <2>2. \A i \in 1 .. Len(written') :
             written'[i].kind = "piece" => written'[i] \in Answers(pieces)
      BY <1>2 DEF DownloadType
    <2>3. /\ pieces' \in Seq(Nat) /\ requested' \in Seq(Answers(pieces))
          /\ answered' \in Nat /\ CurrentPiece' \in Nat \ {0}
          /\ DownloadState' \in Seq(PieceStates) /\ AssignedPieces' \in Seq(PieceStates)
          /\ PieceData' \in Seq(Seq(PeerMessages)) /\ FinishedAssignmentsWaiting' \in Nat
      BY <1>1 DEF DownloadType
    <2> QED
      BY <2>1, <2>2, <2>3, <1>3 DEF DownloadType
  <1>5. CASE Unassigned /\ loop \in {"connects", "handshakes", "transfers", "resets", "assigns"}
    <2>1. \A k \in 1 .. Len(written) : written[k].kind # "piece"
      BY <1>5 DEF Unassigned
    <2>2. RecievedPieceMessages' = <<>>
      BY <2>1, <1>5 DEF Unassigned
    <2>3. \A i \in 1 .. Len(written') : written'[i].kind # "piece"
      BY <2>1, <1>2
    <2>4. Unassigned'
      BY <2>2, <2>3, <1>1, <1>5 DEF Unassigned
    <2> QED
      BY <2>4, <1>1, <1>4, <1>5 DEF AssignmentPhase
  <1>6. CASE Assigned /\ loop \in {"stores", "notifies", "waits", "transfers"}
    <2>1. Assigned'
      BY <1>1, <1>6 DEF Assigned
    <2> QED
      BY <2>1, <1>1, <1>4, <1>6 DEF AssignmentPhase
  <1> QED
    BY <1>5, <1>6 DEF AssignmentPhase
-----------------------------------------------------------------------------
(* A message that the peer writes by itself is none with a piece.          *)
LEMMA PeerWritesStep ==
  ASSUME PeerInv, loop # "undefined", PeerWrites
  PROVE  PeerInv'
  <1>1. PICK kind \in {"keepalive", "choke", "unchoke", "interested", "not_interested",
                       "bitfield", "have", "request", "cancel"} : Writes(PeerMessage(kind))
    BY DEF PeerWrites
  <1>2. PICK m : m = PeerMessage(kind)
    OBVIOUS
  <1>3. m \in PeerMessages /\ m.kind # "piece" /\ Writes(m)
    BY <1>1, <1>2 DEF PeerMessage, PeerMessages, PeerKinds
  <1>4. /\ IsConnected
        /\ UNCHANGED <<pieces, IsConnected, parse, RecievedPieceMessages, retrieval, asked,
                       handler, loop>>
    BY DEF PeerWrites, handler
  <1>5. /\ PeerStreamType' /\ HandledInOrder' /\ PeerFlow'
        /\ \A i \in 1 .. Len(written') :
              \/ written'[i] = m
              \/ i \in 1 .. Len(written) /\ written'[i] = written[i]
    BY <1>3, <1>4, MessageWritten DEF PeerInv
  <1>6. \A i \in 1 .. Len(written') :
           \/ written'[i].kind # "piece"
           \/ i \in 1 .. Len(written) /\ written'[i] = written[i]
    BY <1>3, <1>5
  <1>7. DownloadType' /\ AssignmentPhase'
    BY <1>4, <1>6, DownloadKept DEF PeerInv
  <1> QED
    BY <1>5, <1>7 DEF PeerInv

(* Nothing is answered before it is requested.                             *)
LEMMA PeerAnswersStep ==
  ASSUME PeerInv, loop # "undefined", PeerAnswers
  PROVE  PeerInv'
  <1>1. /\ IsConnected /\ answered < Len(requested) /\ answered' = answered + 1
        /\ UNCHANGED <<pieces, IsConnected, PeerHandshake, torn, parse, receive,
                       RecievedPieceMessages, retrieval, requested, handler, loop>>
    BY DEF PeerAnswers, handler, parse
  <1>2. answered + 1 \in 1 .. Len(requested) /\ answered' \in Nat
    BY <1>1 DEF PeerInv, DownloadType
  <1>3. PICK r : r = requested[answered + 1]
    OBVIOUS
  <1>4. r \in Answers(pieces)
    BY <1>2, <1>3 DEF PeerInv, DownloadType
  <1>5. PICK m : m = [r EXCEPT !.kind = "piece"]
    OBVIOUS
  <1>6. m \in Answers(pieces) /\ m \in PeerMessages
    BY <1>4, <1>5 DEF Answers, PeerMessages, PeerKinds
  <1>7. Writes(m) \/ UNCHANGED <<written, OnTheWay>>
    BY <1>3, <1>5 DEF PeerAnswers
  <1>8. /\ PeerStreamType' /\ HandledInOrder' /\ PeerFlow'
        /\ \A i \in 1 .. Len(written') :
              \/ written'[i] = m
              \/ i \in 1 .. Len(written) /\ written'[i] = written[i]
    <2>1. CASE Writes(m)
      BY <2>1, <1>1, <1>6, MessageWritten DEF PeerInv
    <2>2. CASE UNCHANGED <<written, OnTheWay>>
      <3>1. UNCHANGED <<stream, parse>>
        BY <2>2, <1>1 DEF stream
      <3> QED
        BY <2>2, <3>1, <1>1, StreamKept DEF PeerInv
    <2> QED
      BY <2>1, <2>2, <1>7
  <1>9. UNCHANGED <<pieces, requested, CurrentPiece, DownloadState, AssignedPieces,
                    PieceData, FinishedAssignmentsWaiting, RecievedPieceMessages, loop>>
    BY <1>1 DEF retrieval, handler
  <1>10. DownloadType'
    <2>1. \A i \in 1 .. Len(written') :
             written'[i].kind = "piece" => written'[i] \in Answers(pieces)
      BY <1>6, <1>8 DEF PeerInv, DownloadType
    <2>2. Answers(pieces') = Answers(pieces)
      BY <1>9
    <2> QED
      BY <2>1, <2>2, <1>2, <1>9 DEF PeerInv, DownloadType
  <1>11. Assigned /\ loop \in {"stores", "notifies", "waits", "transfers"}
    <2>1. requested # <<>>
      BY <1>2
    <2> QED
      BY <2>1 DEF PeerInv, AssignmentPhase, Unassigned
  <1>12. AssignmentPhase'
    <2>1. Assigned'
      BY <1>9, <1>11 DEF Assigned
    <2> QED
      BY <2>1, <1>9, <1>11 DEF AssignmentPhase
  <1> QED
    BY <1>8, <1>10, <1>12 DEF PeerInv

(* A new connection, or none when there are no more peers, changes nothing *)
(* that was received.                                                      *)
LEMMA InitiateConnectionStep ==
  ASSUME PeerInv, loop # "undefined", InitiateConnection \/ StartDownload
  PROVE  PeerInv'
  <1>1. /\ loop = "connects" /\ IsConnected' \in BOOLEAN
        /\ UNCHANGED <<pieces, written, parse, RecievedPieceMessages, retrieval, asked,
                       FinishedAssignmentsWaiting>>
    BY DEF InitiateConnection, StartDownload, stream, PeerInv, PeerStreamType
  <1>2. UNCHANGED <<CurrentMessageSize, CurrentMessage, NewMessageData, receive, handled>>
    BY <1>1 DEF parse
  <1>3. ConnectingToPeer /\ Unassigned
    BY <1>1 DEF PeerInv, PeerFlow, TransferringFromPeer, AssignmentPhase
  <1>4. /\ NewMessageData \in Seq(PeerUnit) /\ OnTheWay \in Seq(PeerUnit)
        /\ ~ IsConnected /\ InOrder(NewMessageData, written, 1)
    BY <1>1, <1>3 DEF PeerInv, PeerStreamType, ConnectingToPeer
  <1>5. OnTheWay' \in Seq(PeerUnit)
    <2>1. OnTheWay' = <<>> \/ OnTheWay' = OnTheWay
      BY DEF InitiateConnection, StartDownload, stream
    <2>2. <<>> \in Seq(PeerUnit)
      OBVIOUS
    <2> QED
      BY <2>1, <2>2, <1>4, Zenon
  <1>6. PeerStreamType' /\ HandledInOrder'
    BY <1>1, <1>2, <1>5 DEF PeerInv, PeerStreamType, HandledInOrder
  <1>7. ConnectingToPeer'
    <2>1. CASE loop' = "handshakes"
      <3>1. OnTheWay' = <<>>
        BY <2>1 DEF InitiateConnection, StartDownload
      <3>2. NewMessageData \o <<>> = NewMessageData
        BY <1>4
      <3>3. InOrder(NewMessageData' \o OnTheWay', written', 1)
        BY <3>1, <3>2, <1>1, <1>2, <1>4
      <3> QED
        BY <2>1, <3>3, <1>2, <1>3 DEF ConnectingToPeer
    <2>2. CASE loop' # "handshakes"
      <3>1. ~ IsConnected'
        BY <2>2, <1>4 DEF InitiateConnection, StartDownload, stream
      <3> QED
        BY <2>2, <3>1, <1>1, <1>2, <1>3, <1>4 DEF ConnectingToPeer
    <2> QED
      BY <2>1, <2>2
  <1>8. UNCHANGED <<requested, answered, CurrentPiece, DownloadState, AssignedPieces, PieceData>>
    BY <1>1 DEF retrieval, asked
  <1>9. DownloadType'
    BY <1>1, <1>8 DEF PeerInv, DownloadType
  <1>10. Unassigned'
    BY <1>1, <1>3, <1>8 DEF Unassigned
  <1>11. loop' \in {"connects", "handshakes", "transfers"}
    BY <1>1 DEF InitiateConnection, StartDownload
  <1> QED
    BY <1>6, <1>7, <1>9, <1>10, <1>11 DEF PeerInv, PeerFlow, AssignmentPhase

(* Units in their order do not go back to a message before.                *)
LEMMA UnitsGoOn ==
  ASSUME NEW w, NEW s, NEW k, InOrder(s, w, k), NEW j \in 1 .. Len(s),
         NEW i \in 1 .. j
  PROVE  s[i][1] <= s[j][1]
  <1>. SUFFICES ASSUME ~ (s[i][1] <= s[j][1]) PROVE FALSE
    OBVIOUS
  <1>1. /\ s \in Seq(PeerUnit) /\ Len(s) \in Nat /\ \A e \in 1 .. Len(s) : s[e][1] \in Nat
        /\ \A e \in 1 .. (Len(s) - 1) : s[e + 1] = NextUnit(w, s[e])
    BY DEF InOrder, PeerUnit
  <1>. DEFINE T == {e \in 1 .. Len(s) : e >= i /\ ~ (s[i][1] <= s[e][1])}
  <1>2. T \subseteq Nat /\ j \in T
    BY <1>1
  <1>3. PICK e \in T : \A d \in T : e <= d
    BY <1>2, SmallestNumber
  <1>4. e \in 1 .. Len(s) /\ e > i /\ ~ (s[i][1] <= s[e][1]) /\ i \in 1 .. Len(s)
    BY <1>1, <1>3
  <1>5. e - 1 \in 1 .. (Len(s) - 1) /\ e - 1 \in 1 .. Len(s) /\ (e - 1) + 1 = e /\ e - 1 >= i
    BY <1>1, <1>4
  <1>6. ~ (e - 1 \in T)
    BY <1>3, <1>4, <1>5
  <1>7. s[i][1] <= s[e - 1][1]
    BY <1>5, <1>6
  <1>8. s[e] = NextUnit(w, s[e - 1])
    BY <1>1, <1>5
  <1>9. s[e][1] = s[e - 1][1] \/ s[e][1] = s[e - 1][1] + 1
    BY <1>8 DEF NextUnit
  <1> QED
    BY <1>1, <1>4, <1>5, <1>7, <1>9

(* What a peer that is given up has left are whole messages, unless the    *)
(* last unit is within one.                                                *)
LEMMA WholeLeftovers ==
  ASSUME NEW w \in Seq(PeerMessages), NEW came \in Seq(PeerUnit), NEW rest \in Seq(PeerUnit),
         InOrder(came \o rest, w, 1),
         NEW end, end = IF came = <<>> THEN <<0, 2>> ELSE came[Len(came)],
         \A k \in 1 .. Len(w) : end[1] = k => end[2] = 2 + ContentSize(w[k])
  PROVE  /\ end[1] \in 0 .. Len(w) /\ InOrder(came, SubSeq(w, 1, end[1]), 1)
  <1>1. CASE came = <<>>
    <2>1. end[1] = 0 /\ Len(w) \in Nat
      BY <1>1
    <2>2. SubSeq(w, 1, 0) = <<>> /\ Len(<<>>) = 0 /\ <<>> \in Seq(PeerUnit)
      OBVIOUS
    <2>3. InOrder(<<>>, <<>>, 1)
      BY <2>2 DEF InOrder
    <2>4. SubSeq(w, 1, end[1]) = <<>> /\ end[1] \in 0 .. Len(w)
      BY <2>1, <2>2
    <2> QED
      BY <1>1, <2>3, <2>4, Zenon
  <1>2. CASE came # <<>>
    <2>. DEFINE s == came \o rest
                c == Len(came)
                n == came[c][1]
                v == SubSeq(w, 1, n)
    <2>1. /\ s \in Seq(PeerUnit) /\ Len(s) = c + Len(rest) /\ c \in Nat \ {0} /\ Len(rest) \in Nat
          /\ \A i \in 1 .. c : s[i] = came[i]
      BY <1>2, JoinedElements
    <2>2. InOrder(s, w, 1) /\ s # <<>>
      <3>1. Len(s) # 0
        BY <2>1
      <3> QED
        BY <3>1
    <2>. HIDE DEF s
    <2>3. /\ \A i \in 1 .. c : came[i][1] \in 1 .. Len(w)
          /\ came[1] = <<1, 1>>
          /\ \A i \in 1 .. (c - 1) : came[i + 1] = NextUnit(w, came[i])
      <3>1. \A i \in 1 .. c : i \in 1 .. Len(s)
        BY <2>1
      <3>2. \A i \in 1 .. (c - 1) : i \in 1 .. (Len(s) - 1) /\ i \in 1 .. c /\ i + 1 \in 1 .. c
        BY <2>1
      <3>3. 1 \in 1 .. c
        BY <2>1
      <3>4. /\ \A i \in 1 .. Len(s) : s[i][1] \in 1 .. Len(w)
            /\ s[1] = <<1, 1>>
            /\ \A i \in 1 .. (Len(s) - 1) : s[i + 1] = NextUnit(w, s[i])
        BY <2>2 DEF InOrder
      <3> QED
        BY <3>1, <3>2, <3>3, <3>4, <2>1
    <2>4. n \in 1 .. Len(w) /\ c \in 1 .. Len(s) /\ c \in 1 .. c
      BY <2>1, <2>3
    <2>5. end = came[c] /\ end[1] = n /\ end[2] = 2 + ContentSize(w[n])
      BY <1>2, <2>4
    <2>6. came[c] = <<n, 2 + ContentSize(w[n])>>
      <3>1. came[c] \in PeerUnit
        BY <2>4
      <3> QED
        BY <2>5, <3>1 DEF PeerUnit
    <2>7. \A i \in 1 .. c : came[i][1] \in 1 .. n
      <3>1. TAKE i \in 1 .. c
      <3>2. s[i][1] <= s[c][1]
        BY <2>2, <2>4, UnitsGoOn
      <3>3. came[i][1] <= n /\ came[i][1] \in 1 .. Len(w)
        BY <3>2, <2>1, <2>3, <2>4
      <3> QED
        BY <3>3, <2>4
    <2>8. /\ v \in Seq(PeerMessages) /\ Len(v) = n /\ \A i \in 1 .. n : v[i] = w[i]
      BY <2>4
    <2>. HIDE DEF v, n, c
    <2>9. \A i \in 1 .. (c - 1) : came[i + 1] = NextUnit(v, came[i])
      <3>1. TAKE i \in 1 .. (c - 1)
      <3>2. i \in 1 .. c
        BY <2>1
      <3>3. v[came[i][1]] = w[came[i][1]]
        BY <3>2, <2>7, <2>8
      <3> QED
        BY <3>3, <2>3 DEF NextUnit
    <2>10. n \in 1 .. n /\ v[n] = w[n]
      BY <2>4, <2>8
    <2>11. InOrder(came, v, 1)
      BY <1>2, <2>3, <2>6, <2>7, <2>8, <2>9, <2>10 DEF InOrder, c
    <2> QED
      BY <2>4, <2>5, <2>11 DEF v
  <1> QED
    BY <1>1, <1>2

(* The handshake's answer is taken away; the threads begin with what came  *)
(* behind it, or the next peer is tried.                                   *)
LEMMA p_InitiateHandshakeStep ==
  ASSUME PeerInv, loop # "undefined", PeerHandshake \in Int, p_InitiateHandshake, ~ torn'
  PROVE  PeerInv'
  <1>1. /\ loop = "handshakes"
        /\ UNCHANGED <<pieces, CurrentMessageSize, CurrentMessage, handled,
                       RecievedPieceMessages, retrieval, asked, FinishedAssignmentsWaiting>>
    BY DEF p_InitiateHandshake
  <1>2. ConnectingToPeer /\ Unassigned
    BY <1>1 DEF PeerInv, PeerFlow, TransferringFromPeer, AssignmentPhase
  <1>3. /\ NewMessageData \in Seq(PeerUnit) /\ OnTheWay \in Seq(PeerUnit)
        /\ written \in Seq(PeerMessages) /\ IsConnected \in BOOLEAN
        /\ InOrder(NewMessageData \o OnTheWay, written, 1)
        /\ receive = "none" /\ handled = <<>> /\ CurrentMessage = <<>> /\ CurrentMessageSize = -1
    BY <1>1, <1>2 DEF PeerInv, PeerStreamType, ConnectingToPeer
  <1>4. UNCHANGED <<requested, answered, CurrentPiece, DownloadState, AssignedPieces, PieceData>>
    BY <1>1 DEF retrieval, asked
  <1>5. CASE UNCHANGED <<IsConnected, written, OnTheWay, NewMessageData, receive, loop>>
    <2>1. PeerStreamType' /\ HandledInOrder' /\ ConnectingToPeer'
      BY <1>1, <1>2, <1>5 DEF PeerInv, PeerStreamType, HandledInOrder, ConnectingToPeer
    <2>2. DownloadType' /\ AssignmentPhase'
      BY <1>1, <1>2, <1>4, <1>5 DEF PeerInv, DownloadType, AssignmentPhase, Unassigned
    <2> QED
      BY <2>1, <2>2 DEF PeerInv, PeerFlow
  <1>6. ASSUME NEW behind \in 0 .. Len(OnTheWay),
               NewMessageData' = NewMessageData \o SubSeq(OnTheWay, 1, behind),
               IsConnected' \in {IsConnected, FALSE},
               \/ /\ IsConnected' /\ OnTheWay' = Rest(OnTheWay, behind) /\ UNCHANGED written
                  /\ receive' = "loop" /\ loop' = "transfers"
               \/ /\ ~ IsConnected' /\ OnTheWay' = <<>> /\ written' = SubSeq(written, 1, LastRead[1])
                  /\ \A k \in 1 .. Len(written) :
                        LastRead[1] = k => LastRead[2] = 2 + ContentSize(written[k])
                  /\ loop' = "connects" /\ UNCHANGED receive
        PROVE  PeerInv'
    <2>1. PICK came : came = NewMessageData \o SubSeq(OnTheWay, 1, behind)
      OBVIOUS
    <2>2. PICK rest : rest = Rest(OnTheWay, behind)
      OBVIOUS
    <2>3. came \in Seq(PeerUnit) /\ rest \in Seq(PeerUnit) /\ came \o rest = NewMessageData \o OnTheWay
      BY <2>1, <2>2, <1>3, UnitsMoved
    <2>4. InOrder(came \o rest, written, 1) /\ NewMessageData' = came
      BY <2>1, <2>3, <1>3, <1>6
    <2>5. CASE /\ IsConnected' /\ OnTheWay' = Rest(OnTheWay, behind) /\ UNCHANGED written
               /\ receive' = "loop" /\ loop' = "transfers"
      <3>1. PeerStreamType' /\ HandledInOrder'
        BY <2>2, <2>3, <2>4, <2>5, <1>1, <1>3, <1>6 DEF PeerInv, PeerStreamType, HandledInOrder
      <3>2. <<>> \o (came \o rest) = came \o rest
        <4>1. came \o rest \in Seq(PeerUnit)
          BY <2>3, JoinedElements
        <4> QED
          BY <4>1
      <3>3. CurrentMessage' = <<>> /\ CurrentMessageSize' = -1 /\ Len(handled') + 1 = 1
        BY <1>1, <1>3
      <3>4. InOrder(CurrentMessage' \o (NewMessageData' \o OnTheWay'), written', Len(handled') + 1)
        BY <2>2, <2>4, <2>5, <3>2, <3>3
      <3>5. TransferringFromPeer'
        BY <2>5, <3>3, <3>4 DEF TransferringFromPeer, Partial
      <3>6. DownloadType' /\ Unassigned'
        BY <2>5, <1>1, <1>2, <1>4 DEF PeerInv, DownloadType, Unassigned
      <3> QED
        BY <2>5, <3>1, <3>5, <3>6 DEF PeerInv, PeerFlow, AssignmentPhase
    <2>6. CASE /\ ~ IsConnected' /\ OnTheWay' = <<>> /\ written' = SubSeq(written, 1, LastRead[1])
               /\ \A k \in 1 .. Len(written) :
                     LastRead[1] = k => LastRead[2] = 2 + ContentSize(written[k])
               /\ loop' = "connects" /\ UNCHANGED receive
      <3>1. PICK end : end = LastRead
        OBVIOUS
      <3>2. end = IF came = <<>> THEN <<0, 2>> ELSE came[Len(came)]
        BY <2>4, <3>1 DEF LastRead
      <3>3. end[1] \in 0 .. Len(written) /\ InOrder(came, SubSeq(written, 1, end[1]), 1)
        BY <2>3, <2>4, <2>6, <3>1, <3>2, <1>3, WholeLeftovers
      <3>4. /\ written' \in Seq(PeerMessages) /\ Len(written') = end[1]
            /\ \A i \in 1 .. Len(written') : i \in 1 .. Len(written) /\ written'[i] = written[i]
        BY <2>6, <3>1, <3>3, <1>3
      <3>5. PeerStreamType'
        <4>1. IsConnected' \in BOOLEAN
          BY <2>6, <1>3, <1>6
        <4>2. <<>> \in Seq(PeerUnit) /\ <<>> \in Seq(Seq(PeerUnit))
          OBVIOUS
        <4>3. OnTheWay' \in Seq(PeerUnit) /\ NewMessageData' \in Seq(PeerUnit)
          BY <2>3, <2>4, <2>6, <4>2
        <4>4. /\ CurrentMessage' \in Seq(PeerUnit) /\ CurrentMessageSize' \in Int
              /\ handled' \in Seq(Seq(PeerUnit))
          BY <1>1 DEF PeerInv, PeerStreamType
        <4> QED
          BY <3>4, <4>1, <4>3, <4>4 DEF PeerStreamType
      <3>6. HandledInOrder'
        <4>1. handled' = <<>> /\ Len(handled') = 0
          BY <1>1, <1>3
        <4> QED
          BY <4>1 DEF HandledInOrder
      <3>7. ConnectingToPeer'
        BY <2>4, <2>6, <3>1, <3>3, <1>1, <1>3 DEF ConnectingToPeer
      <3>8. DownloadType'
        BY <3>4, <1>1, <1>4 DEF PeerInv, DownloadType
      <3>9. Unassigned'
        BY <3>4, <1>1, <1>2, <1>4 DEF Unassigned
      <3> QED
        BY <2>6, <3>5, <3>6, <3>7, <3>8, <3>9 DEF PeerInv, PeerFlow, AssignmentPhase
    <2> QED
      BY <2>5, <2>6, <1>6
  <1>7. PICK n \in 1..(2 - PeerHandshake + Len(OnTheWay)) : \E behind \in {PeerHandshake + n - 2} :
          IF behind < 0
          THEN UNCHANGED <<IsConnected, written, OnTheWay, NewMessageData, receive, loop>>
          ELSE /\ IsConnected' \in {IsConnected, FALSE}
               /\ NewMessageData' = NewMessageData \o SubSeq(OnTheWay, 1, behind)
               /\ IF IsConnected'
                  THEN /\ OnTheWay' = Rest(OnTheWay, behind) /\ UNCHANGED written
                       /\ receive' = "loop" /\ loop' = "transfers"
                  ELSE /\ OnTheWay' = <<>> /\ written' = SubSeq(written, 1, LastRead[1])
                       /\ torn' = (torn \/ \E k \in 1..Len(written) :
                                     LastRead[1] = k /\ LastRead[2] # 2 + ContentSize(written[k]))
                       /\ loop' = "connects" /\ UNCHANGED receive
    BY DEF p_InitiateHandshake
  <1>8. PICK behind : behind = PeerHandshake + n - 2
    OBVIOUS
  <1>9. CASE behind < 0
    BY <1>5, <1>7, <1>8, <1>9
  <1>10. CASE ~ (behind < 0)
    <2>1. behind \in 0 .. Len(OnTheWay)
      BY <1>3, <1>8, <1>10 DEF PeerInv, PeerStreamType
    <2>2. /\ IsConnected' \in {IsConnected, FALSE}
          /\ NewMessageData' = NewMessageData \o SubSeq(OnTheWay, 1, behind)
      BY <1>7, <1>8, <1>10
    <2>3. CASE IsConnected'
      <3>1. /\ OnTheWay' = Rest(OnTheWay, behind) /\ UNCHANGED written
            /\ receive' = "loop" /\ loop' = "transfers"
        BY <1>7, <1>8, <1>10, <2>3
      <3> QED
        BY <2>1, <2>2, <2>3, <3>1, <1>6
    <2>4. CASE ~ IsConnected'
      <3>1. /\ OnTheWay' = <<>> /\ written' = SubSeq(written, 1, LastRead[1])
            /\ torn' = (torn \/ \E k \in 1..Len(written) :
                          LastRead[1] = k /\ LastRead[2] # 2 + ContentSize(written[k]))
            /\ loop' = "connects" /\ UNCHANGED receive
        BY <1>7, <1>8, <1>10, <2>4
      <3>2. \A k \in 1 .. Len(written) : LastRead[1] = k => LastRead[2] = 2 + ContentSize(written[k])
        BY <3>1
      <3> QED
        BY <2>1, <2>2, <2>4, <3>1, <3>2, <1>6
    <2> QED
      BY <2>3, <2>4
  <1> QED
    BY <1>9, <1>10

(* The peer closes the connection; what is on its way still comes.         *)
LEMMA DisconnectStep ==
  ASSUME PeerInv, loop # "undefined", Disconnect
  PROVE  PeerInv'
  <1>1. /\ IsConnected /\ IsConnected' = FALSE
        /\ UNCHANGED <<pieces, written, OnTheWay, parse, RecievedPieceMessages, retrieval,
                       asked, handler>>
    BY DEF Disconnect
  <1>2. UNCHANGED <<CurrentMessageSize, CurrentMessage, NewMessageData, receive, handled, loop>>
    BY <1>1 DEF parse, handler
  <1>3. PeerStreamType' /\ HandledInOrder'
    BY <1>1, <1>2 DEF PeerInv, PeerStreamType, HandledInOrder
  <1>4. ConnectingToPeer => ConnectingToPeer'
    BY <1>1, <1>2 DEF ConnectingToPeer
  <1>5. TransferringFromPeer => TransferringFromPeer'
    BY <1>1, <1>2 DEF TransferringFromPeer
  <1>6. DownloadType' /\ AssignmentPhase'
    BY <1>1, DownloadKept DEF PeerInv
  <1> QED
    BY <1>3, <1>4, <1>5, <1>6 DEF PeerInv, PeerFlow

(* What is received leaves the download alone, except for its messages.    *)
LEMMA p_RecievePeerMessagesHandlerStep ==
  ASSUME PeerInv, loop # "undefined", p_RecievePeerMessagesHandler
  PROVE  PeerInv'
  <1>1. UNCHANGED <<pieces, written, retrieval, asked, handler>>
    BY DEF p_RecievePeerMessagesHandler
  <1>2. /\ PeerStreamType' /\ HandledInOrder' /\ TransferringFromPeer'
        /\ \/ UNCHANGED RecievedPieceMessages
           \/ \E k \in 1 .. Len(written) :
                 /\ written[k].kind = "piece"
                 /\ RecievedPieceMessages' = Append(RecievedPieceMessages, written[k])
    BY ReceivedInOrder DEF PeerInv
  <1>3. DownloadType' /\ AssignmentPhase'
    BY <1>1, <1>2, DownloadKept DEF PeerInv
  <1> QED
    BY <1>2, <1>3 DEF PeerInv, PeerFlow
-----------------------------------------------------------------------------
(* The number of a piece's blocks: the last one begins within the piece.   *)
LEMMA BlocksCoverPiece ==
  ASSUME NEW size \in Nat, NEW max \in Nat \ {0}
  PROVE  /\ (size + max - 1) \div max \in Nat
         /\ \A k \in Int : k <= (size + max - 1) \div max => (k - 1) * max < size
  OBVIOUS

(* A block of the first piece can be answered.                             *)
LEMMA BlocksAreAnswers ==
  ASSUME DownloadType, Assigned, DownloadState # <<>>
  PROVE  Blocks(1) \in Seq(Answers(pieces))
  <1>. DEFINE size == pieces[1]
              n == (size + MaxRequestBytes - 1) \div MaxRequestBytes
              Block(k) == [kind |-> "request", piece |-> 1, begin |-> (k - 1) * MaxRequestBytes,
                           length |-> IF k < n THEN MaxRequestBytes
                                      ELSE size - (n - 1) * MaxRequestBytes]
  <1>1. /\ 1 \in 1 .. Len(pieces) /\ size \in Nat /\ MaxRequestBytes \in Nat \ {0}
        /\ DownloadState[1].PieceIndex = 1 /\ DownloadState[1].PieceSize = size
    <2>1. 1 \in 1 .. Len(pieces)
      BY DEF DownloadType, Assigned
    <2>2. size \in Nat
      BY <2>1 DEF DownloadType
    <2> QED
      BY <2>1, <2>2, PeerAssumption DEF Assigned
  <1>2. Blocks(1) = [k \in 1 .. n |-> Block(k)]
    BY <1>1 DEF Blocks
  <1>3. n \in Nat /\ \A k \in Int : k <= n => (k - 1) * MaxRequestBytes < size
    BY <1>1, BlocksCoverPiece
  <1>. HIDE DEF n, size
  <1>4. ASSUME NEW k \in 1 .. n PROVE Block(k) \in Answers(pieces)
    <2>1. k \in Int /\ k <= n
      BY <1>3
    <2>2. (k - 1) * MaxRequestBytes < size
      BY <2>1, <1>3
    <2>3. (k - 1) * MaxRequestBytes \in Int /\ (n - 1) * MaxRequestBytes \in Int
      BY <2>1, <1>1, <1>3
    <2>4. PICK r : r = Block(k)
      OBVIOUS
    <2>5. r \in PeerMessages
      BY <2>3, <2>4, <1>1 DEF PeerMessages, PeerKinds
    <2>6. r.begin < size /\ r.piece = 1
      BY <2>2, <2>4
    <2>7. r.length = MaxRequestBytes \/ r.begin + r.length = size
      <3>1. CASE k < n
        BY <3>1, <2>4
      <3>2. CASE ~(k < n)
        <4>1. k = n
          BY <3>2, <2>1, <1>3
        <4>2. r.begin = (n - 1) * MaxRequestBytes /\ r.length = size - (n - 1) * MaxRequestBytes
          BY <4>1, <2>4, <3>2
        <4>3. \A a, b \in Int : a + (b - a) = b
          OBVIOUS
        <4> QED
          BY <4>2, <4>3, <2>3, <1>1
      <3> QED
        BY <3>1, <3>2
    <2> QED
      BY <2>4, <2>5, <2>6, <2>7, <1>1 DEF Answers, size
  <1>. HIDE DEF Block
  <1>5. [k \in 1 .. n |-> Block(k)] \in Seq(Answers(pieces))
    BY <1>3, <1>4
  <1> QED
    BY <1>2, <1>5

(* So can what is asked for behind the end of another piece.               *)
LEMMA BehindEndIsAnswer ==
  ASSUME DownloadType, Assigned, DownloadState # <<>>
  PROVE  [i \in 1 .. (Len(DownloadState) - 1) |-> BehindEnd(i + 1)] \in Seq(Answers(pieces))
  <1>1. Len(pieces) \in Nat /\ Len(DownloadState) = Len(pieces) /\ Len(pieces) > 0
    BY DEF DownloadType, Assigned
  <1>2. ASSUME NEW i \in 1 .. (Len(pieces) - 1) PROVE BehindEnd(i + 1) \in Answers(pieces)
    <2>1. PICK j \in 1 .. Len(pieces) : j = i + 1 /\ j # 1
      BY <1>1
    <2>2. DownloadState[j].PieceIndex = j /\ DownloadState[j].PieceSize \in Nat
      <3>1. DownloadState[j].PieceIndex = j /\ j \in 1 .. Len(DownloadState)
        BY <1>1 DEF Assigned
      <3>2. DownloadState[j] \in PieceStates
        BY <3>1 DEF DownloadType
      <3> QED
        BY <3>1, <3>2 DEF PieceStates
    <2>3. BehindEnd(j) = [kind |-> "request", piece |-> j,
                          begin |-> DownloadState[j].PieceSize, length |-> 0]
      BY <2>2 DEF BehindEnd
    <2>4. BehindEnd(j) \in PeerMessages
      BY <2>2, <2>3 DEF PeerMessages, PeerKinds
    <2>5. BehindEnd(j) \in Answers(pieces)
      BY <2>1, <2>3, <2>4 DEF Answers
    <2> QED
      BY <2>1, <2>5
  <1>. DEFINE Behind(i) == BehindEnd(i + 1)
              n == Len(pieces) - 1
  <1>3. n \in Nat /\ \A i \in 1 .. n : Behind(i) \in Answers(pieces)
    BY <1>1, <1>2
  <1>. HIDE DEF Behind, n
  <1>4. [i \in 1 .. n |-> Behind(i)] \in Seq(Answers(pieces))
    BY <1>3
  <1> QED
    BY <1>1, <1>4 DEF Behind, n

(* The pieces are requested: nothing of the download is there yet.         *)
LEMMA RequestPiecesStep ==
  ASSUME PeerInv, loop # "undefined", RequestPieces
  PROVE  PeerInv'
  <1>1. UNCHANGED <<pieces, stream, parse, RecievedPieceMessages, AssignedPieces,
                    DownloadState, PieceData, answered, handler, written, loop,
                    FinishedAssignmentsWaiting>>
    BY DEF RequestPieces, handler, stream
  <1>2. PeerStreamType' /\ HandledInOrder' /\ PeerFlow'
    BY <1>1, StreamKept DEF PeerInv
  <1>3. \/ UNCHANGED <<requested, CurrentPiece>>
        \/ /\ CurrentPiece <= Len(DownloadState) /\ CurrentPiece' = Len(DownloadState) + 1
           /\ requested' = requested \o Blocks(1)
                               \o [i \in 1 .. (Len(DownloadState) - 1) |-> BehindEnd(i + 1)]
    BY DEF RequestPieces, p_SendPieceDataRequests
  <1>4. CASE UNCHANGED <<requested, CurrentPiece>>
    <2>1. DownloadType'
      BY <1>1, <1>4 DEF PeerInv, DownloadType
    <2>2. Unassigned => Unassigned'
      BY <1>1, <1>4 DEF Unassigned
    <2>3. Assigned => Assigned'
      BY <1>1 DEF Assigned
    <2> QED
      BY <2>1, <2>2, <2>3, <1>1, <1>2 DEF PeerInv, AssignmentPhase
  <1>5. CASE /\ CurrentPiece <= Len(DownloadState) /\ CurrentPiece' = Len(DownloadState) + 1
             /\ requested' = requested \o Blocks(1)
                                 \o [i \in 1 .. (Len(DownloadState) - 1) |-> BehindEnd(i + 1)]
    <2>1. DownloadState # <<>> /\ Len(DownloadState) \in Nat
      BY <1>5 DEF PeerInv, DownloadType
    <2>2. Assigned /\ loop \in {"stores", "notifies", "waits", "transfers"}
      BY <2>1 DEF PeerInv, AssignmentPhase, Unassigned
    <2>3. requested' \in Seq(Answers(pieces))
      <3>1. PICK a : a = Blocks(1)
        OBVIOUS
      <3>2. PICK b : b = [i \in 1 .. (Len(DownloadState) - 1) |-> BehindEnd(i + 1)]
        OBVIOUS
      <3>3. a \in Seq(Answers(pieces)) /\ b \in Seq(Answers(pieces))
        BY <2>1, <2>2, <3>1, <3>2, BlocksAreAnswers, BehindEndIsAnswer DEF PeerInv
      <3>4. requested \in Seq(Answers(pieces))
        BY DEF PeerInv, DownloadType
      <3>5. requested \o a \in Seq(Answers(pieces))
        BY <3>3, <3>4, JoinedElements
      <3>6. (requested \o a) \o b \in Seq(Answers(pieces))
        BY <3>3, <3>5, JoinedElements
      <3> QED
        BY <3>1, <3>2, <3>6, <1>5
    <2>4. DownloadType'
      BY <2>1, <2>3, <1>1, <1>5 DEF PeerInv, DownloadType
    <2>5. Assigned'
      BY <2>2, <1>1 DEF Assigned
    <2> QED
      BY <2>2, <2>4, <2>5, <1>1, <1>2 DEF PeerInv, AssignmentPhase
  <1> QED
    BY <1>3, <1>4, <1>5

(* A block that follows: it is the next of the first piece.                *)
LEMMA BlockFollows ==
  ASSUME DownloadType, Assigned, NEW m \in Answers(pieces), Follows(m)
  PROVE  /\ m.piece = 1 /\ Position(m) = {1} /\ pieces # <<>> /\ PieceData # <<>>
         /\ DownloadState[1].CurrentOffset = m.begin
  <1>1. /\ m.piece \in 1 .. Len(pieces) /\ Len(DownloadState) = Len(pieces)
        /\ \A i \in 1 .. Len(pieces) : DownloadState[i].PieceIndex = i
    BY DEF Answers, Assigned
  <1>2. \A i \in 1 .. Len(DownloadState) : i \in Position(m) <=> i = m.piece
    BY <1>1 DEF Position
  <1>3. m.piece \in Position(m)
    BY <1>1, <1>2
  <1>4. m.piece = 1 /\ PieceData # <<>> /\ DownloadState[1].CurrentOffset = m.begin
    BY <1>3 DEF Follows
  <1>5. Position(m) = {1}
    BY <1>1, <1>2, <1>4 DEF Position
  <1>6. pieces # <<>>
    BY <1>1
  <1> QED
    BY <1>4, <1>5, <1>6

(* The first piece's data with its next block.                             *)
WithBlock(d, m) == [d EXCEPT !.CurrentOffset = @ + m.length,
                             !.Completed = @ \/ d.CurrentOffset + m.length = d.PieceSize]
LEMMA NextBlock ==
  ASSUME NEW size \in Nat, NEW d \in PieceStates, NEW data \in Seq(PeerMessages),
         NEW m \in PeerMessages, FirstPiece(d, data, size),
         d.PieceSize = size, d.CurrentOffset = m.begin, m.begin < size,
         m.length = MaxRequestBytes \/ m.begin + m.length = size,
         NEW e, e = WithBlock(d, m)
  PROVE  /\ e \in PieceStates /\ FirstPiece(e, Append(data, m), size)
         /\ e.PieceIndex = d.PieceIndex /\ e.PieceSize = size /\ (d.Completed => e.Completed)
  <1>1. m.begin \in Int /\ m.length \in Int /\ MaxRequestBytes \in Nat /\ Len(data) \in Nat
    BY PeerAssumption DEF PeerMessages
  <1>2. /\ e.CurrentOffset = m.begin + m.length /\ e.PieceIndex = d.PieceIndex
        /\ e.PieceSize = size
        /\ e.Completed => d.Completed \/ m.begin + m.length = size
    <2>1. PICK offset : offset = d.CurrentOffset + m.length
      OBVIOUS
    <2>2. PICK completed : completed = (d.Completed \/ d.CurrentOffset + m.length = d.PieceSize)
      OBVIOUS
    <2>3. e = [d EXCEPT !.CurrentOffset = offset, !.Completed = completed]
      BY <2>1, <2>2 DEF WithBlock
    <2>4. /\ e.CurrentOffset = offset /\ e.PieceIndex = d.PieceIndex
          /\ e.PieceSize = d.PieceSize
      BY <2>3 DEF PieceStates
    <2>5. e.Completed = completed
      BY <2>3 DEF PieceStates
    <2>6. e.Completed => d.Completed \/ d.CurrentOffset + m.length = d.PieceSize
      BY <2>2, <2>5
    <2> QED
      BY <2>1, <2>4, <2>6
  <1>3. e \in PieceStates
    <2>1. PICK offset : offset = d.CurrentOffset + m.length
      OBVIOUS
    <2>2. PICK completed : completed = (d.Completed \/ d.CurrentOffset + m.length = d.PieceSize)
      OBVIOUS
    <2>3. e = [d EXCEPT !.CurrentOffset = offset, !.Completed = completed]
      BY <2>1, <2>2 DEF WithBlock
    <2>4. offset \in Int
      BY <2>1, <1>1
    <2>5. completed \in BOOLEAN
      BY <2>2
    <2> QED
      BY <2>3, <2>4, <2>5 DEF PieceStates
  <1>4. m.begin = Len(data) * MaxRequestBytes
    BY <1>1 DEF FirstPiece
  <1>5. ~d.Completed
    BY <1>1 DEF FirstPiece
  <1>. DEFINE more == Append(data, m)
  <1>6. /\ Len(more) = Len(data) + 1 /\ more[Len(data) + 1] = m
        /\ \A k \in 1 .. Len(data) : more[k] = data[k]
    OBVIOUS
  <1>. HIDE DEF more
  <1>7. \A k \in 1 .. Len(more) : more[k].begin = (k - 1) * MaxRequestBytes
    <2>1. TAKE k \in 1 .. Len(more)
    <2>2. CASE k \in 1 .. Len(data)
      BY <2>2, <1>6 DEF FirstPiece
    <2>3. CASE k = Len(data) + 1
      <3>1. k - 1 = Len(data)
        BY <2>3, <1>1
      <3> QED
        BY <2>3, <3>1, <1>4, <1>6
    <2> QED
      BY <2>2, <2>3, <1>1, <1>6
  <1>8. e.CurrentOffset = Len(more) * MaxRequestBytes \/ e.CurrentOffset = size
    <2>1. CASE m.length = MaxRequestBytes
      <3>1. Len(data) * MaxRequestBytes + MaxRequestBytes = (Len(data) + 1) * MaxRequestBytes
        BY <1>1
      <3> QED
        BY <2>1, <3>1, <1>2, <1>4, <1>6
    <2>2. CASE m.begin + m.length = size
      BY <2>2, <1>2
    <2> QED
      BY <2>1, <2>2
  <1>9. e.Completed => e.CurrentOffset = size
    BY <1>2, <1>5
  <1> QED
    BY <1>2, <1>3, <1>5, <1>7, <1>8, <1>9 DEF FirstPiece, more

(* A piece's message is the next block of the first piece, or the program  *)
(* ends; when it was the last one, the assignment is finished.             *)
LEMMA RetrievePieceStep ==
  ASSUME PeerInv, loop # "undefined", RetrievePiece
  PROVE  PeerInv'
  <1>1. /\ RecievedPieceMessages # <<>>
        /\ UNCHANGED <<pieces, stream, parse, asked, written, requested, answered>>
    BY DEF RetrievePiece, asked, stream
  <1>2. PICK m : m = Head(RecievedPieceMessages)
    OBVIOUS
  <1>3. m \in Answers(pieces)
    BY <1>1, <1>2 DEF PeerInv, DownloadType
  <1>4. Assigned /\ loop \in {"stores", "notifies", "waits", "transfers"}
    BY <1>1 DEF PeerInv, AssignmentPhase, Unassigned
  <1>5. CASE ~Follows(m)
    <2>1. /\ loop' = "undefined"
          /\ UNCHANGED <<RecievedPieceMessages, retrieval, FinishedAssignmentsWaiting>>
      BY <1>2, <1>5 DEF RetrievePiece
    <2>2. UNCHANGED <<CurrentPiece, AssignedPieces, DownloadState, PieceData>>
      BY <2>1 DEF retrieval
    <2>3. PeerStreamType' /\ HandledInOrder' /\ PeerFlow'
      BY <2>1, <1>1, StreamKept DEF PeerInv
    <2>4. DownloadType'
      BY <2>1, <2>2, <1>1 DEF PeerInv, DownloadType
    <2>5. Assigned'
      BY <2>1, <2>2, <1>1, <1>4 DEF Assigned
    <2> QED
      BY <2>1, <2>3, <2>4, <2>5 DEF PeerInv, AssignmentPhase
  <1>6. CASE Follows(m)
    <2>1. /\ sp_UpdatePieceDownloadState(m)
          /\ RecievedPieceMessages' = Tail(RecievedPieceMessages)
          /\ FinishedAssignmentsWaiting' = FinishedAssignmentsWaiting
                                             + (IF AssignedPiecesFinished' THEN 1 ELSE 0)
          /\ loop' = IF AssignedPiecesFinished' /\ loop = "waits" THEN "transfers" ELSE loop
          /\ UNCHANGED <<CurrentPiece, AssignedPieces>>
      BY <1>2, <1>6 DEF RetrievePiece
    <2>2. /\ m.piece = 1 /\ Position(m) = {1} /\ pieces # <<>> /\ PieceData # <<>>
          /\ DownloadState[1].CurrentOffset = m.begin
      BY <1>3, <1>4, <1>6, BlockFollows DEF PeerInv
    <2>3. /\ pieces \in Seq(Nat) /\ DownloadState \in Seq(PieceStates)
          /\ PieceData \in Seq(Seq(PeerMessages)) /\ FinishedAssignmentsWaiting \in Nat
      BY DEF PeerInv, DownloadType
    <2>4. /\ 1 \in 1 .. Len(DownloadState) /\ Len(DownloadState) = Len(pieces)
          /\ 1 \in 1 .. Len(pieces) /\ 1 \in 1 .. Len(PieceData) /\ Len(pieces) \in Nat
      BY <2>2, <2>3, <1>4 DEF Assigned
    <2>. DEFINE d == DownloadState[1]
                e == WithBlock(d, m)
    <2>5. /\ Len(DownloadState') = Len(DownloadState) /\ DownloadState'[1] = e
          /\ \A i \in 1 .. Len(DownloadState) : i # 1 => DownloadState'[i] = DownloadState[i]
          /\ DownloadState' = [i \in 1 .. Len(DownloadState) |-> DownloadState'[i]]
      <3>. DEFINE Block(i) == WithBlock(DownloadState[i], m)
                  New(i) == IF i \notin {1} THEN DownloadState[i] ELSE Block(i)
      <3>1. DownloadState' = [i \in 1 .. Len(DownloadState) |-> New(i)]
        BY <2>1, <2>2 DEF sp_UpdatePieceDownloadState, WithBlock
      <3>2. New(1) = e /\ \A i \in 1 .. Len(DownloadState) : i # 1 => New(i) = DownloadState[i]
        OBVIOUS
      <3>3. Len(DownloadState) \in Nat
        BY <2>4
      <3>. HIDE DEF New, e
      <3> QED
        BY <3>1, <3>2, <3>3, <2>4
    <2>6. PieceData' = <<Append(PieceData[1], m)>>
      BY <2>1, <2>2 DEF sp_UpdatePieceDownloadState
    <2>7. AssignedPiecesFinished' => DownloadState'[1].Completed
      BY <2>1, <2>4 DEF sp_UpdatePieceDownloadState
    <2>8. /\ d \in PieceStates /\ pieces[1] \in Nat /\ PieceData[1] \in Seq(PeerMessages)
          /\ d.PieceIndex = 1 /\ d.PieceSize = pieces[1]
          /\ FirstPiece(d, PieceData[1], pieces[1])
      BY <2>2, <2>3, <2>4, <1>4 DEF Assigned
    <2>9. /\ m \in PeerMessages /\ m.begin < pieces[1]
          /\ m.length = MaxRequestBytes \/ m.begin + m.length = pieces[1]
      BY <2>2, <1>3 DEF Answers
    <2>10. /\ e \in PieceStates /\ FirstPiece(e, Append(PieceData[1], m), pieces[1])
           /\ e.PieceIndex = 1 /\ e.PieceSize = pieces[1] /\ (d.Completed => e.Completed)
      <3>1. PICK x : x = e
        OBVIOUS
      <3>2. PICK y : y = d
        OBVIOUS
      <3>3. PICK data : data = PieceData[1]
        OBVIOUS
      <3>4. PICK size : size = pieces[1]
        OBVIOUS
      <3>5. x = WithBlock(y, m)
        BY <3>1, <3>2
      <3>6. /\ y \in PieceStates /\ size \in Nat /\ data \in Seq(PeerMessages)
            /\ FirstPiece(y, data, size) /\ y.PieceSize = size /\ y.CurrentOffset = m.begin
            /\ m \in PeerMessages /\ m.begin < size
            /\ m.length = MaxRequestBytes \/ m.begin + m.length = size
        BY <3>2, <3>3, <3>4, <2>2, <2>8, <2>9
      <3>7. /\ x \in PieceStates /\ FirstPiece(x, Append(data, m), size)
            /\ x.PieceIndex = y.PieceIndex /\ x.PieceSize = size /\ (y.Completed => x.Completed)
        BY <3>5, <3>6, NextBlock
      <3> QED
        BY <3>1, <3>2, <3>3, <3>4, <3>7, <2>8
    <2>. HIDE DEF e, d
    <2>11. DownloadState' \in Seq(PieceStates)
      <3>1. DownloadState' = [i \in 1 .. Len(DownloadState) |-> DownloadState'[i]]
        BY <2>5
      <3>2. \A i \in 1 .. Len(DownloadState) : DownloadState'[i] \in PieceStates
        <4>1. TAKE i \in 1 .. Len(DownloadState)
        <4>2. CASE i = 1
          <5>1. e \in PieceStates
            BY <2>10
          <5>2. DownloadState'[1] = e
            BY <2>5
          <5> QED
            BY <5>1, <5>2, <4>2
        <4>3. CASE i # 1
          <5>1. DownloadState[i] \in PieceStates
            BY <2>3
          <5>2. DownloadState'[i] = DownloadState[i]
            BY <4>3, <2>5
          <5> QED
            BY <5>1, <5>2
        <4> QED
          BY <4>2, <4>3
      <3>3. Len(DownloadState) \in Nat
        BY <2>4
      <3>4. PICK new : new = DownloadState'
        OBVIOUS
      <3>5. new = [i \in 1 .. Len(DownloadState) |-> new[i]]
            /\ \A i \in 1 .. Len(DownloadState) : new[i] \in PieceStates
        BY <3>1, <3>2, <3>4
      <3>6. new \in Seq(PieceStates)
        BY <3>3, <3>5
      <3> QED
        BY <3>4, <3>6
    <2>12. PieceData' \in Seq(Seq(PeerMessages)) /\ PieceData'[1] = Append(PieceData[1], m)
           /\ PieceData' # <<>>
      <3>1. Append(PieceData[1], m) \in Seq(PeerMessages)
        BY <2>8, <2>9
      <3> QED
        BY <3>1, <2>6
    <2>13. RecievedPieceMessages' \in Seq(Answers(pieces))
      <3>1. RecievedPieceMessages \in Seq(Answers(pieces))
        BY DEF PeerInv, DownloadType
      <3> QED
        BY <3>1, <2>1, <1>1
    <2>14. /\ FinishedAssignmentsWaiting' \in Nat
           /\ FinishedAssignmentsWaiting' >= FinishedAssignmentsWaiting
           /\ AssignedPiecesFinished' => FinishedAssignmentsWaiting' > 0
           /\ ~AssignedPiecesFinished' => FinishedAssignmentsWaiting' = FinishedAssignmentsWaiting
      BY <2>1, <2>3
    <2>15. DownloadType'
      <3>1. UNCHANGED <<written, requested, pieces, answered>>
        BY <1>1
      <3> QED
        BY <3>1, <2>1, <2>11, <2>12, <2>13, <2>14 DEF PeerInv, DownloadType
    <2>16. \A i \in 1 .. Len(pieces) : /\ DownloadState'[i].PieceIndex = i
                                       /\ DownloadState'[i].PieceSize = pieces[i]
      BY <2>4, <2>5, <2>10, <1>4 DEF Assigned
    <2>17. FirstPiece(DownloadState'[1], PieceData'[1], pieces[1])
      BY <2>5, <2>10, <2>12
    <2>18. FinishedAssignmentsWaiting' > 0 => DownloadState'[1].Completed
      <3>1. CASE AssignedPiecesFinished'
        BY <3>1, <2>7
      <3>2. CASE ~AssignedPiecesFinished'
        <4>1. FinishedAssignmentsWaiting' > 0 => d.Completed
          BY <3>2, <2>14, <1>4 DEF Assigned, d
        <4> QED
          BY <4>1, <2>5, <2>10
      <3> QED
        BY <3>1, <3>2
    <2>19. loop' = "transfers" => FinishedAssignmentsWaiting' > 0
      BY <2>1, <2>3, <2>14, <1>4 DEF Assigned
    <2>20. Assigned'
      <3>1. Len(AssignedPieces') = Len(pieces) /\ Len(DownloadState') = Len(pieces)
        BY <2>1, <2>4, <2>5, <1>4 DEF Assigned
      <3>2. pieces' = pieces
        BY <1>1
      <3> QED
        BY <3>1, <3>2, <2>2, <2>12, <2>16, <2>17, <2>18, <2>19 DEF Assigned, FirstPiece
    <2>21. loop' \in {"stores", "notifies", "waits", "transfers"}
      BY <2>1, <1>4
    <2>22. PeerStreamType' /\ HandledInOrder' /\ PeerFlow'
      BY <2>21, <1>1, <1>4, StreamKept DEF PeerInv
    <2> QED
      BY <2>15, <2>20, <2>21, <2>22 DEF PeerInv, AssignmentPhase
  <1> QED
    BY <1>5, <1>6

(* The steps of the retrieving thread that only wait.                      *)
LEMMA WaitingSteps ==
  ASSUME PeerInv, loop # "undefined", TestInterested \/ WaitInterested \/ AwaitPieces
  PROVE  PeerInv'
  <1>1. UNCHANGED <<pieces, stream, parse, RecievedPieceMessages, retrieval, asked, handler>>
    BY DEF TestInterested, WaitInterested, AwaitPieces
  <1>2. UNCHANGED <<written, loop>>
    BY <1>1 DEF stream, handler
  <1>3. PeerStreamType' /\ HandledInOrder' /\ PeerFlow'
    BY <1>1, <1>2, StreamKept DEF PeerInv
  <1>4. DownloadType' /\ AssignmentPhase'
    BY <1>1, <1>2, DownloadKept DEF PeerInv
  <1> QED
    BY <1>3, <1>4 DEF PeerInv

(* The download loop begins with nothing to transfer; once it has          *)
(* something, transferring it is the program's end.                        *)
LEMMA TransferAssignedPiecesStep ==
  ASSUME PeerInv, loop # "undefined", TransferAssignedPieces
  PROVE  PeerInv'
  <1>1. /\ loop = "transfers" /\ PieceData' = <<>> /\ AssignedPieces' = <<>>
        /\ loop' = IF AssignedPieces = <<>> THEN "resets" ELSE "undefined"
        /\ UNCHANGED <<pieces, stream, parse, written, RecievedPieceMessages, requested, answered,
                       CurrentPiece, DownloadState, FinishedAssignmentsWaiting>>
    BY DEF TransferAssignedPieces, asked, stream
  <1>2. loop' \notin {"connects", "handshakes"}
    BY <1>1
  <1>3. PeerStreamType' /\ HandledInOrder' /\ PeerFlow'
    BY <1>1, <1>2, StreamKept DEF PeerInv
  <1>4. DownloadType'
    <2>1. PieceData' \in Seq(Seq(PeerMessages)) /\ AssignedPieces' \in Seq(PieceStates)
      BY <1>1
    <2> QED
      BY <2>1, <1>1 DEF PeerInv, DownloadType
  <1>5. AssignmentPhase'
    <2>1. CASE Unassigned
      <3>1. loop' = "resets"
        BY <2>1, <1>1 DEF Unassigned
      <3>2. Unassigned'
        BY <2>1, <1>1 DEF Unassigned
      <3> QED
        BY <3>1, <3>2 DEF AssignmentPhase
    <2>2. CASE Assigned
      <3>1. FinishedAssignmentsWaiting > 0
        BY <2>2, <1>1 DEF Assigned
      <3>2. AssignedPieces # <<>>
        BY <3>1, <2>2 DEF Assigned, PeerInv, DownloadType
      <3>3. loop' = "undefined"
        BY <3>2, <1>1
      <3> QED
        BY <3>3, <1>1 DEF AssignmentPhase
    <2> QED
      BY <2>1, <2>2, <1>1 DEF PeerInv, AssignmentPhase
  <1> QED
    BY <1>3, <1>4, <1>5 DEF PeerInv

(* Nothing is reset but what is empty.                                     *)
LEMMA ResetDownloadStateStep ==
  ASSUME PeerInv, loop # "undefined", ResetDownloadState
  PROVE  PeerInv'
  <1>1. /\ loop = "resets" /\ loop' = "assigns" /\ CurrentPiece' = 1
        /\ RecievedPieceMessages' = <<>> /\ AssignedPieces' = <<>> /\ DownloadState' = <<>>
        /\ PieceData' = <<>>
        /\ UNCHANGED <<pieces, stream, parse, written, requested, answered,
                       FinishedAssignmentsWaiting>>
    BY DEF ResetDownloadState, asked, stream
  <1>2. Unassigned
    BY <1>1 DEF PeerInv, AssignmentPhase
  <1>3. PeerStreamType' /\ HandledInOrder' /\ PeerFlow'
    <2>1. loop \notin {"connects", "handshakes"} /\ loop' \notin {"connects", "handshakes"}
      BY <1>1
    <2> QED
      BY <2>1, <1>1, StreamKept DEF PeerInv
  <1>4. DownloadType'
    <2>1. /\ PieceData' \in Seq(Seq(PeerMessages)) /\ AssignedPieces' \in Seq(PieceStates)
          /\ DownloadState' \in Seq(PieceStates)
          /\ RecievedPieceMessages' \in Seq(Answers(pieces')) /\ CurrentPiece' \in Nat \ {0}
      BY <1>1
    <2> QED
      BY <2>1, <1>1 DEF PeerInv, DownloadType
  <1>5. Unassigned'
    BY <1>1, <1>2 DEF Unassigned
  <1> QED
    BY <1>1, <1>3, <1>4, <1>5 DEF PeerInv, AssignmentPhase

(* The pieces are assigned: nothing of them is there.                      *)
LEMMA AssignPiecesStep ==
  ASSUME PeerInv, loop # "undefined", AssignPieces
  PROVE  PeerInv'
  <1>1. /\ loop = "assigns" /\ loop' = "stores"
        /\ DownloadState' = [i \in 1 .. Len(pieces) |->
              [PieceIndex |-> i, PieceSize |-> pieces[i], CurrentOffset |-> 0,
               Completed |-> FALSE]]
        /\ AssignedPieces' = DownloadState' /\ PieceData' = Append(PieceData, <<>>)
        /\ UNCHANGED <<pieces, stream, parse, written, RecievedPieceMessages, requested, answered,
                       CurrentPiece, FinishedAssignmentsWaiting>>
    BY DEF AssignPieces, asked, stream
  <1>2. Unassigned
    BY <1>1 DEF PeerInv, AssignmentPhase
  <1>3. PeerStreamType' /\ HandledInOrder' /\ PeerFlow'
    <2>1. loop \notin {"connects", "handshakes"} /\ loop' \notin {"connects", "handshakes"}
      BY <1>1
    <2> QED
      BY <2>1, <1>1, StreamKept DEF PeerInv
  <1>4. pieces \in Seq(Nat) /\ Len(pieces) \in Nat /\ \A i \in 1 .. Len(pieces) : pieces[i] \in Nat
    BY DEF PeerInv, DownloadType
  <1>5. /\ DownloadState' \in Seq(PieceStates) /\ Len(DownloadState') = Len(pieces)
        /\ \A i \in 1 .. Len(pieces) :
              /\ DownloadState'[i].PieceIndex = i /\ DownloadState'[i].PieceSize = pieces[i]
              /\ DownloadState'[i].CurrentOffset = 0 /\ DownloadState'[i].Completed = FALSE
    <2>1. \A i \in 1 .. Len(pieces) :
             [PieceIndex |-> i, PieceSize |-> pieces[i], CurrentOffset |-> 0,
              Completed |-> FALSE] \in PieceStates
      BY <1>4 DEF PieceStates
    <2> QED
      BY <2>1, <1>1, <1>4
  <1>6. PieceData' = <<<<>>>> /\ PieceData' # <<>> /\ PieceData'[1] = <<>>
        /\ PieceData' \in Seq(Seq(PeerMessages))
    <2>1. <<>> \in Seq(PeerMessages)
      OBVIOUS
    <2> QED
      BY <2>1, <1>1, <1>2 DEF Unassigned
  <1>7. DownloadType'
    BY <1>1, <1>5, <1>6 DEF PeerInv, DownloadType
  <1>8. FinishedAssignmentsWaiting' = 0
    BY <1>1, <1>2 DEF Unassigned
  <1>9. pieces # <<>> => FirstPiece(DownloadState'[1], PieceData'[1], pieces[1])
    <2>1. SUFFICES ASSUME pieces # <<>>
                   PROVE  FirstPiece(DownloadState'[1], PieceData'[1], pieces[1])
      OBVIOUS
    <2>2. 1 \in 1 .. Len(pieces)
      BY <2>1, <1>4
    <2>3. DownloadState'[1].CurrentOffset = 0 /\ DownloadState'[1].Completed = FALSE
      BY <2>2, <1>5
    <2>4. Len(<<>>) * MaxRequestBytes = 0 /\ Len(<<>>) = 0
      BY PeerAssumption
    <2> QED
      BY <2>3, <2>4, <1>6 DEF FirstPiece
  <1>10. Assigned'
    <2>1. Len(AssignedPieces') = Len(pieces) /\ loop' # "transfers" /\ pieces' = pieces
      BY <1>1, <1>5
    <2> QED
      BY <2>1, <1>5, <1>6, <1>8, <1>9 DEF Assigned, FirstPiece
  <1> QED
    BY <1>1, <1>3, <1>7, <1>10 DEF PeerInv, AssignmentPhase

(* Interested is set and the retrieving thread notified; the download loop *)
(* waits, or goes on with what was finished before.                        *)
LEMMA NotifyingSteps ==
  ASSUME PeerInv, loop # "undefined", StoreInterested \/ NotifyAssigned
  PROVE  PeerInv'
  <1>1. /\ loop \in {"stores", "notifies"}
        /\ \/ loop' = "notifies" \/ loop' = "waits"
           \/ loop' = "transfers" /\ FinishedAssignmentsWaiting # 0
        /\ UNCHANGED <<pieces, stream, parse, written, RecievedPieceMessages, retrieval,
                       requested, answered, FinishedAssignmentsWaiting>>
    BY DEF StoreInterested, NotifyAssigned, asked, stream
  <1>2. UNCHANGED <<CurrentPiece, AssignedPieces, DownloadState, PieceData>>
    BY <1>1 DEF retrieval
  <1>3. Assigned
    BY <1>1 DEF PeerInv, AssignmentPhase
  <1>4. PeerStreamType' /\ HandledInOrder' /\ PeerFlow'
    <2>1. loop \notin {"connects", "handshakes"} /\ loop' \notin {"connects", "handshakes"}
      BY <1>1
    <2> QED
      BY <2>1, <1>1, StreamKept DEF PeerInv
  <1>5. DownloadType'
    BY <1>1, <1>2 DEF PeerInv, DownloadType
  <1>6. loop' = "transfers" => FinishedAssignmentsWaiting > 0
    BY <1>1 DEF PeerInv, DownloadType
  <1>7. Assigned'
    BY <1>1, <1>2, <1>3, <1>6 DEF Assigned
  <1>8. loop' \in {"stores", "notifies", "waits", "transfers"}
    BY <1>1
  <1> QED
    BY <1>4, <1>5, <1>7, <1>8 DEF PeerInv, AssignmentPhase

(* A finished assignment has the first piece's data from its beginning to  *)
(* its end, and the messages were handled in order.                        *)
LEMMA DataInOrder ==
  ASSUME PeerInv
  PROVE  PeerDataInOrder
  <1>1. \A k \in 1 .. Len(handled) : handled[k] = UnitsOf(k, written[k])
    BY DEF PeerInv, HandledInOrder
  <1>2. ASSUME FinishedAssignmentsWaiting > 0, PieceData # <<>>
        PROVE  /\ \A k \in 1 .. Len(PieceData[1]) :
                     PieceData[1][k].begin = (k - 1) * MaxRequestBytes
               /\ DownloadState[1].CurrentOffset = pieces[1]
    <2>1. Assigned
      BY <1>2 DEF PeerInv, AssignmentPhase, Unassigned
    <2>2. FirstPiece(DownloadState[1], PieceData[1], pieces[1]) /\ DownloadState[1].Completed
      BY <2>1, <1>2 DEF Assigned
    <2> QED
      BY <2>2 DEF FirstPiece
  <1> QED
    BY <1>1, <1>2 DEF PeerDataInOrder

(* How much of the handshake has come is a number.                         *)
LEMMA HandshakeCounted ==
  ASSUME PeerHandshake \in Int, [PeerNext]_peerVars
  PROVE  PeerHandshake' \in Int
  <1>1. CASE UNCHANGED stream
    BY <1>1 DEF stream
  <1>2. CASE InitiateConnection \/ Disconnect \/ PeerWrites \/ PeerAnswers \/ p_RecievePeerMessagesHandler
    BY <1>2 DEF InitiateConnection, Disconnect, PeerWrites, PeerAnswers, p_RecievePeerMessagesHandler
  <1>3. CASE p_InitiateHandshake
    <2>1. PICK n \in 1..(2 - PeerHandshake + Len(OnTheWay)) :
             PeerHandshake' = PeerHandshake + n \/ PeerHandshake' = 2
      BY <1>3 DEF p_InitiateHandshake
    <2> QED
      BY <2>1
  <1>4. CASE \/ StartDownload \/ TestInterested \/ WaitInterested \/ RequestPieces \/ AwaitPieces
             \/ RetrievePiece \/ TransferAssignedPieces \/ ResetDownloadState \/ AssignPieces
             \/ StoreInterested \/ NotifyAssigned
    BY <1>4 DEF StartDownload, TestInterested, WaitInterested, RequestPieces, AwaitPieces,
       RetrievePiece, TransferAssignedPieces, ResetDownloadState, AssignPieces, StoreInterested,
       NotifyAssigned, stream
  <1> QED
    BY <1>1, <1>2, <1>3, <1>4 DEF PeerNext, peerVars

(* However the streams are cut, p_HandleMessage is given the messages      *)
(* received whole, each once and in order, those left by a peer that was   *)
(* given up first, and an assignment is reported as finished only when the *)
(* piece's data is there from its beginning to its end, as long as no peer *)
(* that was given up has left part of a message.                           *)
THEOREM PeerDataStaysInOrder == PeerInit /\ [][PeerNext]_peerVars => []PeerDataInOrder
  <1>. DEFINE Inv == PeerHandshake \in Int /\ (torn \/ PeerInv)
  <1>1. PeerInit => Inv
    <2>0. PeerInit => PeerHandshake \in Int
      <3>1. PeerInit => PeerHandshake = 0
        BY DEF PeerInit
      <3> QED
        BY <3>1
    <2>1. SUFFICES ASSUME PeerInit PROVE PeerInv
      BY <2>0
    <2>2. PeerStreamType
      <3>1. /\ <<>> \in Seq(PeerMessages) /\ <<>> \in Seq(PeerUnit) /\ <<>> \in Seq(Seq(PeerUnit))
        OBVIOUS
      <3>2. IsConnected \in BOOLEAN
        BY <2>1 DEF PeerInit
      <3>3. CurrentMessageSize \in Int
        BY <2>1 DEF PeerInit
      <3>4. /\ written = <<>> /\ OnTheWay = <<>> /\ NewMessageData = <<>>
            /\ CurrentMessage = <<>> /\ handled = <<>>
        BY <2>1 DEF PeerInit
      <3> QED
        BY <3>1, <3>2, <3>3, <3>4 DEF PeerStreamType
    <2>3. DownloadType
      <3>1. /\ <<>> \in Seq(PieceStates) /\ <<>> \in Seq(Answers(pieces))
            /\ <<>> \in Seq(Seq(PeerMessages)) /\ pieces \in Seq(Nat)
        BY <2>1, PeerAssumption DEF PeerInit
      <3>2. \A i \in 1 .. Len(written) : FALSE
        BY <2>1 DEF PeerInit
      <3> QED
        BY <2>1, <3>1, <3>2 DEF PeerInit, DownloadType
    <2>4. PeerFlow
      <3>1. Len(<<>>) = 0 /\ <<>> \in Seq(PeerUnit)
        OBVIOUS
      <3>2. InOrder(<<>>, <<>>, 1)
        BY <3>1 DEF InOrder
      <3> QED
        BY <2>1, <3>2 DEF PeerInit, PeerFlow, ConnectingToPeer
    <2>5. HandledInOrder /\ AssignmentPhase
      BY <2>1 DEF PeerInit, HandledInOrder, AssignmentPhase, Unassigned
    <2> QED
      BY <2>2, <2>3, <2>4, <2>5 DEF PeerInv
  <1>2. Inv /\ [PeerNext]_peerVars => Inv'
    <2>0. Inv /\ [PeerNext]_peerVars => PeerHandshake' \in Int
      BY HandshakeCounted
    <2>1. SUFFICES ASSUME Inv, [PeerNext]_peerVars, ~ torn' PROVE PeerInv'
      BY <2>0
    <2>2. CASE UNCHANGED peerVars
      <3>0. PeerInv
        BY <2>1, <2>2 DEF peerVars, stream
      <3>1. UNCHANGED <<pieces, IsConnected, written, OnTheWay, CurrentMessageSize,
                        CurrentMessage, NewMessageData, receive, handled>>
        BY <2>2 DEF peerVars, stream, parse
      <3>2. UNCHANGED <<RecievedPieceMessages, requested, answered, CurrentPiece, DownloadState,
                        AssignedPieces, PieceData, loop, FinishedAssignmentsWaiting>>
        BY <2>2 DEF peerVars, retrieval, asked, handler
      <3>3. PeerStreamType' /\ HandledInOrder' /\ PeerFlow'
        BY <3>0, <3>1, <3>2
           DEF PeerInv, PeerStreamType, HandledInOrder, PeerFlow, ConnectingToPeer, TransferringFromPeer
      <3>4. DownloadType' /\ AssignmentPhase'
        BY <3>0, <3>1, <3>2 DEF PeerInv, DownloadType, AssignmentPhase, Unassigned, Assigned
      <3> QED
        BY <3>3, <3>4 DEF PeerInv
    <2>3. CASE PeerNext
      <3>1. loop # "undefined"
        BY <2>3 DEF PeerNext
      <3>2. CASE p_InitiateHandshake
        <4>1. ~ torn
          BY <2>1, <3>2 DEF p_InitiateHandshake
        <4> QED
          BY <2>1, <3>1, <3>2, <4>1, p_InitiateHandshakeStep
      <3>3. CASE InitiateConnection \/ StartDownload \/ Disconnect
        <4>1. ~ torn
          BY <2>1, <3>3 DEF InitiateConnection, StartDownload, Disconnect, stream
        <4> QED
          BY <2>1, <3>1, <3>3, <4>1, InitiateConnectionStep, DisconnectStep
      <3>4. CASE PeerWrites \/ PeerAnswers \/ p_RecievePeerMessagesHandler
        <4>1. ~ torn
          BY <2>1, <3>4 DEF PeerWrites, PeerAnswers, p_RecievePeerMessagesHandler
        <4> QED
          BY <2>1, <3>1, <3>4, <4>1, PeerWritesStep, PeerAnswersStep,
             p_RecievePeerMessagesHandlerStep
      <3>5. CASE TestInterested \/ WaitInterested \/ RequestPieces \/ AwaitPieces \/ RetrievePiece
        <4>1. ~ torn
          BY <2>1, <3>5 DEF TestInterested, WaitInterested, RequestPieces, AwaitPieces,
             RetrievePiece, stream
        <4> QED
          BY <2>1, <3>1, <3>5, <4>1, WaitingSteps, RequestPiecesStep, RetrievePieceStep
      <3>6. CASE \/ TransferAssignedPieces \/ ResetDownloadState \/ AssignPieces
                 \/ StoreInterested \/ NotifyAssigned
        <4>1. ~ torn
          BY <2>1, <3>6 DEF TransferAssignedPieces, ResetDownloadState, AssignPieces,
             StoreInterested, NotifyAssigned, stream
        <4> QED
          BY <2>1, <3>1, <3>6, <4>1, TransferAssignedPiecesStep, ResetDownloadStateStep,
             AssignPiecesStep, NotifyingSteps
      <3> QED
        BY <2>3, <3>2, <3>3, <3>4, <3>5, <3>6 DEF PeerNext
    <2> QED
      BY <2>1, <2>2, <2>3
  <1>3. Inv => PeerDataInOrder
    BY DataInOrder DEF PeerDataInOrder
  <1>. HIDE DEF Inv
  <1> QED
    BY <1>1, <1>2, <1>3, PTL
=============================================================================
