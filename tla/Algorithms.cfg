SPECIFICATION Spec
INVARIANTS
    TlsMessagesAgree
    NumbersAgree
    TextsAgree
    WiresAgree
    SearchesAgree
CHECK_DEADLOCK FALSE
