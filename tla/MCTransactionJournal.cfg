SPECIFICATION JournalSpec
CONSTANTS
    Process = {p1, p2}
    MaxLines = 5
    Nobody = Nobody
INVARIANTS JournalTypeOK HistoryIsReliable
PROPERTIES ImplementsLog
