SPECIFICATION Spec
CONSTANTS
    Nodes = {n1, n2}
    Bytes <- BytesUsed
    Names <- NamesUsed
    MaxHops = 2
    Fields <- FieldsReported
    MaxChain = 2
    Signal = Signal
    Fresh = Fresh
    Junk = Junk
    Nothing = Nothing
INVARIANTS
    SentIsReceived
    LearnsWhatWasSigned
