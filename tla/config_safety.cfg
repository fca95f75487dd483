\* Four options, up to two lines in the file.
SPECIFICATION Spec
CONSTANTS
    Texts <- SomeTexts
    Ports <- SomePorts
    Values = {v1, v2}
    NotAPort = NotAPort
    Default = Default
    Absent = Absent
    Unknown = Unknown
    MaxLines = 2
INVARIANTS
    Precedence
    AddressIsNotMixed
\* The configuration is read once.
CHECK_DEADLOCK FALSE
