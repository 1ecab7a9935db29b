\* Two commands on a clock that wraps after 16 ms, kept for 4 ms, read at most 1 ms late.
SPECIFICATION Spec
CONSTANTS
    None = None
    Keys = {"k1", "k2"}
    Retention = 4
    ClockSize = 16
    MaxLag = 1
PROPERTY ResultRetained
