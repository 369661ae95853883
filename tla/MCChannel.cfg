SPECIFICATION ChannelSpec
CONSTANTS
    Cap = 2
    Sender = {s1, s2}
    Receiver = {r1, r2}
    FirstSender = s1
    FirstReceiver = r1
    MaxMsgs = 3
    Laps = 4
    StartLaps = {3}
SYMMETRY Symmetry
INVARIANTS
    SlotExclusive LenIsExact DropsTheRest
    NoSenderStranded NoReceiverStranded NoStreamStranded DisconnectIsHeard
PROPERTY ImplementsQueue
