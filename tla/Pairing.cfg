SPECIFICATION Spec
CONSTANTS
    QrFlows = {q1}
    CodeFlows = {p1, p2}
    Stream = stream
    Adv0 = adv0
    Junk = junk
    None = none
    BusCapacity = 2
    Drops = 1
INVARIANTS PairingInv PairedTogether SecretsAgree MemoryFresh
PROPERTIES PairingSurvives WindowIsSilent RealDropShown
SYMMETRY Symmetry
CHECK_DEADLOCK FALSE
