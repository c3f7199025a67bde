\* Packets of all shapes, cut to three bytes of payload.
SPECIFICATION FairSpec
CONSTANTS
    Packets <- TryPackets
    TRUNCATE_PAYLOAD_BYTES = 3
INVARIANTS TypeOK FoldingKeeps ReceiverAccepts UdpChecksumPresent OthersKept
PROPERTIES Terminates
CHECK_DEADLOCK FALSE
