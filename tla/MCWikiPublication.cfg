\* Two processes, three keys, five inodes; claims of the dead stay, so all may stop.
SPECIFICATION PublicationSpec
CONSTANTS
    Worker = {w1, w2}
    Key = {k1, k2, k3}
    Inode = {i1, i2, i3, i4, i5}
    Retirer = retirer
    None = None
    Torn = Torn
SYMMETRY Inodes
CHECK_DEADLOCK FALSE
INVARIANTS OneWorkerPerKey SucceededIsKept PublishedIsWhole
