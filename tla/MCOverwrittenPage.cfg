\* 2 compiling process(es), 2 keys, 3 inodes; claims of the dead stay, so all may stop.
SPECIFICATION PublicationSpec
CONSTANTS
    Worker = {w1, w2}
    Key = {k1, k2}
    Inode = {i1, i2, i3}
    Retirer = retirer
    None = None
    Torn = Torn
SYMMETRY Inodes
CHECK_DEADLOCK FALSE
PROPERTY NothingIsOverwritten
