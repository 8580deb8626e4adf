\* 1 compiling process(es), 1 keys, 3 inodes; claims of the dead stay, so all may stop.
SPECIFICATION RetryingSpec
CONSTANTS
    Worker = {w1}
    Key = {k1}
    Inode = {i1, i2, i3}
    Retirer = retirer
    None = None
    Torn = Torn
CHECK_DEADLOCK FALSE
PROPERTY RetireIsIdempotent
