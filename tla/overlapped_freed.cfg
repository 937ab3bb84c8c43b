SPECIFICATION Spec
CONSTANTS
    Ops = {o1, o2}
    Kinds = {"read"}
    Addrs = {a1, a2}
    None = None
INVARIANT FreedAfterPacket
