SPECIFICATION Spec
CONSTANTS
  Owners = {o1, o2, o3}
  Uids = {u1, u2}
INVARIANT OneEntryPerOwner
INVARIANT OneController
PROPERTY OthersKept
