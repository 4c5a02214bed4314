--------------------------- MODULE MCSshConnection ---------------------------
(* Instances of SshConnection for TLC: two machines behind the jump host   *)
(* and one that is reached directly.                                       *)
EXTENDS SshConnection

CONSTANTS web, db, lone

Three == {web, db, lone}
Two == {web, db}

==============================================================================
