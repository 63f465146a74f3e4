---------------------------- MODULE MCBackupSwap ----------------------------
(* BackupSwap for TLC: one good backup file and one of each bad sort.      *)
EXTENDS BackupSwap

CONSTANTS old, new

MCRows == Pages \cup {old, new}
MCUploads == {Database({new}), [kind |-> "mismatched", rows |-> {new}],
              [kind |-> "damaged", rows |-> {}], [kind |-> "garbage", rows |-> {}]}
=============================================================================
