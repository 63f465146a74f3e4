--------------------------- MODULE MCPrivacyLock ----------------------------
(* PrivacyLock for TLC: sessions and passwords are interchangeable.        *)
EXTENDS PrivacyLock, TLC

MCSymmetry == Permutations(Sessions) \cup Permutations(Passwords)
=============================================================================
