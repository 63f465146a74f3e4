---------------------------- MODULE PrivacyLock -----------------------------
(***************************************************************************)
(* Privacy mode (ui/privacy.py) in several browser sessions at once: the   *)
(* hash of the password in the settings table, what each session has       *)
(* cached of it, the form that sets it (views/4_Settings.py) and the lock  *)
(* in the sidebar, while imports bring other databases (in one step each;  *)
(* BackupSwap has theirs).                                                 *)
(*                                                                         *)
(* A hash is the password it is of; Malformed stands for one that bcrypt   *)
(* cannot read.  A script of a session runs alone but for what other       *)
(* sessions do between its steps: bcrypt takes its time, and the row is    *)
(* looked up in a transaction that inserts it later.                       *)
(***************************************************************************)
EXTENDS Naturals

CONSTANTS
  Sessions,       \* browser sessions; a reload of the page begins a new one
  Passwords,      \* passwords that users type
  Malformed,      \* a hash that is none
  MaxImports,     \* bound: imports
  None,           \* no hash stored; cached as ""
  Unread          \* nothing cached yet

ASSUME PrivacyAssumption ==
  /\ MaxImports \in Nat
  /\ Malformed \notin Passwords
  /\ None \notin Passwords \cup {Malformed}
  /\ Unread \notin Passwords \cup {Malformed, None}

VARIABLES
  stored,         \* value of mask_password_hash in the live database
  file,           \* which database that is: the number of imports
  cache,          \* session -> _HASH_CACHE_KEY
  looked,         \* session -> the database its cache was filled from
  unlocked,       \* session -> SESSION_KEY
  form,           \* session -> the set_password going on, or None
  entered         \* session -> passwords typed into its sidebar so far

vars == <<stored, file, cache, looked, unlocked, form, entered>>

Hash == Passwords \cup {Malformed}
Form == [at : {"hashing", "inserting"}, password : Passwords, file : 0 .. MaxImports]

Init ==
  /\ stored \in Passwords \cup {None}
  /\ file = 0
  /\ cache = [s \in Sessions |-> Unread]
  /\ looked = [s \in Sessions |-> 0]
  /\ unlocked = [s \in Sessions |-> FALSE]
  /\ form = [s \in Sessions |-> None]
  /\ entered = [s \in Sessions |-> {}]

\* The first use of _password_hash in a session.
Look(s) ==
  /\ cache[s] = Unread
  /\ cache' = [cache EXCEPT ![s] = stored]
  /\ looked' = [looked EXCEPT ![s] = file]
  /\ UNCHANGED <<stored, file, unlocked, form, entered>>

-----------------------------------------------------------------------------
(* set_password.                                                           *)

\* Fault: the cache is filled before the hash is stored.
SubmitCaching(s, p) ==
  /\ cache[s] = None /\ form[s] = None
  /\ form' = [form EXCEPT ![s] = [at |-> "hashing", password |-> p, file |-> file]]
  /\ cache' = [cache EXCEPT ![s] = p]
  /\ looked' = [looked EXCEPT ![s] = file]
  /\ UNCHANGED <<stored, file, unlocked, entered>>

\* The form is there as long as the session knows of no password.
Submit(s, p) ==
  /\ cache[s] = None /\ form[s] = None
  /\ form' = [form EXCEPT ![s] = [at |-> "hashing", password |-> p, file |-> file]]
  /\ UNCHANGED <<stored, file, cache, looked, unlocked, entered>>

\* store_password_hash opens a transaction and looks for the row: "already set",
\* or it is going to be inserted.
CheckRow(s) ==
  /\ form[s] # None /\ form[s].at = "hashing"
  /\ form' = [form EXCEPT ![s] =
       IF stored # None THEN None ELSE [@ EXCEPT !.at = "inserting", !.file = file]]
  /\ UNCHANGED <<stored, file, cache, looked, unlocked, entered>>

\* Fault: the row is written whether it is there or not.
InsertOver(s) ==
  /\ form[s] # None /\ form[s].at = "inserting"
  /\ form' = [form EXCEPT ![s] = None]
  /\ stored' = form[s].password
  /\ cache' = [cache EXCEPT ![s] = form[s].password]
  /\ looked' = [looked EXCEPT ![s] = file]
  /\ UNCHANGED <<file, unlocked, entered>>

\* The row is committed and cached.  It is refused if another session was faster
\* (its key is the primary key) or if the file was moved away by an import.
Insert(s) ==
  /\ form[s] # None /\ form[s].at = "inserting"
  /\ form' = [form EXCEPT ![s] = None]
  /\ IF stored = None /\ form[s].file = file
     THEN /\ stored' = form[s].password
          /\ cache' = [cache EXCEPT ![s] = form[s].password]
          /\ looked' = [looked EXCEPT ![s] = file]
     ELSE UNCHANGED <<stored, cache, looked>>
  /\ UNCHANGED <<file, unlocked, entered>>

-----------------------------------------------------------------------------
(* The sidebar.                                                            *)

Enabled(s) == cache[s] \in Hash
Visible(s) == cache[s] # Unread /\ (Enabled(s) => unlocked[s])

\* Fault: a hash that cannot be read lets everybody in.
VerifyUnlessUnreadable(s, p) == cache[s] \in {p, Malformed}

\* verify_password, against the hash this session has cached.
Verify(s, p) == cache[s] = p

Unlock(s, p) ==
  /\ Enabled(s) /\ ~unlocked[s] /\ form[s] = None
  /\ entered' = [entered EXCEPT ![s] = @ \cup {p}]
  /\ unlocked' = [unlocked EXCEPT ![s] = Verify(s, p)]
  /\ UNCHANGED <<stored, file, cache, looked, form>>

Lock(s) ==
  /\ Enabled(s) /\ unlocked[s] /\ form[s] = None
  /\ unlocked' = [unlocked EXCEPT ![s] = FALSE]
  /\ UNCHANGED <<stored, file, cache, looked, form, entered>>

-----------------------------------------------------------------------------
(* Around it.                                                              *)

\* Fault: the flag outlives the session.
ReloadKeepingFlag(s) ==
  /\ cache[s] # Unread /\ form[s] = None
  /\ cache' = [cache EXCEPT ![s] = Unread]
  /\ looked' = [looked EXCEPT ![s] = 0]
  /\ entered' = [entered EXCEPT ![s] = {}]
  /\ UNCHANGED <<stored, file, unlocked, form>>

\* The page is reloaded: a session of its own, with nothing in it.
Reload(s) ==
  /\ cache[s] # Unread /\ form[s] = None
  /\ cache' = [cache EXCEPT ![s] = Unread]
  /\ looked' = [looked EXCEPT ![s] = 0]
  /\ unlocked' = [unlocked EXCEPT ![s] = FALSE]
  /\ entered' = [entered EXCEPT ![s] = {}]
  /\ UNCHANGED <<stored, file, form>>

\* An import puts another database in place, hash and all; no cache is told.
Import(hash) ==
  /\ file < MaxImports
  /\ file' = file + 1
  /\ stored' = hash
  /\ UNCHANGED <<cache, looked, unlocked, form, entered>>

Next ==
  \/ \E s \in Sessions, p \in Passwords : Submit(s, p) \/ Unlock(s, p)
  \/ \E s \in Sessions : Look(s) \/ CheckRow(s) \/ Insert(s) \/ Lock(s) \/ Reload(s)
  \/ \E hash \in Hash \cup {None} : Import(hash)

Spec == Init /\ [][Next]_vars

-----------------------------------------------------------------------------
(* Properties.                                                             *)

\* What is stored, cached and typed has its type; what is unlocked is locked by a
\* hash the session knows.
TypeOK ==
  /\ stored \in Hash \cup {None}
  /\ file \in 0 .. MaxImports
  /\ cache \in [Sessions -> Hash \cup {None, Unread}]
  /\ looked \in [Sessions -> 0 .. MaxImports]
  /\ unlocked \in [Sessions -> BOOLEAN]
  /\ \A s \in Sessions : unlocked[s] => Enabled(s)
  /\ form \in [Sessions -> Form \cup {None}]
  /\ entered \in [Sessions -> SUBSET Passwords]

\* "The password is immutable once set" (privacy.py): however many sessions have
\* the form open, only an import ever replaces or removes it.
PasswordIsImmutable ==
  [][stored # None /\ stored' # stored => file' # file]_vars

\* "Safe to cache" (privacy.py): as long as the database is the one a session has
\* looked at, a hash it has cached is the stored one; a session that was refused
\* its own password never goes by it.
CachedHashIsStored ==
  \A s \in Sessions :
    Enabled(s) /\ looked[s] = file => cache[s] = stored

\* "Masked on every reload" (README.md): a session shows the values only if it
\* looked when no password was set, or the stored one has been typed into it.
MaskedUntilEntered ==
  \A s \in Sessions :
    Visible(s) /\ looked[s] = file => cache[s] = None \/ stored \in entered[s]
=============================================================================
