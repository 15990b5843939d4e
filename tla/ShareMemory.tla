----------------------------- MODULE ShareMemory -----------------------------
(***************************************************************************)
(* ShareMemory (share_memory.h) with its NamedMutex (named_mutex.h) and    *)
(* its CEnsureCleanup members (ensure_clean_up.h): each process has one    *)
(* object and one thread that uses it, and may die at any moment.          *)
(*                                                                         *)
(* The kernel keeps file mappings and mutexes in one space of names.  A    *)
(* name is gone when the last handle to its object is closed; the object   *)
(* of a view without a handle lives on without a name.                     *)
(***************************************************************************)
CONSTANTS
  Processes,
  Names,        \* what Create and Open are called with
  AllNames,     \* these and the names of the mutexes
  MutexName,    \* "%s_mutex"
  Sections, Mutexes,  \* kernel objects
  None

ASSUME ShareAssumption ==
  /\ Names \subseteq AllNames
  /\ MutexName \in [Names -> AllNames]
  /\ \A m, n \in Names : MutexName[m] = MutexName[n] => m = n
  /\ None \notin Processes \cup Sections \cup Mutexes \cup AllNames
  /\ Sections \cap Mutexes = {}

VARIABLES
  named,        \* the object of each name
  owner,        \* of each mutex
  abandoned,    \* the mutexes whose owner died
  file_map_, mtx_, share_mem_,  \* of the object of each process
  at,           \* where each process is
  name,         \* the argument of its last Create or Open
  opened        \* that call returned true

kernel == <<named, owner, abandoned>>
members == <<file_map_, mtx_, share_mem_>>
vars == <<kernel, members, at, name, opened>>

Init ==
  /\ named = [n \in AllNames |-> None]
  /\ owner = [m \in Mutexes |-> None]
  /\ abandoned = {}
  /\ file_map_ = [p \in Processes |-> None]
  /\ mtx_ = [p \in Processes |-> None]
  /\ share_mem_ = [p \in Processes |-> None]
  /\ at = [p \in Processes |-> "idle"]
  /\ name = [p \in Processes |-> None]
  /\ opened = [p \in Processes |-> FALSE]

Goto(p, label) == at' = [at EXCEPT ![p] = label]

-----------------------------------------------------------------------------
(* The kernel *)

\* The names when the members with handles become fm and mx, new being the object
\* that the name n was created or opened for, or None.
NamesAfter(fm, mx, n, new) ==
  [k \in AllNames |->
     IF k = n /\ new # None THEN new
     ELSE IF \E p \in Processes : named[k] \in {fm[p], mx[p]} THEN named[k] ELSE None]

StillOpen(mx) == {m \in Mutexes : \E p \in Processes : mx[p] = m}

NewSections == {s \in Sections : \A p \in Processes : s \notin {file_map_[p], share_mem_[p]}}

NewMutexes == Mutexes \ StillOpen(mtx_)

\* What the creation of an object under the name n returns: the one that has the
\* name, if it is of this kind, or a new one, or nothing.
Made(n, kind, new) ==
  {None} \cup IF named[n] = None THEN new ELSE {named[n]} \cap kind

-----------------------------------------------------------------------------
(* Create and Open *)

\* file_map_ = CreateFileMapping or OpenFileMapping(n).  The old handle is closed
\* when there is a new value; without one the call returns, the old view and the
\* old mutex being kept.
AssignFileMap(p, n, s) ==
  LET fm == [file_map_ EXCEPT ![p] = s]
  IN  /\ at[p] = "idle"
      /\ file_map_' = fm
      /\ named' = NamesAfter(fm, mtx_, n, s)
      /\ name' = [name EXCEPT ![p] = n]
      /\ opened' = [opened EXCEPT ![p] = FALSE]
      /\ Goto(p, IF s = None THEN "idle" ELSE "map")
      /\ UNCHANGED <<owner, abandoned, mtx_, share_mem_>>

Create(p, n) == \E s \in Made(n, Sections, NewSections) : AssignFileMap(p, n, s)

Open(p, n) == \E s \in Made(n, Sections, {}) : AssignFileMap(p, n, s)

\* Mutant: the mapping is closed as soon as there is a view of it.
MapAndClose(p) ==
  LET fm == [file_map_ EXCEPT ![p] = None]
  IN  /\ at[p] = "map"
      /\ share_mem_' = [share_mem_ EXCEPT ![p] = file_map_[p]]
      /\ file_map_' = fm
      /\ named' = NamesAfter(fm, mtx_, None, None)
      /\ Goto(p, "mutex")
      /\ UNCHANGED <<owner, abandoned, mtx_, name, opened>>

\* share_mem_ = MapViewOfFile(file_map_)
MapViewOfFile(p) ==
  /\ at[p] = "map"
  /\ \E v \in {file_map_[p], None} :
       /\ share_mem_' = [share_mem_ EXCEPT ![p] = v]
       /\ Goto(p, IF v = None THEN "idle" ELSE "mutex")
  /\ UNCHANGED <<kernel, file_map_, mtx_, name, opened>>

\* mtx_.Create(name_mutex): the old handle is closed, and the call returns
\* whether there is a new one.
CreateMutex(p) ==
  LET n == MutexName[name[p]]
  IN  /\ at[p] = "mutex"
      /\ \E m \in Made(n, Mutexes, NewMutexes) :
           LET mx == [mtx_ EXCEPT ![p] = m]
           IN  /\ mtx_' = mx
               /\ named' = NamesAfter(file_map_, mx, n, m)
               /\ abandoned' = abandoned \cap StillOpen(mx)
               /\ opened' = [opened EXCEPT ![p] = (m # None)]
      /\ Goto(p, "idle")
      /\ UNCHANGED <<owner, file_map_, share_mem_, name>>

-----------------------------------------------------------------------------
(* Use *)

\* if (share_mem_.IsValid())
BeginUse(p) ==
  /\ at[p] = "idle"
  /\ share_mem_[p] # None
  /\ Goto(p, "lock")
  /\ UNCHANGED <<kernel, members, name, opened>>

\* NamedMutexAutoLock: the result of Lock is not looked at.  Without a mutex the
\* wait fails and user_fn is called all the same; a mutex that was abandoned is
\* taken, though Lock returns false.
LockNothing(p) ==
  /\ at[p] = "lock"
  /\ mtx_[p] = None
  /\ Goto(p, "use")
  /\ UNCHANGED <<kernel, members, name, opened>>

Lock(p) ==
  /\ at[p] = "lock"
  /\ mtx_[p] # None
  /\ owner[mtx_[p]] = None
  /\ owner' = [owner EXCEPT ![mtx_[p]] = p]
  /\ abandoned' = abandoned \ {mtx_[p]}
  /\ Goto(p, IF mtx_[p] \in abandoned THEN "use after death" ELSE "use")
  /\ UNCHANGED <<named, members, name, opened>>

InUse(p) == at[p] \in {"use", "use after death"}

\* Mutant: unlocked only if Lock returned true.
EndUseChecked(p) ==
  /\ InUse(p)
  /\ owner' = IF at[p] = "use" THEN [m \in Mutexes |-> IF owner[m] = p THEN None ELSE owner[m]]
              ELSE owner
  /\ Goto(p, "idle")
  /\ UNCHANGED <<named, abandoned, members, name, opened>>

\* user_fn returns or throws, and ~Defer unlocks, which fails without a mutex.
EndUse(p) ==
  /\ InUse(p)
  /\ owner' = [m \in Mutexes |-> IF m = mtx_[p] THEN None ELSE owner[m]]
  /\ Goto(p, "idle")
  /\ UNCHANGED <<named, abandoned, members, name, opened>>

-----------------------------------------------------------------------------
(* The end of an object, and of a process *)

\* ~ShareMemory: the members in reverse order, each closed if it is valid.
UnmapViewOfFile(p) ==
  /\ at[p] = "idle"
  /\ \/ share_mem_[p] # None \/ mtx_[p] # None \/ file_map_[p] # None
  /\ share_mem_' = [share_mem_ EXCEPT ![p] = None]
  /\ opened' = [opened EXCEPT ![p] = FALSE]
  /\ Goto(p, "closemutex")
  /\ UNCHANGED <<kernel, file_map_, mtx_, name>>

CloseMutex(p) ==
  LET mx == [mtx_ EXCEPT ![p] = None]
  IN  /\ at[p] = "closemutex"
      /\ mtx_' = mx
      /\ named' = NamesAfter(file_map_, mx, None, None)
      /\ abandoned' = abandoned \cap StillOpen(mx)
      /\ Goto(p, "closemap")
      /\ UNCHANGED <<owner, file_map_, share_mem_, name, opened>>

CloseFileMap(p) ==
  LET fm == [file_map_ EXCEPT ![p] = None]
  IN  /\ at[p] = "closemap"
      /\ file_map_' = fm
      /\ named' = NamesAfter(fm, mtx_, None, None)
      /\ Goto(p, "idle")
      /\ UNCHANGED <<owner, abandoned, mtx_, share_mem_, name, opened>>

\* A process dies: the kernel closes its handles, unmaps its views and abandons
\* the mutexes that it owned and others have open.  It may be started again.
Crash(p) ==
  LET fm == [file_map_ EXCEPT ![p] = None]
      mx == [mtx_ EXCEPT ![p] = None]
      owned == {m \in Mutexes : owner[m] = p}
  IN  /\ at[p] # "dead"
      /\ file_map_' = fm /\ mtx_' = mx
      /\ share_mem_' = [share_mem_ EXCEPT ![p] = None]
      /\ named' = NamesAfter(fm, mx, None, None)
      /\ owner' = [m \in Mutexes |-> IF m \in owned THEN None ELSE owner[m]]
      /\ abandoned' = (abandoned \cup owned) \cap StillOpen(mx)
      /\ opened' = [opened EXCEPT ![p] = FALSE]
      /\ Goto(p, "dead")
      /\ UNCHANGED name

Restart(p) ==
  /\ at[p] = "dead"
  /\ Goto(p, "idle")
  /\ UNCHANGED <<kernel, members, name, opened>>

-----------------------------------------------------------------------------

Step(p) ==
  \/ MapViewOfFile(p) \/ CreateMutex(p)
  \/ LockNothing(p) \/ Lock(p) \/ EndUse(p)
  \/ CloseMutex(p) \/ CloseFileMap(p)

Call(p) ==
  \/ \E n \in Names : Create(p, n) \/ Open(p, n)
  \/ BeginUse(p) \/ UnmapViewOfFile(p)

Next == \E p \in Processes : Step(p) \/ Call(p) \/ Crash(p) \/ Restart(p)

Spec == Init /\ [][Next]_vars

\* Every process that can go on goes on, user_fn returns, and the kernel hands a
\* mutex to those that wait for it in their order; nobody has to call, to die or
\* to come back.
Fairness == \A p \in Processes : WF_vars(Step(p)) /\ SF_vars(Lock(p))

FairSpec == Spec /\ Fairness

-----------------------------------------------------------------------------

TypeOK ==
  /\ named \in [AllNames -> Sections \cup Mutexes \cup {None}]
  /\ owner \in [Mutexes -> Processes \cup {None}]
  /\ abandoned \subseteq Mutexes
  /\ file_map_ \in [Processes -> Sections \cup {None}]
  /\ mtx_ \in [Processes -> Mutexes \cup {None}]
  /\ share_mem_ \in [Processes -> Sections \cup {None}]
  /\ at \in [Processes -> {"idle", "map", "mutex", "lock", "use", "use after death",
                           "closemutex", "closemap", "dead"}]
  /\ name \in [Processes -> Names \cup {None}]
  /\ opened \in [Processes -> BOOLEAN]

\* Two processes whose Create or Open of one name returned true see the same
\* memory and exclude each other in user_fn, whoever died, failed or destroyed
\* his object before.  A process whose call returned false is not covered: Use
\* may still find a view, of an old mapping, or of this one without a mutex.
\* (MapFileAndCreateMutex, Use)
SharedAndExclusive ==
  \A p, q \in Processes :
    p # q /\ opened[p] /\ opened[q] =>
      /\ name[p] = name[q] => share_mem_[p] = share_mem_[q]
      /\ share_mem_[p] = share_mem_[q] => ~(InUse(p) /\ InUse(q))

\* A Use goes on, though the owner of its mutex may die at any moment: who comes
\* next takes the abandoned mutex and gives it back. (named_mutex.h:26)
UseReturns == \A p \in Processes : at[p] = "lock" ~> at[p] # "lock"

=============================================================================
