--------------------------- MODULE NativeLibrary ---------------------------
(***************************************************************************)
(* Loading macula-go's library: native() of src/macula_py/_native.py, with *)
(* library_path of _library.py and what Native's constructor refuses.      *)
(*                                                                         *)
(* Threads call native() whenever they need the library; the first one to  *)
(* hold the lock loads it, and one that fails leaves it to the next.       *)
(*                                                                         *)
(* A file is a record of what loading it meets: whether it is there and a  *)
(* library at all, the functions it exports, the ABI version, release and  *)
(* wire it reports (NoText for a NULL).                                    *)
(***************************************************************************)
EXTENDS Naturals, FiniteSets, Sequences

CONSTANTS Threads,
          Files,        \* what MACULA_LIBRARY_PATH may come to name
          Packaged,     \* the wheel's own copy
          Unset,        \* MACULA_LIBRARY_PATH is not set
          FUNCTIONS,    \* the functions _abi declares
          ABI_VERSION,
          WIRE_VERSION, \* <<major, minor>>
          NoText, NoThread, NoFile

ASSUME LibraryAssumption == /\ NoThread \notin Threads
                            /\ NoFile \notin Files \cup {Packaged}
                            /\ Unset \notin Files

VARIABLES
  env,     \* what MACULA_LIBRARY_PATH names
  lock,    \* the thread inside native()
  library, \* _native: the library loaded, or None
  path,    \* the file each thread is loading
  at,      \* where each thread is: "asking" for the library, "inside" the lock,
           \* "opening" a file, and "has" the library or was "refused" it
  handed   \* every library native() has returned

libraryVars == <<env, lock, library, path, at, handed>>

Copies == Files \cup {Packaged}

LibraryTypeOK ==
  /\ env \in Files \cup {Unset}
  /\ lock \in Threads \cup {NoThread}
  /\ library \in Copies \cup {NoFile}
  /\ path \in [Threads -> Copies \cup {NoFile}]
  /\ at \in [Threads -> {"out", "asking", "inside", "opening", "has", "refused"}]
  /\ handed \subseteq Copies
  /\ \A t \in Threads : lock = t <=> at[t] \in {"inside", "opening"}

LibraryInit ==
  /\ env \in Files \cup {Unset}
  /\ lock = NoThread /\ library = NoFile
  /\ path = [t \in Threads |-> NoFile]
  /\ at = [t \in Threads |-> "out"]
  /\ handed = {}

-----------------------------------------------------------------------------
(* What is refused, in the order in which it is looked at.                 *)

LibraryPath == IF env = Unset THEN Packaged ELSE env

Declared(f) == FUNCTIONS \subseteq f.exports

\* Every wire of our major shares the frozen core.
SpeaksOurWire(wire) == Head(wire) = Head(WIRE_VERSION)

Verdict(f) == CASE ~f.opens                -> "not a library"
                [] ~Declared(f)            -> "older than the floor"
                [] f.abi # ABI_VERSION     -> "another ABI"
                [] f.release = NoText      -> "no release"
                [] f.wire = NoText         -> "no wire"
                [] ~SpeaksOurWire(f.wire)  -> "another wire"
                [] OTHER                   -> "fit"

Fit(f) == f.file /\ Verdict(f) = "fit"

-----------------------------------------------------------------------------
(* native(), step by step: a thread may be switched from, or be in a call   *)
(* that lets others run, between any two.                                  *)

Ask(t) ==
  /\ at[t] = "out"
  /\ at' = [at EXCEPT ![t] = "asking"]
  /\ UNCHANGED <<env, lock, library, path, handed>>

\* Slip: _native is tested outside the lock as well as the load being made there.
EntersAnyway(t) == TRUE

MayEnter(t) == lock = NoThread

Enter(t) ==
  /\ at[t] = "asking" /\ MayEnter(t)
  /\ lock' = t
  /\ at' = [at EXCEPT ![t] = "inside"]
  /\ UNCHANGED <<env, library, path, handed>>

\* Slip: acquire and release without with, so an exception keeps the lock.
ReleasesOnReturn(how) == lock' = IF how = "has" THEN NoThread ELSE lock

Releases(how) == lock' = NoThread

Leave(t, how) == /\ at' = [at EXCEPT ![t] = how]
                 /\ path' = [path EXCEPT ![t] = NoFile]
                 /\ Releases(how)

\* It was loaded before.
Found(t) ==
  /\ at[t] = "inside" /\ library # NoFile
  /\ handed' = handed \cup {library}
  /\ Leave(t, "has")
  /\ UNCHANGED <<env, library>>

\* library_path(): the environment is read each time, and a file that is not
\* there is an OSError.
LookUp(t) ==
  /\ at[t] = "inside" /\ library = NoFile
  /\ \/ /\ LibraryPath.file
        /\ path' = [path EXCEPT ![t] = LibraryPath]
        /\ at' = [at EXCEPT ![t] = "opening"]
        /\ UNCHANGED lock
     \/ ~LibraryPath.file /\ Leave(t, "refused")
  /\ UNCHANGED <<env, library, handed>>

\* Slip: the library is published before it is checked.
PublishesFirst(f) == library' = f

\* The assignment to _native follows the constructor.
Publishes(f) == library' = IF Fit(f) THEN f ELSE library

\* Native(path): what is not fit is refused, and nothing is kept of it.
Open(t) ==
  /\ at[t] = "opening"
  /\ Publishes(path[t])
  /\ handed' = handed \cup (IF Fit(path[t]) THEN {path[t]} ELSE {})
  /\ Leave(t, IF Fit(path[t]) THEN "has" ELSE "refused")
  /\ UNCHANGED env

\* The application names another file; once one is loaded nobody reads it.
NameFile(f) ==
  /\ library = NoFile
  /\ env' = f /\ env # f
  /\ UNCHANGED <<lock, library, path, at, handed>>

LibraryStep(t) == Enter(t) \/ Found(t) \/ LookUp(t) \/ Open(t)

-----------------------------------------------------------------------------
(* Properties.                                                             *)

\* However threads race for the first native(), and whatever the environment
\* names meanwhile, all of them are given one library, the one that is kept, and
\* it passed every check: no two handles ever come from different libraries.
OneFitLibrary == \A f \in handed : f = library /\ Fit(f)

\* A thread inside native() leaves it: nothing that may run on that thread, a
\* key's finalizer included, waits for the lock it holds.
LockReleased == \A t \in Threads : lock = t ~> lock # t

\* A failed load is not kept: when the environment has come to name a fit file
\* for good, and native() is asked for again and again, the library is loaded.
LoadIsRetried ==
  (/\ <>[]Fit(LibraryPath)
   /\ []<>(\E t \in Threads : at[t] = "asking")) => <>(library # NoFile)
=============================================================================
