------------------------- MODULE ImplementationLoader -------------------------
(***************************************************************************)
(* How a wrapper gets its control implementation: instantiateImplementation*)
(* and what it calls (generic_controller_wrapper.cpp), one step per call   *)
(* into the dynamic linker or the library.                                 *)
(*                                                                         *)
(* Only the thread that runs on_configure is in here, but each step may be *)
(* the last that succeeds.                                                 *)
(***************************************************************************)
EXTENDS Naturals

CONSTANTS
    Library,       \* the shared libraries impl_library may name
    NoLibrary,     \* a null handle, or an empty impl_library
    JointCount     \* numbers of joints a configuration may name, 0 for none

ASSUME LoaderAssumption ==
    /\ NoLibrary \notin Library
    /\ 0 \in JointCount /\ JointCount \subseteq Nat

VARIABLES
    loading,       \* where the thread is inside instantiateImplementation
    impl_library,  \* impl_library_
    impl_handle,   \* impl_handle_
    impl,          \* impl_, and what the object it points to was given
    destroy_fn,    \* destroy_fn_: the library that exports it
    lib,           \* the local LoadedControllerLibrary: its handle and its object
    opened,        \* the dynamic linker: how often each library is open
    live           \* objects that each library created and has not destroyed

member_vars == <<impl_handle, impl, destroy_fn>>
linker_vars == <<opened, live>>
loader_vars == <<loading, impl_library, member_vars, lib, linker_vars>>

MaybeLibrary == Library \union {NoLibrary}

\* An implementation: its library, the joints its factory was told, whether it
\* has the robot model, and whether it has the parameters of the configuration.
Implementation ==
    [library : Library, joints : JointCount, model : BOOLEAN, tuned : BOOLEAN]

NoImplementation == [library |-> NoLibrary, joints |-> 0, model |-> FALSE, tuned |-> FALSE]

NothingLoaded == [handle |-> NoLibrary, impl |-> NoImplementation]

LoaderInit ==
    /\ loading = "no" /\ impl_library = NoLibrary
    /\ impl_handle = NoLibrary /\ impl = NoImplementation /\ destroy_fn = NoLibrary
    /\ lib = NothingLoaded
    /\ opened = [l \in Library |-> 0] /\ live = [l \in Library |-> 0]

Opened(l) == opened' = [opened EXCEPT ![l] = @ + 1]
Closed(l) == opened' = [opened EXCEPT ![l] = @ - 1]

-----------------------------------------------------------------------------
(* destroyImplementation and unloadControllerLibrary                       *)

\* A slip: an implementation that is there already is kept.
BeginKeepsImplementation(library) ==
    /\ loading = "no"
    /\ impl_library' = library
    /\ loading' = IF impl # NoImplementation THEN "done" ELSE "open"
    /\ UNCHANGED <<member_vars, lib, linker_vars>>

\* The parameter impl_library is read; an implementation that is there goes first.
BeginInstantiate(library) ==
    /\ loading = "no"
    /\ impl_library' = library
    /\ loading' = IF impl # NoImplementation THEN "destroy" ELSE "open"
    /\ UNCHANGED <<member_vars, lib, linker_vars>>

\* A slip: dlclose comes before the object is destroyed.
CloseOldFirst ==
    /\ loading = "destroy"
    /\ Closed(impl_handle)
    /\ loading' = "close"
    /\ UNCHANGED <<impl_library, member_vars, lib, live>>

\* Until the members are cleared impl_ points to an object that is gone.
DestroyOld ==
    /\ loading = "destroy"
    /\ live' = [live EXCEPT ![destroy_fn] = @ - 1]
    /\ loading' = "close"
    /\ UNCHANGED <<impl_library, member_vars, lib, opened>>

\* A slip: the object is destroyed here once more.
CloseOldDestroyingAgain ==
    /\ loading = "close"
    /\ Closed(impl_handle)
    /\ live' = [live EXCEPT ![destroy_fn] = @ - 1]
    /\ impl_handle' = NoLibrary /\ impl' = NoImplementation /\ destroy_fn' = NoLibrary
    /\ loading' = "open"
    /\ UNCHANGED <<impl_library, lib>>

CloseOld ==
    /\ loading = "close"
    /\ Closed(impl_handle)
    /\ impl_handle' = NoLibrary /\ impl' = NoImplementation /\ destroy_fn' = NoLibrary
    /\ loading' = "open"
    /\ UNCHANGED <<impl_library, lib, live>>

-----------------------------------------------------------------------------
(* loadControllerLibrary                                                   *)

\* A path resolveSharedLibraryPath cannot find goes to dlopen as it is; dlopen
\* succeeds or the load has failed.
Open ==
    /\ loading = "open"
    /\ \/ /\ impl_library # NoLibrary
          /\ Opened(impl_library)
          /\ lib' = [NothingLoaded EXCEPT !.handle = impl_library]
          /\ loading' = "symbols"
       \/ loading' = "failed" /\ lib' = NothingLoaded /\ UNCHANGED opened
    /\ UNCHANGED <<impl_library, member_vars, live>>

\* The library is closed again and the load has failed.
GiveUp ==
    /\ Closed(lib.handle)
    /\ lib' = NothingLoaded
    /\ loading' = "failed"
    /\ UNCHANGED live

\* A slip: the early return for missing symbols leaves the library open.
FindSymbolsLeaks ==
    /\ loading = "symbols"
    /\ \/ loading' = "create" /\ UNCHANGED <<lib, linker_vars>>
       \/ loading' = "failed" /\ lib' = NothingLoaded /\ UNCHANGED linker_vars
    /\ UNCHANGED <<impl_library, member_vars>>

\* create_controller and destroy_controller are exported, or it is no plugin.
FindSymbols ==
    /\ loading = "symbols"
    /\ \/ loading' = "create" /\ UNCHANGED <<lib, linker_vars>>
       \/ GiveUp
    /\ UNCHANGED <<impl_library, member_vars>>

\* The factory makes an object for this many joints, or returns null.
Create(joints) ==
    /\ loading = "create"
    /\ \/ /\ live' = [live EXCEPT ![lib.handle] = @ + 1]
          /\ lib' = [lib EXCEPT !.impl = [library |-> lib.handle, joints |-> joints,
                                          model |-> FALSE, tuned |-> FALSE]]
          /\ loading' = "adopt"
          /\ UNCHANGED opened
       \/ GiveUp
    /\ UNCHANGED <<impl_library, member_vars>>

\* The members take over what was loaded and the robot model is injected.
Adopt ==
    /\ loading = "adopt"
    /\ impl_handle' = lib.handle /\ destroy_fn' = lib.handle
    /\ impl' = [lib.impl EXCEPT !.model = TRUE]
    /\ lib' = NothingLoaded
    /\ loading' = "done"
    /\ UNCHANGED <<impl_library, linker_vars>>

-----------------------------------------------------------------------------
(* What it promises                                                        *)

LoaderTypeOK ==
    /\ loading \in {"no", "destroy", "close", "open", "symbols", "create", "adopt",
                    "done", "failed"}
    /\ impl_library \in MaybeLibrary /\ impl_handle \in MaybeLibrary
    /\ destroy_fn \in MaybeLibrary
    /\ impl \in Implementation \union {NoImplementation}
    /\ lib \in [handle : MaybeLibrary, impl : Implementation \union {NoImplementation}]
    /\ opened \in [Library -> Nat] /\ live \in [Library -> Nat]

\* Between two configurations, after a failed one too, the dynamic linker holds
\* exactly the library the members know, with exactly the object they point to.
NothingLeaks ==
    loading = "no" =>
        /\ impl_handle = impl.library /\ destroy_fn = impl.library
        /\ \A l \in Library : /\ opened[l] = IF l = impl_handle THEN 1 ELSE 0
                              /\ live[l] = opened[l]

\* A library as the slot sees it.
PhaseOf(l) == CASE opened[l] = 0 /\ live[l] = 0 -> "closed"
                [] opened[l] = 1 /\ live[l] = 0 -> "mapped"
                [] opened[l] = 1 /\ live[l] = 1 -> "alive"
                [] OTHER -> "broken"

Phases == [l \in Library |-> PhaseOf(l)]

Plugin == INSTANCE PluginLifetime WITH phase <- Phases

\* The wrapper's loads and unloads are those of a slot for one plugin: no library
\* is opened twice or beside another, none is closed before its object is
\* destroyed, and no object is destroyed twice.
OnePlugin == Plugin!Spec
=============================================================================
