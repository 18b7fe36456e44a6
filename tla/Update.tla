-------------------------------- MODULE Update --------------------------------
(***************************************************************************)
(* Replacing the program by its latest release, from the command line or    *)
(* from the desktop app.                                                   *)
(*                                                                         *)
(* An update asks for the latest tag, reads the checksums, streams the      *)
(* program into a file beside the one it replaces, compares the checksum of *)
(* what it streamed and moves the file over the program: with one rename,   *)
(* or on Windows with two, the first of which moves the program aside.      *)
(* Each step may fail, and the process may be killed between any two.  The  *)
(* releases move on meanwhile.                                             *)
(***************************************************************************)
EXTENDS Naturals, FiniteSets

CONSTANTS
    Apps,          \* running instances of the program
    Tags,          \* release tags, in order
    MaxUpdates     \* bound: updates begun in a behaviour

ASSUME UpdateAssumption ==
    /\ Tags \subseteq Nat
    /\ MaxUpdates \in Nat

VARIABLES
    onWindows,    \* the platform
    released,     \* the release GitHub calls the latest
    exe, old,     \* the program, and the copy that is moved aside on Windows
    staged,       \* the file beside it for each tag
    apps,         \* the instances and the update each has under way
    newest,       \* history: the newest release installed
    overlapped,   \* history: two updates were under way at once
    updates

updateVars == <<onWindows, released, exe, old, staged, apps, newest, overlapped, updates>>

-----------------------------------------------------------------------------
\* A file: its release, whether all of it is there unharmed, and who emptied it last.
Missing == [missing |-> "file"]
File == [tag : Tags, sound : BOOLEAN, opener : Apps \cup {"release"}]

\* An instance: the release and the file it was started from; the next step of its
\* update; the tag that resolved to, the file it streams into, wherever that is by now,
\* and whether the stream had the checksum that was published.
UpdateStep == {"ready", "latest", "sums", "open", "copy", "verify", "unlink", "aside",
               "install", "rollback", "clean"}
App == [at : UpdateStep, current : Tags, image : {"exe", "old", "gone"}, tag : Tags,
        file : {"staged", "exe", "gone"}, matches : BOOLEAN]
Ended == [at |-> "ended", image |-> "none"]

UpdateTypeOK ==
    /\ onWindows \in BOOLEAN
    /\ released \in Tags
    /\ {exe, old} \subseteq File \cup {Missing}
    /\ staged \in [Tags -> File \cup {Missing}]
    /\ apps \in [Apps -> App \cup {Ended}]
    /\ newest \in Tags
    /\ overlapped \in BOOLEAN
    /\ updates \in 0..MaxUpdates

\* The program as it was first installed.
UpdateInit ==
    /\ onWindows \in BOOLEAN
    /\ released \in Tags
    /\ newest = released
    /\ exe = [tag |-> newest, sound |-> TRUE, opener |-> "release"]
    /\ old = Missing
    /\ staged = [t \in Tags |-> Missing]
    /\ apps = [a \in Apps |-> Ended]
    /\ overlapped = FALSE
    /\ updates = MaxUpdates

-----------------------------------------------------------------------------
Doing(a, step) == apps[a].at = step
Then(a, step) == apps' = [apps EXCEPT ![a].at = step]
Updating(a) == apps[a].at \notin {"ended", "ready"}

Launch(a) ==
    /\ apps[a] = Ended
    /\ exe # Missing /\ exe.sound
    /\ apps' = [apps EXCEPT ![a] = [at |-> "ready", current |-> exe.tag, image |-> "exe",
                                   tag |-> exe.tag, file |-> "gone", matches |-> FALSE]]
    /\ UNCHANGED <<onWindows, released, exe, old, staged, newest, overlapped, updates>>

\* An instance ends or is killed, whatever it was doing.
Kill(a) ==
    /\ apps[a] # Ended
    /\ apps' = [apps EXCEPT ![a] = Ended]
    /\ UNCHANGED <<onWindows, released, exe, old, staged, newest, overlapped, updates>>

Publish ==
    /\ \E t \in Tags : t > released /\ released' = t
    /\ UNCHANGED <<onWindows, exe, old, staged, apps, newest, overlapped, updates>>

-----------------------------------------------------------------------------
(* DownloadAndStage *)

BeginUpdate(a) ==
    /\ updates > 0 /\ updates' = updates - 1
    /\ Doing(a, "ready")
    /\ Then(a, "latest")
    /\ overlapped' = (overlapped \/ \E b \in Apps : Updating(b))
    /\ UNCHANGED <<onWindows, released, exe, old, staged, newest>>

\* latest, and Compare: an instance that is not older than the latest release stays.
ResolveLatest(a) ==
    /\ Doing(a, "latest")
    /\ apps' = [apps EXCEPT ![a] = IF @.current < released
                                  THEN [@ EXCEPT !.at = "sums", !.tag = released]
                                  ELSE [@ EXCEPT !.at = "ready"]]
    /\ UNCHANGED <<onWindows, released, exe, old, staged, newest, overlapped, updates>>

\* The checksums, and then the program, of the release that is the latest by now, whose
\* files carry its tag in their names; or the call fails.
FetchChecksums(a) ==
    /\ Doing(a, "sums")
    /\ \/ released = apps[a].tag /\ Then(a, "open")
       \/ Then(a, "ready")
    /\ UNCHANGED <<onWindows, released, exe, old, staged, newest, overlapped, updates>>

\* downloadTo: the file is made, or emptied if it is there.
OpenStaged(a) ==
    LET t == apps[a].tag IN
    /\ Doing(a, "open")
    /\ \/ /\ released = t
          /\ staged' = [staged EXCEPT ![t] = [tag |-> t, sound |-> FALSE, opener |-> a]]
          /\ apps' = [apps EXCEPT ![a].at = "copy", ![a].file = "staged"]
       \/ Then(a, "ready") /\ UNCHANGED staged
    /\ UNCHANGED <<onWindows, released, exe, old, newest, overlapped, updates>>

\* A file after a stream into it has ended: whole if it was the last to empty it.
Filled(a, file, intact) == [file EXCEPT !.sound = intact /\ (@ \/ file.opener = a)]

\* The stream ends, intact or not, or breaks, which removes what has the name by now.
CopyStream(a) ==
    LET t == apps[a].tag IN
    /\ Doing(a, "copy")
    /\ \/ \E intact \in BOOLEAN :
            /\ apps' = [apps EXCEPT ![a].at = "verify", ![a].matches = intact]
            /\ staged' = IF apps[a].file = "staged"
                         THEN [staged EXCEPT ![t] = Filled(a, @, intact)] ELSE staged
            /\ exe' = IF apps[a].file = "exe" THEN Filled(a, exe, intact) ELSE exe
       \/ Then(a, "clean") /\ UNCHANGED <<staged, exe>>
    /\ UNCHANGED <<onWindows, released, old, newest, overlapped, updates>>

\* The checksum of the stream against the published one, and the mode, that may fail.
\* A wrong form looks at neither.
Swap(a) == IF onWindows THEN "unlink" ELSE "install"
VerifyNoStream(a) ==
    /\ Doing(a, "verify")
    /\ Then(a, Swap(a))
    /\ UNCHANGED <<onWindows, released, exe, old, staged, newest, overlapped, updates>>
VerifyStream(a) ==
    /\ Doing(a, "verify")
    /\ \/ apps[a].matches /\ Then(a, Swap(a))
       \/ Then(a, "clean")
    /\ UNCHANGED <<onWindows, released, exe, old, staged, newest, overlapped, updates>>

\* Windows keeps a file that a stream writes into where it is.
Movable(t) == ~onWindows \/ \A b \in Apps : Doing(b, "copy") => apps[b].tag # t

\* Every failure from here on removes the staged file, if it can.
Clean(a) ==
    LET t == apps[a].tag IN
    /\ Doing(a, "clean")
    /\ \/ /\ Movable(t)
          /\ staged' = [staged EXCEPT ![t] = Missing]
          /\ apps' = [b \in Apps |->
               IF b = a THEN [apps[a] EXCEPT !.at = "ready", !.file = "gone"]
               ELSE IF apps[b] # Ended /\ apps[b].tag = t /\ apps[b].file = "staged"
               THEN [apps[b] EXCEPT !.file = "gone"] ELSE apps[b]]
       \/ Then(a, "ready") /\ UNCHANGED staged
    /\ UNCHANGED <<onWindows, released, exe, old, newest, overlapped, updates>>

-----------------------------------------------------------------------------
(* ReplaceExecutable *)

\* Windows: the copy of an earlier update goes, unless an instance runs from it or it
\* cannot be removed.
UnlinkOld(a) ==
    /\ Doing(a, "unlink")
    /\ \/ (\A b \in Apps : apps[b].image # "old") /\ old' = Missing
       \/ UNCHANGED old
    /\ Then(a, "aside")
    /\ UNCHANGED <<onWindows, released, exe, staged, newest, overlapped, updates>>

\* Windows: the program moves aside, over a copy that no instance runs from.
MoveAside(a) ==
    /\ Doing(a, "aside")
    /\ \/ /\ exe # Missing
          /\ \A b \in Apps : apps[b].image # "old"
          /\ old' = exe
          /\ exe' = Missing
          /\ apps' = [b \in Apps |->
               LET app == IF b = a THEN [apps[b] EXCEPT !.at = "install"] ELSE apps[b] IN
               IF app.image = "exe" THEN [app EXCEPT !.image = "old"] ELSE app]
       \/ Then(a, "clean") /\ UNCHANGED <<exe, old>>
    /\ UNCHANGED <<onWindows, released, staged, newest, overlapped, updates>>

\* The staged file becomes the program, and the instance ends to start anew.  Streams
\* into it and instances of the program it replaces keep their files.
InstallStaged(a) ==
    LET t == apps[a].tag IN
    /\ Doing(a, "install")
    /\ \/ /\ staged[t] # Missing /\ Movable(t)
          /\ exe' = staged[t]
          /\ staged' = [staged EXCEPT ![t] = Missing]
          /\ newest' = IF t > newest THEN t ELSE newest
          /\ apps' = [b \in Apps |->
               IF b = a \/ apps[b] = Ended THEN Ended
               ELSE [apps[b] EXCEPT
                 !.image = IF @ = "exe" THEN "gone" ELSE @,
                 !.file = IF @ = "staged" /\ apps[b].tag = t THEN "exe"
                          ELSE IF @ = "exe" THEN "gone" ELSE @]]
       \/ /\ Then(a, IF onWindows THEN "rollback" ELSE "clean")
          /\ UNCHANGED <<exe, staged, newest>>
    /\ UNCHANGED <<onWindows, released, old, overlapped, updates>>

\* Windows: the copy moves back, if it can.
Rollback(a) ==
    /\ Doing(a, "rollback")
    /\ \/ /\ old # Missing
          /\ exe' = old
          /\ old' = Missing
          /\ apps' = [b \in Apps |->
               LET app == IF b = a THEN [apps[b] EXCEPT !.at = "clean"] ELSE apps[b] IN
               IF app.image = "old" THEN [app EXCEPT !.image = "exe"] ELSE app]
       \/ Then(a, "clean") /\ UNCHANGED <<exe, old>>
    /\ UNCHANGED <<onWindows, released, staged, newest, overlapped, updates>>

-----------------------------------------------------------------------------
UpdateNext ==
    \/ \E a \in Apps :
         \/ Launch(a) \/ Kill(a) \/ BeginUpdate(a) \/ ResolveLatest(a) \/ FetchChecksums(a)
         \/ OpenStaged(a) \/ CopyStream(a) \/ VerifyStream(a) \/ Clean(a)
         \/ UnlinkOld(a) \/ MoveAside(a) \/ InstallStaged(a) \/ Rollback(a)
    \/ Publish

UpdateSpec == UpdateInit /\ [][UpdateNext]_updateVars

-----------------------------------------------------------------------------
(* Properties *)

\* However releases move on, calls fail and instances are killed between two steps, the
\* program is the newest release installed, whole, or on Windows missing while the copy
\* beside it is; unless two updates overlap, that share the staged file of a tag.
InstalledIntact ==
    LET best == IF exe = Missing THEN old ELSE exe IN
    overlapped \/ (/\ exe = Missing => onWindows
                   /\ best # Missing /\ best.sound /\ best.tag = newest)
=============================================================================
