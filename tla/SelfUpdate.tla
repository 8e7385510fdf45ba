----------------------------- MODULE SelfUpdate -----------------------------
(***************************************************************************)
(* The update check and the self-update (pax-client/src/main.rs, the same  *)
(* in pax-master/src/main.rs, and pax-core/src/update.rs).                 *)
(*                                                                         *)
(* A check and a download run on threads of their own, as many as the      *)
(* operator asks for, and share the mutex on the update's status with the  *)
(* window's timer.  A file is as many chunks; each download writes its own *)
(* at its own offsets.  Messages are left out.                             *)
(***************************************************************************)
EXTENDS Integers

CONSTANTS
  Checks, Downloads,  \* the threads of either kind the operator starts
  Newest,             \* the last release to come
  Chunks,             \* the length of an executable
  Failures            \* whether calls fail

UpdateAssumption ==
  /\ Checks \cap Downloads = {} /\ "timer" \notin Checks \cup Downloads
  /\ "none" \notin Checks \cup Downloads
  /\ Newest \in Nat \ {0} /\ Chunks \in Nat \ {0} /\ Failures \in BOOLEAN

None == 0   \* no url; a chunk never written
Own == 1    \* the program's own release; later ones count on

VARIABLES
  release,    \* the latest release
  status,     \* available, and the url, which stands for the release it is of
  holder,     \* who holds the mutex
  offered,    \* the window shows the Download button
  pc,         \* how far each thread is
  asset,      \* the url a download has read
  written,    \* the chunks it has copied
  newFile,    \* the download beside the executable
  exe,        \* the executable
  running,    \* the process runs
  script,     \* the script that replaces the executable is on its way
  overlap     \* history: a download began before another had ended

shared == <<status, holder, offered>>
files == <<newFile, exe, script>>
vars == <<release, shared, pc, asset, written, files, running, overlap>>

Thread == Checks \cup Downloads \cup {"timer"}

\* An executable whole; one that was truncated is all None.
Whole(v) == [k \in 1..Chunks |-> v]

Init ==
  /\ release = Own /\ status = [available |-> FALSE, url |-> None] /\ holder = "none" /\ offered = FALSE
  /\ pc = [t \in Thread |-> "idle"]
  /\ asset = [d \in Downloads |-> None] /\ written = [d \in Downloads |-> 0]
  /\ newFile = Whole(None) /\ exe = Whole(Own)
  /\ running = TRUE /\ script = FALSE /\ overlap = FALSE

Goto(t, from, to) == running /\ pc[t] = from /\ pc' = [pc EXCEPT ![t] = to]

-----------------------------------------------------------------------------
(* spawn_update_check *)

StartCheck(c) ==
  /\ Goto(c, "idle", "lock")
  /\ UNCHANGED <<release, shared, asset, written, files, running, overlap>>

\* The mutex is taken before the call and held across it.
LockStatus(c) ==
  /\ Goto(c, "lock", "ask") /\ holder = "none"
  /\ holder' = c
  /\ UNCHANGED <<release, status, offered, asset, written, files, running, overlap>>

\* A newer release, with its asset or without; no newer one, or no answer at all.
Answered(c) ==
  /\ Goto(c, "ask", "done")
  /\ \/ /\ release > Own
        /\ status' \in [available : {TRUE}, url : {release, None}]
     \/ /\ release = Own \/ Failures
        /\ status' = [available |-> FALSE, url |-> None]
  /\ holder' = "none"
  /\ UNCHANGED <<release, offered, asset, written, files, running, overlap>>

-----------------------------------------------------------------------------
(* The window's timer shows the status *)

TimerFires ==
  /\ Goto("timer", "idle", "show")
  /\ UNCHANGED <<release, shared, asset, written, files, running, overlap>>

\* It waits for the mutex, and the window with it.
TimerShows ==
  /\ Goto("timer", "show", "idle") /\ holder = "none"
  /\ offered' = status.available
  /\ UNCHANGED <<release, status, holder, asset, written, files, running, overlap>>

-----------------------------------------------------------------------------
(* spawn_self_update and download_and_apply *)

\* The button is there while the window shows an update.
StartDownload(d) ==
  /\ Goto(d, "idle", "url") /\ offered /\ pc["timer"] = "idle"
  /\ overlap' = (overlap \/ \E e \in Downloads : pc[e] \notin {"idle", "failed"})
  /\ UNCHANGED <<release, shared, asset, written, files, running>>

ReadUrl(d) ==
  /\ running /\ pc[d] = "url" /\ holder = "none"
  /\ pc' = [pc EXCEPT ![d] = IF status.url = None THEN "failed" ELSE "create"]
  /\ asset' = [asset EXCEPT ![d] = status.url]
  /\ UNCHANGED <<release, shared, written, files, running, overlap>>

\* File::create truncates what another attempt has left.
Create(d) ==
  /\ Goto(d, "create", "copy")
  /\ newFile' = Whole(None)
  /\ UNCHANGED <<release, shared, asset, written, exe, script, running, overlap>>

Copy(d) ==
  /\ running /\ pc[d] = "copy" /\ written[d] < Chunks
  /\ written' = [written EXCEPT ![d] = @ + 1]
  /\ newFile' = [newFile EXCEPT ![written'[d]] = asset[d]]
  /\ UNCHANGED <<release, shared, pc, asset, exe, script, running, overlap>>

\* Mutant: an error of the copy is taken for its end.
DownloadFailsApplied(d) ==
  /\ running /\ Failures /\ pc[d] \in {"create", "copy"}
  /\ pc' = [pc EXCEPT ![d] = IF pc[d] = "copy" THEN "script" ELSE "failed"]
  /\ UNCHANGED <<release, shared, asset, written, files, running, overlap>>

\* The server refuses, or breaks off; what has been copied stays.
DownloadFails(d) ==
  /\ running /\ Failures /\ pc[d] \in {"create", "copy"}
  /\ pc' = [pc EXCEPT ![d] = "failed"]
  /\ UNCHANGED <<release, shared, asset, written, files, running, overlap>>

Copied(d) ==
  /\ written[d] = Chunks
  /\ Goto(d, "copy", "script")
  /\ UNCHANGED <<release, shared, asset, written, files, running, overlap>>

SpawnScript(d) ==
  /\ Goto(d, "script", "say")
  /\ script' = TRUE
  /\ UNCHANGED <<release, shared, asset, written, newFile, exe, running, overlap>>

\* The last message waits for the mutex.
SayRestarting(d) ==
  /\ Goto(d, "say", "exit") /\ holder = "none"
  /\ UNCHANGED <<release, shared, asset, written, files, running, overlap>>

\* process::exit ends every thread, where it is.
Exit(d) ==
  /\ running /\ pc[d] = "exit"
  /\ running' = FALSE
  /\ UNCHANGED <<release, shared, pc, asset, written, files, overlap>>

\* The script waits longer than the program needs to end, then moves the file.
Swap ==
  /\ script /\ ~running
  /\ exe' = newFile /\ script' = FALSE
  /\ UNCHANGED <<release, shared, pc, asset, written, newFile, running, overlap>>

\* Unless the last message waits for a check: the executable of a program that still
\* runs cannot be replaced, and is started again, which ends this one.
SwapTooEarly ==
  /\ script /\ running /\ holder # "none"
  /\ \E d \in Downloads : pc[d] = "say"
  /\ script' = FALSE /\ running' = FALSE
  /\ UNCHANGED <<release, shared, pc, asset, written, newFile, exe, overlap>>

\* A release is published.
Release ==
  /\ release < Newest /\ release' = release + 1
  /\ UNCHANGED <<shared, pc, asset, written, files, running, overlap>>

Next ==
  \/ \E c \in Checks : StartCheck(c) \/ LockStatus(c) \/ Answered(c)
  \/ TimerFires \/ TimerShows
  \/ \E d \in Downloads :
       \/ StartDownload(d) \/ ReadUrl(d) \/ Create(d) \/ Copy(d) \/ DownloadFails(d)
       \/ Copied(d) \/ SpawnScript(d) \/ SayRestarting(d) \/ Exit(d)
  \/ Swap \/ SwapTooEarly \/ Release

Spec == Init /\ [][Next]_vars

-----------------------------------------------------------------------------
(* Properties *)

\* update.rs, "Download the new executable and apply it": what is there to be launched
\* is one whole release, however many attempts failed before, as long as no two
\* downloads are under way together.
InstalledWhole == ~overlap => \E v \in Own..Newest : exe = Whole(v)

\* The same of downloads that overlap.
InstalledWholeAlways == \E v \in Own..Newest : exe = Whole(v)

\* An update that ended the program has been installed.
AppliedIsInstalled == ~running /\ ~script => exe # Whole(Own)

\* main.rs, "Non-blocking update check on a background thread": the window does not
\* wait while a check waits for its answer.
WindowNeverWaits == ~(pc["timer"] = "show" /\ \E c \in Checks : pc[c] = "ask")
=============================================================================
