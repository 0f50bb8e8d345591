----------------------------- MODULE GitProcess -----------------------------
(***************************************************************************)
(* The git processes the git mod answers with: git_repo_cgi runs           *)
(* "git http-backend" by CGI::run_cmd (util/CGI.hpp), which makes two      *)
(* pipes, forks, writes the body of the request, reads the output up to    *)
(* its end and waits for the child.  The threads of the mod do this at the *)
(* same time in one process, so a child inherits whatever pipe ends the    *)
(* process has open when it is forked: none is close-on-exec.              *)
(*                                                                         *)
(* A pipe end is <<run, end>>; data is counted in blocks.                  *)
(***************************************************************************)
EXTENDS Integers

CONSTANTS
    Run,        \* calls of run_cmd, one per thread of the mod
    PipeSize,   \* blocks a pipe holds
    MaxBlocks   \* bound of a body, and of an output

ASSUME ProcessAssumption == PipeSize \in Nat \ {0} /\ MaxBlocks \in Nat

VARIABLES
    job,        \* what a run's request and program are like
    runPc,
    fds,        \* pipe ends the server has open
    inherited,  \* pipe ends the child of a run has open
    child,
    fed,        \* children that have seen the end of their input
    sent, inPipe,       \* blocks of the body written, and not yet read
    written, outPipe,   \* blocks of output written, and not yet read
    got,        \* blocks of output the run has read
    up          \* the server runs

processVars == <<job, runPc, fds, inherited, child, fed, sent, inPipe, written,
                 outPipe, got, up>>
pipes == <<sent, inPipe, written, outPipe, got>>

\* A program leaves its input alone, reads it all before it writes, or writes
\* before it has read it all.
Jobs == [reads : {"nothing", "first", "last"}, body : 0..MaxBlocks,
         output : 0..MaxBlocks]

PipeEnds(r) == {r} \X {"inR", "inW", "outR", "outW"}

ProcessTypeOK ==
    /\ job \in [Run -> Jobs]
    /\ runPc \in [Run -> {"idle", "piped", "forked", "writing", "reading",
                          "waiting", "returned"}]
    /\ fds \subseteq UNION {PipeEnds(r) : r \in Run}
    /\ inherited \in [Run -> SUBSET UNION {PipeEnds(r) : r \in Run}]
    /\ child \in [Run -> {"none", "running", "zombie", "reaped"}]
    /\ fed \subseteq Run
    /\ sent \in [Run -> 0..MaxBlocks] /\ inPipe \in [Run -> 0..PipeSize]
    /\ written \in [Run -> 0..MaxBlocks] /\ outPipe \in [Run -> 0..PipeSize]
    /\ got \in [Run -> 0..MaxBlocks]
    /\ up \in BOOLEAN

ProcessInit ==
    /\ job \in [Run -> Jobs]
    /\ runPc = [r \in Run |-> "idle"]
    /\ fds = {}
    /\ inherited = [r \in Run |-> {}]
    /\ child = [r \in Run |-> "none"]
    /\ fed = {}
    /\ sent = [r \in Run |-> 0] /\ inPipe = [r \in Run |-> 0]
    /\ written = [r \in Run |-> 0] /\ outPipe = [r \in Run |-> 0]
    /\ got = [r \in Run |-> 0]
    /\ up = TRUE

RunStep(r, from, to) ==
    /\ up
    /\ runPc[r] = from
    /\ runPc' = [runPc EXCEPT ![r] = to]

\* Some process has the end open.
HeldOpen(end) == end \in fds \/ \E r \in Run : end \in inherited[r]

-----------------------------------------------------------------------------
(* The thread of the server.                                               *)

MakePipes(r) ==
    /\ RunStep(r, "idle", "piped")
    /\ fds' = fds \cup PipeEnds(r)
    /\ UNCHANGED <<job, inherited, child, fed, pipes, up>>

\* pipe or fork fails: the exception leaves the mod's thread.
OutOfResources(r) ==
    /\ up
    /\ runPc[r] \in {"idle", "piped"}
    /\ up' = FALSE
    /\ UNCHANGED <<job, runPc, fds, inherited, child, fed, pipes>>

\* Mutant: the child keeps the end its own input is written to.
Inherits_OwnInput(r) == fds \ {<<r, "outR">>}

\* The child closes the ends of its pipes that are not its own.
Inherits(r) == fds \ {<<r, "inW">>, <<r, "outR">>}

Fork(r) ==
    /\ RunStep(r, "piped", "forked")
    /\ child' = [child EXCEPT ![r] = "running"]
    /\ inherited' = [inherited EXCEPT ![r] = Inherits(r)]
    /\ UNCHANGED <<job, fds, fed, pipes, up>>

CloseChildEnds(r) ==
    /\ RunStep(r, "forked", "writing")
    /\ fds' = fds \ {<<r, "inR">>, <<r, "outW">>}
    /\ UNCHANGED <<job, inherited, child, fed, pipes, up>>

\* A write to a pipe nobody reads raises SIGPIPE, which nothing handles.
WriteBody(r) ==
    /\ up
    /\ runPc[r] = "writing"
    /\ sent[r] < job[r].body
    /\ IF HeldOpen(<<r, "inR">>)
       THEN /\ inPipe[r] < PipeSize
            /\ inPipe' = [inPipe EXCEPT ![r] = @ + 1]
            /\ sent' = [sent EXCEPT ![r] = @ + 1]
            /\ UNCHANGED up
       ELSE /\ up' = FALSE
            /\ UNCHANGED <<inPipe, sent>>
    /\ UNCHANGED <<job, runPc, fds, inherited, child, fed, written, outPipe,
                   got>>

CloseInput(r) ==
    /\ RunStep(r, "writing", "reading")
    /\ sent[r] = job[r].body
    /\ fds' = fds \ {<<r, "inW">>}
    /\ UNCHANGED <<job, inherited, child, fed, pipes, up>>

ReadOutput(r) ==
    /\ RunStep(r, "reading", "reading")
    /\ outPipe[r] > 0
    /\ outPipe' = [outPipe EXCEPT ![r] = @ - 1]
    /\ got' = [got EXCEPT ![r] = @ + 1]
    /\ UNCHANGED <<job, fds, inherited, child, fed, sent, inPipe, written, up>>

\* Mutant: an empty pipe is taken for the end of the output.
EndOfOutput_Empty(r) == outPipe[r] = 0

EndOfOutput(r) == outPipe[r] = 0 /\ ~HeldOpen(<<r, "outW">>)

CloseOutput(r) == fds' = fds \ {<<r, "outR">>}

ReadEnd(r) ==
    /\ RunStep(r, "reading", "waiting")
    /\ EndOfOutput(r)
    /\ CloseOutput(r)
    /\ UNCHANGED <<job, inherited, child, fed, pipes, up>>

Reap(r) ==
    /\ RunStep(r, "waiting", "returned")
    /\ child[r] = "zombie"
    /\ child' = [child EXCEPT ![r] = "reaped"]
    /\ UNCHANGED <<job, fds, inherited, fed, pipes, up>>

-----------------------------------------------------------------------------
(* The program, which is not of this repository.                           *)

Running(r) == up /\ child[r] = "running"
ServerKeeps == UNCHANGED <<job, runPc, fds, sent, got, up>>

MayWrite(r) == job[r].reads = "first" => r \in fed
MayRead(r) ==
    \/ job[r].reads = "first"
    \/ job[r].reads = "last" /\ written[r] = job[r].output

ChildWrite(r) ==
    /\ Running(r) /\ MayWrite(r)
    /\ written[r] < job[r].output
    /\ outPipe[r] < PipeSize
    /\ written' = [written EXCEPT ![r] = @ + 1]
    /\ outPipe' = [outPipe EXCEPT ![r] = @ + 1]
    /\ UNCHANGED <<inherited, child, fed, inPipe>> /\ ServerKeeps

ChildRead(r) ==
    /\ Running(r) /\ MayRead(r)
    /\ inPipe[r] > 0
    /\ inPipe' = [inPipe EXCEPT ![r] = @ - 1]
    /\ UNCHANGED <<inherited, child, fed, written, outPipe>> /\ ServerKeeps

ChildEnd(r) ==
    /\ Running(r) /\ MayRead(r)
    /\ r \notin fed
    /\ inPipe[r] = 0
    /\ ~HeldOpen(<<r, "inW">>)
    /\ fed' = fed \cup {r}
    /\ UNCHANGED <<inherited, child, inPipe, written, outPipe>> /\ ServerKeeps

ChildExit(r) ==
    /\ Running(r)
    /\ written[r] = job[r].output
    /\ job[r].reads = "nothing" \/ r \in fed
    /\ child' = [child EXCEPT ![r] = "zombie"]
    /\ inherited' = [inherited EXCEPT ![r] = {}]
    /\ UNCHANGED <<fed, inPipe, written, outPipe>> /\ ServerKeeps

-----------------------------------------------------------------------------

ServerStep(r) ==
    \/ MakePipes(r) \/ Fork(r) \/ CloseChildEnds(r) \/ WriteBody(r)
    \/ CloseInput(r) \/ ReadOutput(r) \/ ReadEnd(r) \/ Reap(r)

ChildStep(r) ==
    ChildWrite(r) \/ ChildRead(r) \/ ChildEnd(r) \/ ChildExit(r)

ProcessNext == \E r \in Run : ServerStep(r) \/ ChildStep(r) \/ OutOfResources(r)

ProcessSpec == ProcessInit /\ [][ProcessNext]_processVars

-----------------------------------------------------------------------------

\* run_cmd returns the whole output of its own child, however the ends it
\* shares with other children are closed, with its child reaped and none of its
\* pipes left open: no cut answer, no zombie, no descriptor lost.
RunIsComplete ==
    /\ ProcessTypeOK
    /\ \A r \in Run : runPc[r] = "returned" =>
           /\ got[r] = job[r].output
           /\ child[r] = "reaped"
           /\ fds \cap PipeEnds(r) = {}

\* The body fills its pipe while the output fills the other: run_cmd writes all
\* of the one before it reads any of the other.
Overfull ==
    \E r \in Run :
        /\ runPc[r] = "writing" /\ inPipe[r] = PipeSize
        /\ child[r] = "running" /\ outPipe[r] = PipeSize

\* Two children wait for the end of their input, and each has the other's open.
Crossed ==
    \E r, q \in Run :
        /\ r # q
        /\ <<r, "inW">> \in inherited[q] /\ <<q, "inW">> \in inherited[r]
        /\ job[r].reads # "nothing" /\ job[q].reads # "nothing"

\* Every run returns, and with it the request is answered, except in the two
\* ways two of them, or a run and its child, can wait for each other.  A server
\* that a signal or an exception has ended is no exception of this model.
EveryRunReturns ==
    \A r \in Run :
        runPc[r] = "piped" ~> runPc[r] = "returned" \/ ~up \/ Overfull \/ Crossed
=============================================================================
