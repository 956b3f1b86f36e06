--------------------------- MODULE MCEngineCache ---------------------------
(***************************************************************************)
(* Workloads for EngineCache.  A block holds two tokens; requests of one   *)
(* key extend the same token stream, as scripts/generate.py makes repeats. *)
(***************************************************************************)
EXTENDS EngineCache, TLC

CONSTANTS r1, r2, r3

Req(key, prompt, output) ==
    [kind |-> "generate", key |-> key, common |-> 9, prompt |-> prompt,
     output |-> output, keep |-> FALSE, free |-> TRUE, after |-> None]
Keep(r) == [r EXCEPT !.keep = TRUE, !.free = FALSE]
Swap(r) == [r EXCEPT !.free = FALSE]
After(s, r) == [r EXCEPT !.after = s]
Mig(r) == [r EXCEPT !.kind = "migrate"]

\* The repeat of a request with p + o tokens: its prompt starts with them.
Repeat(key, p, o, prompt, output) ==
    [Req(key, prompt, output) EXCEPT
        !.common = IF prompt < p + o THEN prompt \div BlockSize ELSE 9]

\* A query of two repeats with a retained cache, beside another query.
RetainWorkloads ==
    {r1 :> Keep(Req(2, p, o)) @@ r2 :> After(r1, Repeat(2, p, o, q, 2))
       @@ r3 :> Req(k, n, 2) :
        p \in 2..3, o \in 1..3, q \in 3..6, k \in {1, 3}, n \in {3, 6, 15}}
AlignedWorkloads == {w \in RetainWorkloads : NoRoundEntry(w)}

\* Two requests that swap their cache to the CPU when they finish, the second
\* a repeat of the first, and a third that competes for the GPU.
SwapWorkloads ==
    {r1 :> Swap(Req(1, p, o)) @@ r2 :> After(a, Swap(Repeat(1, p, o, q, 2)))
       @@ r3 :> Req(k, n, 3) :
        p \in 2..4, o \in 1..3, q \in {4, 5}, a \in {r1, None},
        k \in {1, 2}, n \in {3, 5}}

\* A migrated cache (to the GPU or, without space there, to the CPU), the
\* request it was moved for, and a request that competes for the GPU.
MigrateWorkloads ==
    {r1 :> Mig([Req(1, p, 1) EXCEPT !.keep = g]) @@ r2 :> Keep(Req(1, q, 2))
       @@ r3 :> Req(k, n, 2) :
        g \in BOOLEAN, p \in 3..5, q \in {3, 6}, k \in {1, 2}, n \in {3, 5}}

Setup(gpu, cpu, watermark, upper, workloads) ==
    {[conf |-> [gpu |-> gpu, cpu |-> cpu, watermark |-> watermark, upper |-> upper],
      jobs |-> w] : w \in workloads}

AllSetups ==
    Setup(8, 2, 1, 9, AlignedWorkloads) \cup Setup(5, 4, 0, 99, SwapWorkloads)
       \cup Setup(6, 3, 0, 99, MigrateWorkloads)

\* What EngineCacheProofs assumes for NoOverrun.
ASSUME AllAligned == \A u \in AllSetups : ContinuedJobs(u.jobs) /\ NoRoundEntry(u.jobs)

\* Only the second of the two fails in the workloads of engine_overrun.
OverrunSetups == Setup(8, 2, 1, 99, RetainWorkloads \ AlignedWorkloads)
ASSUME OnlyRound == \A u \in OverrunSetups : ContinuedJobs(u.jobs) /\ ~NoRoundEntry(u.jobs)
=============================================================================
