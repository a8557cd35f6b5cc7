--------------------------- MODULE ContextWindow ---------------------------
(***************************************************************************)
(* The conversation window of an agent (agenthandler/context.py): turns    *)
(* are added at its end, and compress() moves the older ones into a        *)
(* summary.  It takes them out under the lock, digests them and awaits a   *)
(* summarizer without it, and writes the summary under the lock again, so  *)
(* turns are added and other compressions run in between (compress_sync    *)
(* runs them in threads).                                                  *)
(*                                                                         *)
(* Turns are numbered from 1 in the order of add_turn.  A summary is the   *)
(* set of turns whose digest was put into it: its text, and that it is cut *)
(* at max_summary_tokens, is left out.                                     *)
(***************************************************************************)
EXTENDS Integers, FiniteSets

CONSTANTS
    RecentTurns, \* values of max_recent_turns
    MaxTurns,    \* bound: turns ever added
    Compression  \* bound: calls of compress()

ASSUME ContextAssumption == RecentTurns \subseteq Nat /\ MaxTurns \in Nat

NoHistory == [covers |-> {}, count |-> 0]

VARIABLES
    keep,       \* max_recent_turns of this window
    added,      \* turns added so far
    window,     \* _turns
    summary,    \* _compressed: turns digested, and turn_count
    work,       \* per compression: where it is, the turns it took, its digest
    overlapped, \* history: two compressions were under way at once
    dropped     \* history: turns that a cancelled compression had taken

contextVars == <<keep, added, window, summary, work, overlapped, dropped>>

ContextInit ==
    /\ keep \in RecentTurns /\ added = 0 /\ window = {} /\ summary = NoHistory
    /\ work = [c \in Compression |-> [at |-> "new", turns |-> {}, digest |-> NoHistory]]
    /\ overlapped = FALSE /\ dropped = {}

UnderWay == {c \in Compression : work[c].at \in {"taken", "summarizing"}}

-----------------------------------------------------------------------------
AddTurn ==
    /\ added < MaxTurns
    /\ added' = added + 1 /\ window' = window \cup {added + 1}
    /\ UNCHANGED <<keep, summary, work, overlapped, dropped>>

\* _turns[-n:] and _turns[:-n] for n = max_recent_turns.  With n = 0 these are
\* [0:] and [:0]: all turns are kept and none is compressed.
Newest(n) ==
    {t \in window : n = 0 \/ Cardinality({u \in window : u >= t}) <= n}

Kept == Newest(keep)

Take(c) ==
    /\ work[c].at = "new" /\ Cardinality(window) > keep
    /\ work' = [work EXCEPT ![c].at = "taken",
                            ![c].turns = window \ Newest(keep)]
    /\ window' = Kept
    /\ overlapped' = (overlapped \/ UnderWay # {})
    /\ UNCHANGED <<keep, added, summary, dropped>>

\* (Bug: what is compressed already is not counted.)
DigestAlone(turns) == [covers |-> turns, count |-> Cardinality(turns)]

\* _compress_turns reads turn_count without the lock.
DigestOf(turns) ==
    [covers |-> turns, count |-> summary.count + Cardinality(turns)]

Digest(c) ==
    /\ work[c].at = "taken"
    /\ work' = [work EXCEPT ![c].at = "summarizing", ![c].digest = DigestOf(work[c].turns)]
    /\ UNCHANGED <<keep, added, window, summary, overlapped, dropped>>

Joined(c) == [work[c].digest EXCEPT !.covers = @ \cup summary.covers]

\* The summarizer answered, failed, or there is none.
Write(c) ==
    /\ work[c].at = "summarizing"
    /\ summary' = Joined(c)
    /\ work' = [work EXCEPT ![c].at = "done"]
    /\ UNCHANGED <<keep, added, window, overlapped, dropped>>

\* Cancelling compress() at its await leaves through `except Exception': the
\* turns it took are in no list any more.
CancelCompress(c) ==
    /\ work[c].at = "summarizing"
    /\ work' = [work EXCEPT ![c].at = "canceled"]
    /\ dropped' = dropped \cup work[c].turns
    /\ UNCHANGED <<keep, added, window, summary, overlapped>>

ContextNext ==
    \/ AddTurn
    \/ \E c \in Compression : Take(c) \/ Digest(c) \/ Write(c) \/ CancelCompress(c)

ContextSpec == ContextInit /\ [][ContextNext]_contextVars

-----------------------------------------------------------------------------
Taken == UNION {work[c].turns : c \in UnderWay}

\* What to_prompt shows.
Prompt == summary.covers \cup window

\* No turn falls between the window, the summary and the compressions under way
\* (context.py:321-347), whatever is added and compressed meanwhile, unless the
\* compression that had taken it was cancelled; and as long as no compression
\* overlapped another, turn_count counts every compressed turn ("Total turns
\* including compressed.", context.py:407), though the count is read and written
\* back around an await.
TurnsAreKept ==
    /\ Prompt \cup Taken \cup dropped = 1..added
    /\ (~overlapped /\ dropped = {}) =>
           summary.count + Cardinality(window) + Cardinality(Taken) = added

-----------------------------------------------------------------------------
\* The inductive invariant behind TurnsAreKept: a digest covers what was taken, and
\* while compressions do not overlap it counts on from the summary as it is.
ContextInv ==
    /\ added \in Nat /\ keep \in Nat /\ summary.count \in Nat /\ IsFiniteSet(window)
    /\ work \in [Compression ->
          [at : {"new", "taken", "summarizing", "done", "canceled"}, turns : SUBSET (1..added),
           digest : [covers : SUBSET (1..added), count : Nat]]]
    /\ window \subseteq 1..added
    /\ \A c \in Compression : work[c].at = "summarizing" => work[c].digest.covers = work[c].turns
    /\ ~overlapped =>
          /\ \A c, d \in UnderWay : c = d
          /\ \A c \in Compression : work[c].at = "summarizing" =>
                work[c].digest.count = summary.count + Cardinality(work[c].turns)
    /\ TurnsAreKept
=============================================================================
