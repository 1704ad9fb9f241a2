--------------------------- MODULE ConcurrentQueue ---------------------------
(***************************************************************************)
(* The class template concurrent_queue of dnathreading.hpp: a std::queue   *)
(* under queue_mutex, a condition variable, and a flag under a second      *)
(* mutex that says whether more blocks are coming.  Each operator is one   *)
(* critical section.  A thread that waits is in "asleep" from the moment   *)
(* its predicate was false until a notification (or a spurious wake-up)    *)
(* lets it test the predicate again.                                       *)
(***************************************************************************)
EXTENDS Sequences

VARIABLES
    the_queue,              \* the blocks queued, oldest first
    more_blocks_coming,     \* cleared by queue_exhausted
    asleep                  \* threads blocked on the_condition

queueVars == <<the_queue, more_blocks_coming, asleep>>

QueueInit ==
    /\ the_queue = <<>>
    /\ more_blocks_coming = TRUE
    /\ asleep = {}

QueueTypeOK(Item, Waiter) ==
    /\ the_queue \in Seq(Item)
    /\ more_blocks_coming \in BOOLEAN
    /\ asleep \subseteq Waiter

push_without_notify(data) ==                                        \* mutant
    /\ the_queue' = Append(the_queue, data)
    /\ UNCHANGED <<more_blocks_coming, asleep>>

push_and_notify(data) ==
    /\ the_queue' = Append(the_queue, data)
    /\ asleep' = {}
    /\ UNCHANGED more_blocks_coming

(* Several at once; only before there are threads to notify. *)
push_data(data) ==
    /\ the_queue' = the_queue \o data
    /\ UNCHANGED <<more_blocks_coming, asleep>>

is_empty == the_queue = <<>>

Queued == {the_queue[i] : i \in DOMAIN the_queue}

front_and_pop(value) ==
    /\ ~is_empty
    /\ value = Head(the_queue)
    /\ the_queue' = Tail(the_queue)
    /\ UNCHANGED <<more_blocks_coming, asleep>>

notify_all ==
    /\ asleep' = {}
    /\ UNCHANGED <<the_queue, more_blocks_coming>>

(* The predicate of wait_if_queue_is_empty is tested and the thread put to *)
(* sleep in one critical section of queue_mutex.                           *)
sleep_on_empty(thread) ==
    /\ is_empty
    /\ asleep' = asleep \cup {thread}
    /\ UNCHANGED <<the_queue, more_blocks_coming>>

spurious_wakeup(thread) ==
    /\ thread \in asleep
    /\ asleep' = asleep \ {thread}
    /\ UNCHANGED <<the_queue, more_blocks_coming>>

queue_exhausted ==
    /\ more_blocks_coming' = FALSE
    /\ asleep' = {}
    /\ UNCHANGED the_queue

reset_blocks_coming ==
    /\ more_blocks_coming' = TRUE
    /\ UNCHANGED <<the_queue, asleep>>
=============================================================================
