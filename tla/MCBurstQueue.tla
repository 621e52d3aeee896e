----------------------------- MODULE MCBurstQueue -----------------------------
(* Instances of BurstQueue for TLC. *)
EXTENDS BurstQueueServer

Config(type, servers, waiters, window, zero) ==
  [arrival_conf |-> {0, 1}, type |-> type, num_servers |-> servers,
   max_waiters |-> waiters, max_window_size |-> window, max_time |-> 0,
   max_arrival |-> 2, queue_zero |-> zero]

\* Every policy with three servers and a window that the line outgrows, and
\* first fit over the whole line.
ThreeServers ==
  {Config(type, 3, 3, 2, zero) : type \in {FIFO, SCHED1, SCHEDWIN}, zero \in BOOLEAN}
    \union {Config(SCHED1, 3, 2, 0, FALSE)}

\* A window of three, which the knapsack divides unequally.
WideWindow == {[Config(SCHEDWIN, 4, -1, 3, TRUE) EXCEPT !.max_arrival = 3]}

\* Unlimited servers, where both policies take the head (the window policy
\* finds none, and babs_process_packet reads a null pointer).
UnlimitedServers == {Config(type, -1, 1, 2, FALSE) : type \in {FIFO, SCHED1}}

\* A generator that can be negative (RANDOM_NORMAL), and a limit of time.
EarlyArrivals ==
  {[Config(SCHED1, 2, 1, 1, FALSE) EXCEPT !.arrival_conf = {-1, 2}, !.max_time = 2]}

ServableConfigs == ThreeServers \union WideWindow \union UnlimitedServers \union EarlyArrivals

=============================================================================
