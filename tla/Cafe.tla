-------------------------------- MODULE Cafe --------------------------------
(***************************************************************************)
(* The cafe simulation, concurrency/1.c: a main thread that keeps the time *)
(* and hands out semaphore tokens, one thread per barista and one per      *)
(* customer.  A step ends where a thread reads shared data that another    *)
(* may change before it writes.  sleep(1) is taken to be long enough for   *)
(* every thread that can run to run until it blocks.                       *)
(***************************************************************************)
EXTENDS Integers, FiniteSetsExt

CONSTANTS
    B, N,                          \* numbers of baristas and customers
    Arrivals, Tolerances, Preps    \* the times that occur in an input

Barista == 0 .. B - 1
Customer == 1 .. N

ASSUME CafeAssumption ==
    /\ B \in Nat \ {0} /\ N \in Nat \ {0}
    /\ Arrivals \subseteq Nat /\ Tolerances \subseteq Nat /\ Preps \subseteq Nat \ {0}

VARIABLES
    arrival, tolerance, prep,   \* the input: per customer, in order of arrival
    tmr, totalorders, coffee_wasted, wait_time,
    baristas, order_comp, customers, machine_lock,  \* semaphores
    finish_time_order, special_flag, wake_up_index,
    tol_time, wake_up_index_cust,
    order_taken_status, orderstatus, order_completion_status,
    mpc,       \* main: "enter", "free", "complete", "tolerate", "sleep", "closed"
    mi,        \* loop variable of main
    bpc, flag, cst, seen,    \* per barista; seen: what it read before it writes
    cpc, waited              \* per customer; waited: their share of wait_time

input == <<arrival, tolerance, prep>>
clock == <<tmr, mpc, mi>>
wakes == <<finish_time_order, special_flag, wake_up_index>>
orders == <<order_taken_status, orderstatus, order_completion_status>>
barista == <<bpc, flag, cst, seen>>
customer == <<cpc, tol_time, wake_up_index_cust, waited>>
vars == <<input, clock, totalorders, coffee_wasted, wait_time, baristas, order_comp,
          customers, machine_lock, wakes, orders, barista, customer>>

Init ==
    /\ arrival \in [Customer -> Arrivals] /\ tolerance \in [Customer -> Tolerances]
    /\ prep \in [Customer -> Preps]
    /\ \A c, d \in Customer : c < d => arrival[c] <= arrival[d]
    /\ tmr = 0 /\ totalorders = 0 /\ coffee_wasted = 0 /\ wait_time = 0
    /\ baristas = [b \in Barista |-> 0] /\ order_comp = [b \in Barista |-> 0]
    /\ customers = [c \in Customer |-> 0] /\ machine_lock = 1
    /\ finish_time_order = [b \in Barista |-> -1]
    /\ special_flag = [b \in Barista |-> 0]
    /\ wake_up_index = [b \in Barista |-> -1]
    /\ tol_time = [c \in Customer |-> -1]
    /\ wake_up_index_cust = [c \in Customer |-> -1]
    /\ order_taken_status = [c \in Customer |-> 0]
    /\ orderstatus = [c \in Customer |-> 0]
    /\ order_completion_status = [c \in Customer |-> 0]
    /\ mpc = "enter" /\ mi = 0
    /\ bpc = [b \in Barista |-> "idle"] /\ flag = [b \in Barista |-> -1]
    /\ cst = [b \in Barista |-> 1] /\ seen = [b \in Barista |-> -1]
    /\ cpc = [c \in Customer |-> "outside"] /\ waited = [c \in Customer |-> 0]

\* The chain of wake-ups through a set: each of its members wakes the next one.
Following(S, x) == IF \E y \in S : y > x THEN Min({y \in S : y > x}) ELSE -1
First(S) == Following(S, -1)
Post(sem, x) == IF x = -1 THEN sem ELSE [sem EXCEPT ![x] = @ + 1]

-----------------------------------------------------------------------------
(* Main thread, once a second *)

Arriving == {c \in Customer : arrival[c] = tmr}

\* Let the customers in one after the other; the last one posts machine_lock.
Enter ==
    /\ mpc = "enter" /\ machine_lock > 0
    /\ wake_up_index_cust' = [c \in Customer |-> IF c \in Arriving THEN Following(Arriving, c)
                                                 ELSE wake_up_index_cust[c]]
    /\ customers' = Post(customers, First(Arriving))
    /\ machine_lock' = machine_lock - (IF Arriving = {} THEN 0 ELSE 1)
    /\ mpc' = "free"
    /\ UNCHANGED <<input, tmr, mi, totalorders, coffee_wasted, wait_time, baristas, order_comp,
                   wakes, orders, barista, cpc, tol_time, waited>>

\* free_barista(no, b), called with no = 1, 2, ...: the no-th barista who is idle,
\* done, or has special_flag set. A call clears the flag of every barista it passes,
\* so the next call no longer counts those that have no other reason to be counted.
FreeBarista(no, special) ==
    LET match == {b \in Barista : finish_time_order[b] <= tmr \/ b \in special}
        nth == {b \in match : Cardinality({d \in match : d <= b}) = no}
        ret == First(nth)
    IN  [ret |-> ret, special |-> IF ret = -1 THEN {} ELSE {b \in special : b > ret}]

free_barista ==
    LET call[no \in 0 .. B + 1] ==
            IF no = 0 THEN [ret |-> -1, special |-> {b \in Barista : special_flag[b] = 1}]
            ELSE FreeBarista(no, call[no - 1].special)
    IN  [no \in 1 .. B + 1 |-> call[no].ret]

\* The calls main makes: up to the first that returns -1.
Made(ret, no) == \A k \in 1 .. no : ret[k] # -1

\* Wake the free baristas one after the other.
Free ==
    LET ret == free_barista IN
    /\ mpc = "free"
    /\ wake_up_index' = [b \in Barista |->
            IF \E no \in 1 .. B : Made(ret, no) /\ ret[no] = b
            THEN ret[1 + CHOOSE no \in 1 .. B : ret[no] = b]
            ELSE wake_up_index[b]]
    /\ special_flag' = [b \in Barista |-> 0]
    /\ baristas' = Post(baristas, ret[1])
    /\ mpc' = "complete" /\ mi' = 0
    /\ UNCHANGED <<input, tmr, totalorders, coffee_wasted, wait_time, order_comp, customers,
                   machine_lock, finish_time_order, orders, barista, customer>>

\* One turn of the loop that ends the preparations due now.
Complete ==
    /\ mpc = "complete"
    /\ order_comp' = IF finish_time_order[mi] = tmr THEN Post(order_comp, mi) ELSE order_comp
    /\ mi' = mi + 1
    /\ mpc' = IF mi' = B THEN "tolerate" ELSE mpc
    /\ UNCHANGED <<input, tmr, totalorders, coffee_wasted, wait_time, baristas, customers,
                   machine_lock, wakes, orders, barista, customer>>

\* Wake the customers whose tolerance ends now.
Tolerate ==
    /\ mpc = "tolerate"
    /\ customers' = [c \in Customer |-> customers[c] + (IF tol_time[c] = tmr THEN 1 ELSE 0)]
    /\ mpc' = "sleep"
    /\ UNCHANGED <<input, tmr, mi, totalorders, coffee_wasted, wait_time, baristas, order_comp,
                   machine_lock, wakes, orders, barista, customer>>

\* Every other thread waits for a semaphore.
Quiet ==
    /\ \A b \in Barista : CASE bpc[b] = "idle" -> baristas[b] = 0
                            [] bpc[b] = "locking" -> machine_lock = 0
                            [] bpc[b] = "preparing" -> order_comp[b] = 0
                            [] OTHER -> FALSE
    /\ \A c \in Customer : CASE cpc[c] \in {"outside", "waiting"} -> customers[c] = 0
                             [] cpc[c] \in {"served", "left"} -> TRUE
                             [] OTHER -> FALSE

\* Mutant of customer_remaining: the cafe closes once every order is taken.
order_remaining == \E c \in Customer : order_taken_status[c] = 0

customer_remaining == \E c \in Customer : order_completion_status[c] = 0

\* sleep(1), tmr += 1 and the test of the while loop.
Tick ==
    /\ mpc = "sleep" /\ Quiet
    /\ tmr' = tmr + 1
    /\ mpc' = IF customer_remaining THEN "enter" ELSE "closed"
    /\ UNCHANGED <<input, mi, totalorders, coffee_wasted, wait_time, baristas, order_comp, customers,
                   machine_lock, wakes, orders, barista, customer>>

-----------------------------------------------------------------------------
(* barista_simulation(), barista b *)

\* A wake-up, passed on at once by a barista who has an order.
Woken(b) ==
    /\ bpc[b] = "idle" /\ baristas[b] > 0
    /\ LET rest == [baristas EXCEPT ![b] = @ - 1] IN
       IF flag[b] = -1
       THEN /\ bpc' = [bpc EXCEPT ![b] = "locking"] /\ baristas' = rest
            /\ UNCHANGED <<flag, wake_up_index, finish_time_order>>
       ELSE /\ baristas' = Post(rest, wake_up_index[b])
            /\ wake_up_index' = [wake_up_index EXCEPT ![b] = -1]
            /\ IF order_completion_status[flag[b]] = 1
               THEN /\ flag' = [flag EXCEPT ![b] = -1] /\ UNCHANGED bpc
                    /\ finish_time_order' = [finish_time_order EXCEPT ![b] = -1]
               ELSE /\ bpc' = [bpc EXCEPT ![b] = "preparing"]
                    /\ UNCHANGED <<flag, finish_time_order>>
    /\ UNCHANGED <<input, clock, totalorders, coffee_wasted, wait_time, order_comp, customers,
                   machine_lock, special_flag, orders, cst, seen, customer>>

\* Mutant of Untaken: the order may be another barista's.
Incomplete(b) == {c \in cst[b] .. totalorders : order_completion_status[c] = 0}

\* The orders b may pick, from where b's last search ended.
Untaken(b) == {c \in cst[b] .. totalorders :
                 order_completion_status[c] = 0 /\ order_taken_status[c] = 0}

\* Under machine_lock: pass the wake-up on and pick an order.
PickOrder(b) ==
    LET c == First(Untaken(b)) IN
    /\ bpc[b] = "locking" /\ machine_lock > 0
    /\ baristas' = Post(baristas, wake_up_index[b])
    /\ wake_up_index' = [wake_up_index EXCEPT ![b] = -1]
    /\ flag' = [flag EXCEPT ![b] = c]
    /\ IF c = -1
       THEN /\ cst' = [cst EXCEPT ![b] = Max({@, totalorders + 1})]
            /\ UNCHANGED <<order_taken_status, finish_time_order, special_flag>>
       ELSE /\ cst' = [cst EXCEPT ![b] = c + 1]
            /\ order_taken_status' = [order_taken_status EXCEPT ![c] = 1]
            /\ finish_time_order' = [finish_time_order EXCEPT ![b] = tmr + prep[c] + 1]
            /\ special_flag' = [special_flag EXCEPT ![b] = 1]
    /\ bpc' = [bpc EXCEPT ![b] = "idle"]
    /\ UNCHANGED <<input, clock, totalorders, coffee_wasted, wait_time, order_comp, customers,
                   machine_lock, orderstatus, order_completion_status, seen, customer>>

\* The coffee is ready; has the customer left? If so, coffee_wasted is read ...
Prepared(b) ==
    /\ bpc[b] = "preparing" /\ order_comp[b] > 0
    /\ order_comp' = [order_comp EXCEPT ![b] = @ - 1]
    /\ orderstatus' = [orderstatus EXCEPT ![flag[b]] = 1]
    /\ seen' = [seen EXCEPT ![b] = IF order_completion_status[flag[b]] = 1
                                   THEN coffee_wasted ELSE -1]
    /\ bpc' = [bpc EXCEPT ![b] = "serving"]
    /\ UNCHANGED <<input, clock, totalorders, coffee_wasted, wait_time, baristas, customers,
                   machine_lock, wakes, order_taken_status, order_completion_status,
                   flag, cst, customer>>

\* ... and written.
Serve(b) ==
    /\ bpc[b] = "serving"
    /\ coffee_wasted' = IF seen[b] = -1 THEN coffee_wasted ELSE seen[b] + 1
    /\ order_completion_status' = [order_completion_status EXCEPT ![flag[b]] = 1]
    /\ customers' = Post(customers, flag[b])
    /\ flag' = [flag EXCEPT ![b] = -1] /\ seen' = [seen EXCEPT ![b] = -1]
    /\ bpc' = [bpc EXCEPT ![b] = "idle"]
    /\ UNCHANGED <<input, clock, totalorders, wait_time, baristas, order_comp, machine_lock,
                   wakes, order_taken_status, orderstatus, cst, customer>>

-----------------------------------------------------------------------------
(* customer_waiting(), customer c *)

\* Order, and let the next customer in or the baristas work.
Order(c) ==
    /\ cpc[c] = "outside" /\ customers[c] > 0
    /\ totalorders' = totalorders + 1
    /\ customers' = Post([customers EXCEPT ![c] = @ - 1], wake_up_index_cust[c])
    /\ machine_lock' = machine_lock + (IF wake_up_index_cust[c] = -1 THEN 1 ELSE 0)
    /\ wake_up_index_cust' = [wake_up_index_cust EXCEPT ![c] = -1]
    /\ tol_time' = [tol_time EXCEPT ![c] = arrival[c] + tolerance[c] + 1]
    /\ cpc' = [cpc EXCEPT ![c] = "waiting"]
    /\ UNCHANGED <<input, clock, coffee_wasted, wait_time, baristas, order_comp, wakes, orders,
                   barista, waited>>

\* A customer who is woken before the order is complete leaves without it.
Outcome(c) == IF order_completion_status[c] = 0 THEN "leaving" ELSE "collecting"

\* Woken, by the barista or by the time: the status and wait_time are read ...
WakeUp(c) ==
    /\ cpc[c] = "waiting" /\ customers[c] > 0
    /\ customers' = [customers EXCEPT ![c] = @ - 1]
    /\ cpc' = [cpc EXCEPT ![c] = Outcome(c)]
    /\ waited' = [waited EXCEPT ![c] = wait_time]
    /\ UNCHANGED <<input, clock, totalorders, coffee_wasted, wait_time, baristas, order_comp,
                   machine_lock, wakes, orders, barista, tol_time, wake_up_index_cust>>

\* What c adds to wait_time.
Share(c) == IF cpc[c] = "leaving" THEN tolerance[c] + 1 ELSE tmr - arrival[c] - prep[c]

\* ... then wait_time is written, and a customer without coffee marks the order.
Go(c) ==
    /\ cpc[c] \in {"leaving", "collecting"}
    /\ wait_time' = waited[c] + Share(c)
    /\ waited' = [waited EXCEPT ![c] = Share(c)]
    /\ IF cpc[c] = "leaving"
       THEN /\ order_completion_status' = [order_completion_status EXCEPT ![c] = 1]
            /\ cpc' = [cpc EXCEPT ![c] = "left"]
       ELSE cpc' = [cpc EXCEPT ![c] = "served"] /\ UNCHANGED order_completion_status
    /\ UNCHANGED <<input, clock, totalorders, coffee_wasted, baristas, order_comp, customers,
                   machine_lock, wakes, order_taken_status, orderstatus, barista,
                   tol_time, wake_up_index_cust>>

-----------------------------------------------------------------------------
MainStep == Enter \/ Free \/ Complete \/ Tolerate \/ Tick
BaristaStep(b) == Woken(b) \/ PickOrder(b) \/ Prepared(b) \/ Serve(b)
CustomerStep(c) == Order(c) \/ WakeUp(c) \/ Go(c)

\* After closing, main posts the baristas and the process exits.
Closed == mpc = "closed" /\ UNCHANGED vars

Next ==
    \/ MainStep \/ Closed
    \/ \E b \in Barista : BaristaStep(b)
    \/ \E c \in Customer : CustomerStep(c)

\* The operating system runs every thread that can run, and sleep() returns.
Spec ==
    /\ Init /\ [][Next]_vars
    /\ WF_vars(MainStep)
    /\ \A b \in Barista : WF_vars(BaristaStep(b))
    /\ \A c \in Customer : WF_vars(CustomerStep(c))

-----------------------------------------------------------------------------
(* Properties *)

TypeOK ==
    /\ tmr \in Nat /\ totalorders \in 0 .. N /\ coffee_wasted \in 0 .. N
    /\ wait_time \in Int /\ machine_lock \in 0 .. 1
    /\ baristas \in [Barista -> Nat] /\ order_comp \in [Barista -> Nat]
    /\ customers \in [Customer -> Nat]
    /\ finish_time_order \in [Barista -> Nat \cup {-1}]
    /\ special_flag \in [Barista -> 0 .. 1]
    /\ wake_up_index \in [Barista -> Barista \cup {-1}]
    /\ tol_time \in [Customer -> Nat \cup {-1}]
    /\ wake_up_index_cust \in [Customer -> Customer \cup {-1}]
    /\ {order_taken_status, orderstatus, order_completion_status} \subseteq [Customer -> 0 .. 1]
    /\ mpc \in {"enter", "free", "complete", "tolerate", "sleep", "closed"} /\ mi \in 0 .. B
    /\ bpc \in [Barista -> {"idle", "locking", "preparing", "serving"}]
    /\ flag \in [Barista -> Customer \cup {-1}] /\ cst \in [Barista -> 1 .. N + 1]
    /\ seen \in [Barista -> -1 .. N] /\ waited \in [Customer -> Int]
    /\ cpc \in [Customer -> {"outside", "waiting", "leaving", "collecting", "left", "served"}]

\* Every coffee that is collected has been made, and made once.  An order is with at most
\* one barista, and never again once its coffee is ready, whichever baristas search the
\* list in the same second: machine_lock never has two tokens.  A customer who collects
\* is told apart from one whose tolerance ends in the second the barista finishes.
CoffeeMadeOnce ==
    /\ TypeOK
    /\ \A b, d \in Barista : flag[b] # -1 =>
        /\ flag[b] = flag[d] => b = d
        /\ orderstatus[flag[b]] = 1 => bpc[b] = "serving"
    /\ \A c \in Customer : cpc[c] \in {"collecting", "served"} => orderstatus[c] = 1

\* The main loop ends: every customer is served or leaves, and the cafe closes.
CafeCloses == <>(mpc = "closed" /\ \A c \in Customer : cpc[c] \in {"served", "left"})

\* What README.md says of coffee_wasted: it counts the coffees prepared for
\* customers who left without their order.
WastedIsCounted ==
    mpc = "closed" =>
        coffee_wasted = Cardinality({c \in Customer : cpc[c] = "left" /\ orderstatus[c] = 1})

\* What README.md says of the waiting time: at least one second when served.
ServedWaitAtLeastOne == \A c \in Customer : cpc[c] = "served" => waited[c] >= 1

\* What README.md says of as many baristas as one likes: a customer who is served
\* has waited one second.
ServedWaitIsOne == \A c \in Customer : cpc[c] = "served" => waited[c] = 1

\* What README.md says of the shared data: the semaphores make critical sections
\* atomic. wait_time is the sum of what the customers added.
WaitTimeAddsUp ==
    mpc = "closed" => wait_time = MapThenSumSet(LAMBDA c : waited[c], Customer)
=============================================================================
