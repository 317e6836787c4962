------------------------------- MODULE Parlor -------------------------------
(***************************************************************************)
(* The ice cream parlor simulation, concurrency/2.c: a main thread that    *)
(* keeps the time, one thread per machine and one per customer.  A step    *)
(* ends where a thread releases a semaphore others wait for, or has read   *)
(* shared data that another thread may change before it writes.  As in     *)
(* Cafe, sleep(1) is long enough for every thread to run until it blocks.  *)
(* Orders are numbered from 1, one more than their index in order_list.    *)
(***************************************************************************)
EXTENDS Integers, Sequences, FiniteSetsExt

CONSTANTS
    Inputs   \* records: k, start, end (per machine), arrival (per customer),
             \* stock (per topping, -1 if unlimited), orders: a sequence of
             \* records cust, time, tops

\* Customers are listed in the order of their arrival; the parlor opens at time 0.
ASSUME ParlorAssumption ==
    \A i \in Inputs :
        /\ i.k \in Nat /\ DOMAIN i.start = DOMAIN i.end
        /\ \A c, d \in DOMAIN i.arrival : c < d => i.arrival[c] <= i.arrival[d]
        /\ \A o \in DOMAIN i.orders :
            /\ i.orders[o].cust \in DOMAIN i.arrival /\ i.orders[o].time \in Nat \ {0}
            /\ \A j \in DOMAIN i.orders[o].tops : i.orders[o].tops[j] \in DOMAIN i.stock

VARIABLES
    input,
    tmr, totalorders, current_customers, returned_count,
    machines, order_comp, customers, rej_customers, machine_lock,   \* semaphores
    finish_time_order, special_flag, wake_up_index, wake_up_order_comp,
    wake_up_index_cust, rejection_cust,
    order_taken_status, orderstatus, order_completion_status,
    topping_stock, ingredient_over, close_sig, some_ing_exh,
    mpc,              \* main: "enter", "wake", "sleep", "join", "closed"
    xpc, flag, cst,   \* per machine
    cpc, inside,      \* per customer; inside: current_customers as it was read
    prepared,         \* history: orders a machine has completed
    occupied          \* history: places taken in this second, at its start or since

Machine == DOMAIN input.start
Customer == DOMAIN input.arrival
Order == DOMAIN input.orders
OrdersOf(c) == {o \in Order : input.orders[o].cust = c}
Toppings(o) == Range(input.orders[o].tops)

clock == <<input, tmr, mpc>>
wakes == <<finish_time_order, special_flag, wake_up_index>>
orders == <<order_taken_status, orderstatus>>
stock == <<topping_stock, ingredient_over>>
closing == <<close_sig, some_ing_exh>>
people == <<totalorders, current_customers, returned_count>>
machine == <<xpc, flag, cst>>
customer == <<cpc, inside>>
history == <<prepared, occupied>>
vars == <<clock, people, machines, order_comp, customers, rej_customers, machine_lock,
          wakes, wake_up_order_comp, wake_up_index_cust, rejection_cust, orders,
          order_completion_status, stock, closing, machine, customer, history>>

Init ==
    /\ input \in Inputs
    /\ tmr = 0 /\ totalorders = 0 /\ current_customers = 0 /\ returned_count = 0
    /\ machines = [m \in Machine |-> 0] /\ order_comp = [m \in Machine |-> 0]
    /\ customers = [c \in Customer |-> 0] /\ rej_customers = [c \in Customer |-> 0]
    /\ machine_lock = 1
    /\ finish_time_order = [m \in Machine |-> -1] /\ special_flag = [m \in Machine |-> 0]
    /\ wake_up_index = [m \in Machine |-> -1] /\ wake_up_order_comp = [m \in Machine |-> -1]
    /\ wake_up_index_cust = [c \in Customer |-> -1]
    /\ rejection_cust = [c \in Customer |-> 0]
    /\ order_taken_status = [o \in Order |-> 0] /\ orderstatus = [o \in Order |-> 0]
    /\ order_completion_status = [c \in Customer |-> 0]
    /\ topping_stock = input.stock /\ ingredient_over = 0
    /\ close_sig = 0 /\ some_ing_exh = 0
    /\ mpc = "enter"
    /\ xpc = [m \in Machine |-> "off"] /\ flag = [m \in Machine |-> -1]
    /\ cst = [m \in Machine |-> 1]
    /\ cpc = [c \in Customer |-> "outside"] /\ inside = [c \in Customer |-> 0]
    /\ prepared = {} /\ occupied = 0

\* The chain of wake-ups through a set: each of its members wakes the next one.
Following(S, x) == IF \E y \in S : y > x THEN Min({y \in S : y > x}) ELSE -1
First(S) == Following(S, -1)
Post(sem, x) == IF x = -1 THEN sem ELSE [sem EXCEPT ![x] = @ + 1]

-----------------------------------------------------------------------------
(* Main thread *)

Limited == {t \in DOMAIN topping_stock : topping_stock[t] # -1}

ingredient_exhausted == Limited # {} /\ \A t \in Limited : topping_stock[t] <= 0


being_prepared == \E o \in Order : order_taken_status[o] = 1 /\ orderstatus[o] = 0

Arriving == {c \in Customer : input.arrival[c] = tmr}

\* Let the customers in one after the other; the last one posts machine_lock.
Enter ==
    /\ mpc = "enter" /\ machine_lock > 0
    /\ wake_up_index_cust' = [c \in Customer |-> IF c \in Arriving THEN Following(Arriving, c)
                                                 ELSE wake_up_index_cust[c]]
    /\ customers' = Post(customers, First(Arriving))
    /\ machine_lock' = machine_lock - (IF Arriving = {} THEN 0 ELSE 1)
    /\ mpc' = "wake"
    /\ UNCHANGED <<input, tmr, people, machines, order_comp, rej_customers, wakes,
                   wake_up_order_comp, rejection_cust, orders, order_completion_status,
                   stock, closing, machine, customer, history>>

Working(m) == input.start[m] <= tmr /\ tmr <= input.end[m]

\* free_machine(no, ...), called with no = 1, 2, ...: as free_barista() of the cafe,
\* a call clears special_flag of the machines it passes.
FreeMachine(no, special) ==
    LET match == {m \in Machine : Working(m) /\ (finish_time_order[m] < tmr \/ m \in special)}
        nth == {m \in match : Cardinality({x \in match : x <= m}) = no}
        ret == First(nth)
    IN  [ret |-> ret,
         special |-> {m \in special : m \notin match \/ (ret # -1 /\ m > ret)}]

free_machine ==
    LET call[no \in 0 .. Cardinality(Machine) + 1] ==
            IF no = 0
            THEN [ret |-> -2, special |-> {m \in Machine : special_flag[m] = 1}]
            ELSE IF call[no - 1].ret = -1 THEN call[no - 1]
            ELSE FreeMachine(no, call[no - 1].special)
    IN  call

\* order_comp_machine(): the machines whose ice cream is ready now.
Ready == {m \in Machine : finish_time_order[m] = tmr}

\* Switch on the machines that start now, then wake the free ones, and the ready
\* ones, each by its predecessor.
Wake ==
    LET n == Cardinality(Machine)  call == free_machine
        started == [m \in Machine |-> machines[m] + (IF input.start[m] = tmr THEN 1 ELSE 0)]
    IN
    /\ mpc = "wake"
    /\ wake_up_index' = [m \in Machine |->
            IF \E no \in 1 .. n : call[no].ret = m
            THEN call[1 + CHOOSE no \in 1 .. n : call[no].ret = m].ret
            ELSE wake_up_index[m]]
    /\ special_flag' = [m \in Machine |-> IF m \in call[n + 1].special THEN 1 ELSE 0]
    /\ machines' = Post(started, call[1].ret)
    /\ wake_up_order_comp' = [m \in Machine |-> IF m \in Ready THEN Following(Ready, m)
                                                ELSE wake_up_order_comp[m]]
    /\ order_comp' = Post(order_comp, First(Ready))
    /\ mpc' = "sleep"
    /\ UNCHANGED <<input, tmr, people, customers, rej_customers, machine_lock,
                   finish_time_order, wake_up_index_cust, rejection_cust, orders,
                   order_completion_status, stock, closing, machine, customer, history>>

Last == Max(Range(input.end) \cup {0})

Present == {c \in Customer : cpc[c] \in {"waiting", "collect"}}

\* Nobody can run any more in this second: the situation sleep(1) waits for.
Blocked(m) ==
    \/ xpc[m] = "returned"
    \/ xpc[m] \in {"off", "idle"} /\ machines[m] = 0
    \/ xpc[m] = "preparing" /\ order_comp[m] = 0
    \/ xpc[m] = "locking" /\ machine_lock = 0
Seated(c) ==
    \/ cpc[c] \in {"turned", "refused", "unserved", "rejected", "served", "absent"}
    \/ cpc[c] \in {"outside", "collect"} /\ customers[c] = 0
    \/ cpc[c] = "waiting" /\ rej_customers[c] = 0
Quiet == (\A m \in Machine : Blocked(m)) /\ (\A c \in Customer : Seated(c))

\* The test of the while loop: ingredient_exhausted_checker() also sets ingredient_over.
Opened(t, ended) ==
    /\ ingredient_over' = IF t <= Last /\ ingredient_exhausted THEN 1 ELSE ingredient_over
    /\ ended <=> t > Last \/ (ingredient_exhausted /\ ~being_prepared)

\* sleep(1) and the next second, if the parlor remains open.
Tick ==
    /\ mpc = "sleep" /\ Quiet
    /\ tmr' = tmr + 1
    /\ Opened(tmr', FALSE)
    /\ mpc' = "enter" /\ occupied' = Cardinality(Present)
    /\ UNCHANGED <<input, people, machines, order_comp, customers, rej_customers,
                   machine_lock, wakes, wake_up_order_comp, wake_up_index_cust,
                   rejection_cust, orders, order_completion_status, topping_stock, closing,
                   machine, customer, prepared>>


\* The customers main has not let in when it closes the parlor at time t.
NotArrived(c, t) == input.arrival[c] >= t

\* The end of the loop: main sets close_sig and posts the semaphores on which it
\* believes threads to wait.
Close ==
    /\ mpc = "sleep" /\ Quiet
    /\ tmr' = tmr + 1
    /\ Opened(tmr', TRUE)
    /\ some_ing_exh' = IF ingredient_exhausted /\ tmr' <= Last THEN 1 ELSE 0
    /\ close_sig' = 1
    /\ machines' = [m \in Machine |-> machines[m] + (IF input.start[m] >= tmr' THEN 2 ELSE 1)]
    /\ order_comp' = [m \in Machine |->
            order_comp[m] + (IF finish_time_order[m] >= tmr' THEN 1 ELSE 0)]
    /\ rej_customers' = [c \in Customer |->
            rej_customers[c] + (IF order_completion_status[c] = 0 THEN 1 ELSE 0)]
    /\ customers' = [c \in Customer |->
            customers[c] + (IF NotArrived(c, tmr') THEN 1 ELSE 0)]
    /\ mpc' = "join"
    /\ UNCHANGED <<input, people, machine_lock, wakes, wake_up_order_comp,
                   wake_up_index_cust, rejection_cust, orders, order_completion_status,
                   topping_stock, machine, customer, history>>

\* pthread_join() on all the threads.
Join ==
    /\ mpc = "join"
    /\ \A m \in Machine : xpc[m] = "returned"
    /\ \A c \in Customer : cpc[c] \in {"turned", "refused", "unserved", "rejected", "served",
                                       "absent"}
    /\ mpc' = "closed"
    /\ UNCHANGED <<input, tmr, people, machines, order_comp, customers, rej_customers,
                   machine_lock, wakes, wake_up_order_comp, wake_up_index_cust,
                   rejection_cust, orders, order_completion_status, stock, closing,
                   machine, customer, history>>

-----------------------------------------------------------------------------
(* Machine threads: "off", "idle", "locking", "scan", "unlock", "preparing", *)
(* "checking", "returned".                                                   *)

\* The first sem_wait: the machine is switched on.
Start(m) ==
    /\ xpc[m] = "off" /\ machines[m] > 0
    /\ machines' = [machines EXCEPT ![m] = @ - 1]
    /\ xpc' = [xpc EXCEPT ![m] = IF close_sig = 1 THEN "returned" ELSE "idle"]
    /\ UNCHANGED <<clock, people, order_comp, customers, rej_customers, machine_lock, wakes,
                   wake_up_order_comp, wake_up_index_cust, rejection_cust, orders,
                   order_completion_status, stock, closing, flag, cst, customer, history>>

\* Pass the wake-up on to the next free machine.
PassOn(m, sem) ==
    /\ machines' = Post(sem, wake_up_index[m])
    /\ wake_up_index' = [wake_up_index EXCEPT ![m] = -1]

\* Woken in the loop: without an order and with the limited toppings used up, the
\* machine goes back to sleep; with one it starts to prepare it.
Woken(m) ==
    LET sem == [machines EXCEPT ![m] = @ - 1] IN
    /\ xpc[m] = "idle" /\ machines[m] > 0
    /\ \/ /\ close_sig = 1
          /\ xpc' = [xpc EXCEPT ![m] = "returned"]
          /\ machines' = sem /\ UNCHANGED wake_up_index
       \/ /\ close_sig = 0 /\ flag[m] = -1 /\ ingredient_over = 1
          /\ machines' = sem /\ UNCHANGED <<xpc, wake_up_index>>
       \/ /\ close_sig = 0 /\ flag[m] = -1 /\ ingredient_over = 0
          /\ xpc' = [xpc EXCEPT ![m] = "locking"]
          /\ machines' = sem /\ UNCHANGED wake_up_index
       \/ /\ close_sig = 0 /\ flag[m] # -1
          /\ xpc' = [xpc EXCEPT ![m] = "preparing"]
          /\ PassOn(m, sem)
    /\ UNCHANGED <<clock, people, order_comp, customers, rej_customers, machine_lock,
                   finish_time_order, special_flag, wake_up_order_comp, wake_up_index_cust,
                   rejection_cust, orders, order_completion_status, stock, closing, flag, cst,
                   customer, history>>

Lock(m) ==
    /\ xpc[m] = "locking" /\ machine_lock > 0
    /\ machine_lock' = machine_lock - 1
    /\ PassOn(m, machines)
    /\ xpc' = [xpc EXCEPT ![m] = "scan"]
    /\ UNCHANGED <<clock, people, order_comp, customers, rej_customers, finish_time_order,
                   special_flag, wake_up_order_comp, wake_up_index_cust, rejection_cust,
                   orders, order_completion_status, stock, closing, flag, cst, customer,
                   history>>

Cust(o) == input.orders[o].cust
JustArrived(o) == input.arrival[Cust(o)] = tmr

\* Mutation: the machine does not look whether another one has taken the order.
Unserved(o) == order_completion_status[Cust(o)] = 0

Open(o) == order_completion_status[Cust(o)] = 0 /\ order_taken_status[o] = 0

\* Mutation: only the first topping is checked.
FirstShort(o) == input.orders[o].tops # << >> /\ topping_stock[input.orders[o].tops[1]] = 0

Shortage(o) == \E t \in Toppings(o) : topping_stock[t] = 0

InTime(m, o) ==
    input.end[m] - tmr >= input.orders[o].time + (IF JustArrived(o) THEN 1 ELSE 0)

\* The scan passes over an order that is closed, or that the machine has no time for.
ScanPast(m) ==
    LET o == cst[m] IN
    /\ xpc[m] = "scan" /\ o <= totalorders
    /\ ~Open(o) \/ (~Shortage(o) /\ ~InTime(m, o))
    /\ cst' = [cst EXCEPT ![m] = o + 1]
    /\ UNCHANGED <<clock, people, machines, order_comp, customers, rej_customers,
                   machine_lock, wakes, wake_up_order_comp, wake_up_index_cust,
                   rejection_cust, orders, order_completion_status, stock, closing, xpc,
                   flag, customer, history>>

\* A topping is missing: the customer is told to leave.  order_list->... is the first
\* order of the list, whichever order is being looked at.
ScanReject(m) ==
    LET o == cst[m] IN
    /\ xpc[m] = "scan" /\ o <= totalorders /\ Open(o) /\ Shortage(o)
    /\ order_taken_status' = [order_taken_status EXCEPT ![1] = 1]
    /\ orderstatus' = [orderstatus EXCEPT ![1] = 1]
    /\ rejection_cust' = [rejection_cust EXCEPT ![Cust(o)] = 1]
    /\ rej_customers' = [rej_customers EXCEPT ![Cust(o)] = @ + 1]
    /\ cst' = [cst EXCEPT ![m] = o + 1]
    /\ UNCHANGED <<clock, people, machines, order_comp, customers, machine_lock, wakes,
                   wake_up_order_comp, wake_up_index_cust, order_completion_status, stock,
                   closing, xpc, flag, customer, history>>

\* The stock of each topping of the order after it has been taken.
Used(o) == [t \in DOMAIN topping_stock |->
              LET times == Cardinality({j \in DOMAIN input.orders[o].tops :
                                            input.orders[o].tops[j] = t})
              IN  IF topping_stock[t] = -1 THEN -1 ELSE Max({0, topping_stock[t] - times})]

ScanTake(m) ==
    LET o == cst[m]  late == IF JustArrived(o) THEN 1 ELSE 0 IN
    /\ xpc[m] = "scan" /\ o <= totalorders /\ Open(o) /\ ~Shortage(o) /\ InTime(m, o)
    /\ order_taken_status' = [order_taken_status EXCEPT ![o] = 1]
    /\ topping_stock' = Used(o)
    /\ finish_time_order' = [finish_time_order EXCEPT ![m] = tmr + input.orders[o].time + late]
    /\ special_flag' = [special_flag EXCEPT ![m] = IF late = 1 THEN 1 ELSE @]
    /\ flag' = [flag EXCEPT ![m] = o]
    /\ cst' = [cst EXCEPT ![m] = o + 1]
    /\ xpc' = [xpc EXCEPT ![m] = "unlock"]
    /\ UNCHANGED <<clock, people, machines, order_comp, customers, rej_customers,
                   machine_lock, wake_up_index, wake_up_order_comp, wake_up_index_cust,
                   rejection_cust, orderstatus, order_completion_status, ingredient_over,
                   closing, customer, history>>

\* The end of the scan: release the lock.  An order that arrived in this second is
\* started in the next one, an older one at once.
Unlock(m) ==
    /\ \/ xpc[m] = "unlock"
       \/ xpc[m] = "scan" /\ cst[m] > totalorders
    /\ machine_lock' = machine_lock + 1
    /\ \/ /\ flag[m] # -1 => JustArrived(flag[m])
          /\ xpc' = [xpc EXCEPT ![m] = "idle"]
          /\ UNCHANGED <<machines, wake_up_index>>
       \/ /\ flag[m] # -1 /\ ~JustArrived(flag[m])
          /\ xpc' = [xpc EXCEPT ![m] = "preparing"]
          /\ PassOn(m, machines)
    /\ UNCHANGED <<clock, people, order_comp, customers, rej_customers, finish_time_order,
                   special_flag, wake_up_order_comp, wake_up_index_cust, rejection_cust,
                   orders, order_completion_status, stock, closing, flag, cst, customer,
                   history>>

\* The ice cream is ready, or the parlor has closed.
Prepared(m) ==
    LET sem == [order_comp EXCEPT ![m] = @ - 1] IN
    /\ xpc[m] = "preparing" /\ order_comp[m] > 0
    /\ \/ /\ close_sig = 1
          /\ order_comp' = sem
          /\ xpc' = [xpc EXCEPT ![m] = "returned"]
          /\ UNCHANGED <<orderstatus, wake_up_order_comp, prepared>>
       \/ /\ close_sig = 0
          /\ orderstatus' = [orderstatus EXCEPT ![flag[m]] = 1]
          /\ prepared' = prepared \cup {flag[m]}
          /\ order_comp' = Post(sem, wake_up_order_comp[m])
          /\ wake_up_order_comp' = [wake_up_order_comp EXCEPT ![m] = -1]
          /\ xpc' = [xpc EXCEPT ![m] = "checking"]
    /\ UNCHANGED <<clock, people, machines, customers, rej_customers, machine_lock, wakes,
                   wake_up_index_cust, rejection_cust, order_taken_status,
                   order_completion_status, stock, closing, flag, cst, customer, occupied>>

order_status_checker(c) == \A o \in OrdersOf(c) : o <= totalorders => orderstatus[o] = 1

\* Tell the customer when all of the order is done.
Notify(m) ==
    LET c == Cust(flag[m]) IN
    /\ xpc[m] = "checking"
    /\ IF order_status_checker(c)
       THEN /\ rej_customers' = [rej_customers EXCEPT ![c] = @ + 1]
            /\ customers' = [customers EXCEPT ![c] = @ + 1]
       ELSE UNCHANGED <<rej_customers, customers>>
    /\ flag' = [flag EXCEPT ![m] = -1]
    /\ xpc' = [xpc EXCEPT ![m] = "idle"]
    /\ UNCHANGED <<clock, people, machines, order_comp, machine_lock, wakes,
                   wake_up_order_comp, wake_up_index_cust, rejection_cust, orders,
                   order_completion_status, stock, closing, cst, customer, history>>

-----------------------------------------------------------------------------
(* Customer threads: "outside", "entering", "seated", "waiting", "leaving",  *)
(* "going", "collect", "collected", "pleased", and how they end: "absent"    *)
(* (closed before the arrival), "turned" (parlor full), "refused" (shortage  *)
(* at the door), "unserved" (closed while waiting), "rejected" (shortage at  *)
(* a machine), "served".                                                     *)

\* Let the next customer in, or the machines when this was the last one.
LetNext(c, sem) ==
    /\ customers' = Post(sem, wake_up_index_cust[c])
    /\ machine_lock' = machine_lock + (IF wake_up_index_cust[c] = -1 THEN 1 ELSE 0)
    /\ wake_up_index_cust' = [wake_up_index_cust EXCEPT ![c] = -1]

\* ingreadient_checker(): for each order of the customer as many toppings are looked at
\* as it has, but they are the toppings of order_list[c].  Beyond the end of that order
\* it reads memory nobody has written, so any answer is possible.
ingreadient_checker(c) ==
    LET looked == UNION {DOMAIN input.orders[o].tops : o \in OrdersOf(c)}
        wrong == IF c + 1 \in Order THEN input.orders[c + 1].tops ELSE << >>
    IN  IF \E j \in looked \cap DOMAIN wrong : topping_stock[wrong[j]] = 0 THEN {FALSE}
        ELSE IF looked \subseteq DOMAIN wrong THEN {TRUE}
        ELSE BOOLEAN

Arrive(c) ==
    LET sem == [customers EXCEPT ![c] = @ - 1] IN
    /\ cpc[c] = "outside" /\ customers[c] > 0
    /\ \/ /\ close_sig = 1
          /\ cpc' = [cpc EXCEPT ![c] = "absent"]
          /\ customers' = sem
          /\ UNCHANGED <<totalorders, returned_count, order_completion_status, machine_lock,
                         wake_up_index_cust, occupied>>
       \/ /\ close_sig = 0 /\ current_customers = input.k
          /\ totalorders' = totalorders + Cardinality(OrdersOf(c))
          /\ returned_count' = returned_count + 1
          /\ order_completion_status' = [order_completion_status EXCEPT ![c] = 1]
          /\ cpc' = [cpc EXCEPT ![c] = "turned"]
          /\ LetNext(c, sem) /\ UNCHANGED occupied
       \/ /\ close_sig = 0 /\ current_customers # input.k /\ FALSE \in ingreadient_checker(c)
          /\ totalorders' = totalorders + Cardinality(OrdersOf(c))
          /\ order_completion_status' = [order_completion_status EXCEPT ![c] = 1]
          /\ cpc' = [cpc EXCEPT ![c] = "refused"]
          /\ LetNext(c, sem) /\ UNCHANGED <<occupied, returned_count>>
       \/ /\ close_sig = 0 /\ current_customers # input.k /\ TRUE \in ingreadient_checker(c)
          /\ totalorders' = totalorders + Cardinality(OrdersOf(c))
          /\ customers' = sem /\ occupied' = occupied + 1
          /\ cpc' = [cpc EXCEPT ![c] = "entering"]
          /\ UNCHANGED <<machine_lock, wake_up_index_cust, returned_count,
                         order_completion_status>>
    /\ UNCHANGED <<clock, current_customers, machines, order_comp, rej_customers, wakes,
                   wake_up_order_comp, rejection_cust, orders, stock, closing, machine,
                   inside, prepared>>

\* current_customers++ and current_customers-- read here and write in the next step.
Count(c, from, to) ==
    /\ cpc[c] = from
    /\ inside' = [inside EXCEPT ![c] = current_customers]
    /\ cpc' = [cpc EXCEPT ![c] = to]
    /\ UNCHANGED <<clock, people, machines, order_comp, customers, rej_customers,
                   machine_lock, wakes, wake_up_order_comp, wake_up_index_cust,
                   rejection_cust, orders, order_completion_status, stock, closing, machine,
                   history>>

CountIn(c) == Count(c, "entering", "seated")
CountOut(c) == Count(c, "leaving", "going") \/ Count(c, "collected", "pleased")

SitDown(c) ==
    /\ cpc[c] = "seated"
    /\ current_customers' = inside[c] + 1
    /\ LetNext(c, customers)
    /\ inside' = [inside EXCEPT ![c] = 0]
    /\ cpc' = [cpc EXCEPT ![c] = "waiting"]
    /\ UNCHANGED <<clock, totalorders, returned_count, machines, order_comp, rej_customers,
                   wakes, wake_up_order_comp, rejection_cust, orders,
                   order_completion_status, stock, closing, machine, history>>

\* Woken while waiting for the order: it is ready, rejected, or the parlor has closed.
Called(c) ==
    /\ cpc[c] = "waiting" /\ rej_customers[c] > 0
    /\ rej_customers' = [rej_customers EXCEPT ![c] = @ - 1]
    /\ cpc' = [cpc EXCEPT ![c] = IF close_sig = 1 THEN "unserved"
                                 ELSE IF rejection_cust[c] = 1 THEN "leaving" ELSE "collect"]
    /\ order_completion_status' = [order_completion_status EXCEPT
            ![c] = IF close_sig = 0 /\ rejection_cust[c] = 1 THEN 1 ELSE @]
    /\ UNCHANGED <<clock, people, machines, order_comp, customers, machine_lock, wakes,
                   wake_up_order_comp, wake_up_index_cust, rejection_cust, orders, stock,
                   closing, machine, inside, history>>

Collect(c) ==
    /\ cpc[c] = "collect" /\ customers[c] > 0
    /\ customers' = [customers EXCEPT ![c] = @ - 1]
    /\ order_completion_status' = [order_completion_status EXCEPT ![c] = 1]
    /\ cpc' = [cpc EXCEPT ![c] = "collected"]
    /\ UNCHANGED <<clock, people, machines, order_comp, rej_customers, machine_lock, wakes,
                   wake_up_order_comp, wake_up_index_cust, rejection_cust, orders, stock,
                   closing, machine, inside, history>>

Leave(c) ==
    /\ cpc[c] \in {"going", "pleased"}
    /\ current_customers' = inside[c] - 1
    /\ inside' = [inside EXCEPT ![c] = 0]
    /\ cpc' = [cpc EXCEPT ![c] = IF cpc[c] = "pleased" THEN "served" ELSE "rejected"]
    /\ UNCHANGED <<clock, totalorders, returned_count, machines, order_comp, customers,
                   rej_customers, machine_lock, wakes, wake_up_order_comp,
                   wake_up_index_cust, rejection_cust, orders, order_completion_status,
                   stock, closing, machine, history>>

-----------------------------------------------------------------------------
MachineStep(m) ==
    \/ Start(m) \/ Woken(m) \/ Lock(m) \/ ScanPast(m) \/ ScanReject(m) \/ ScanTake(m)
    \/ Unlock(m) \/ Prepared(m) \/ Notify(m)
CustomerStep(c) ==
    \/ Arrive(c) \/ CountIn(c) \/ SitDown(c) \/ Called(c) \/ Collect(c) \/ CountOut(c)
    \/ Leave(c)
MainStep == Enter \/ Wake \/ Tick \/ Close \/ Join

Closed == mpc = "closed" /\ UNCHANGED vars

Next ==
    \/ MainStep \/ Closed
    \/ \E m \in Machine : MachineStep(m)
    \/ \E c \in Customer : CustomerStep(c)

\* The operating system runs every thread that can run; a waiter of a semaphore that is
\* posted is woken.
Threads == UNION {DOMAIN i.start : i \in Inputs}
People == UNION {DOMAIN i.arrival : i \in Inputs}
Spec ==
    /\ Init /\ [][Next]_vars
    /\ WF_vars(MainStep)
    /\ \A m \in Threads : WF_vars(m \in Machine /\ MachineStep(m))
    /\ \A c \in People : WF_vars(c \in Customer /\ CustomerStep(c))

-----------------------------------------------------------------------------
(* Properties *)

TypeOK ==
    /\ input.k \in Nat /\ tmr \in 0 .. Last + 1
    /\ totalorders \in 0 .. Len(input.orders) /\ current_customers \in Int
    /\ returned_count \in 0 .. Cardinality(Customer)
    /\ machines \in [Machine -> Nat] /\ order_comp \in [Machine -> Nat]
    /\ customers \in [Customer -> Nat] /\ rej_customers \in [Customer -> Nat]
    /\ machine_lock \in {0, 1}
    /\ finish_time_order \in [Machine -> -1 .. Last] /\ special_flag \in [Machine -> {0, 1}]
    /\ wake_up_index \in [Machine -> Machine \cup {-1}]
    /\ wake_up_order_comp \in [Machine -> Machine \cup {-1}]
    /\ wake_up_index_cust \in [Customer -> Customer \cup {-1}]
    /\ rejection_cust \in [Customer -> {0, 1}]
    /\ order_taken_status \in [Order -> {0, 1}] /\ orderstatus \in [Order -> {0, 1}]
    /\ order_completion_status \in [Customer -> {0, 1}]
    /\ DOMAIN topping_stock = DOMAIN input.stock
    /\ ingredient_over \in {0, 1} /\ close_sig \in {0, 1} /\ some_ing_exh \in {0, 1}
    /\ mpc \in {"enter", "wake", "sleep", "join", "closed"}
    /\ xpc \in [Machine -> {"off", "idle", "locking", "scan", "unlock", "preparing",
                            "checking", "returned"}]
    /\ flag \in [Machine -> Order \cup {-1}] /\ cst \in [Machine -> 1 .. Len(input.orders) + 1]
    /\ cpc \in [Customer -> {"outside", "entering", "seated", "waiting", "leaving", "going",
                             "collect", "collected", "pleased", "absent", "turned", "refused",
                             "unserved", "rejected", "served"}]
    /\ inside \in [Customer -> Int] /\ prepared \subseteq Order /\ occupied \in Nat

\* The stock a topping has lost is exactly what the ice creams that machines have taken
\* need of it: no machine takes the last portion another one has counted on.
Takers(t) == {o \in Order : t \in Toppings(o)
                             /\ (o \in prepared \/ \E m \in Machine : flag[m] = o)}
StockAccounted ==
    \A t \in DOMAIN topping_stock :
        input.stock[t] # -1 => topping_stock[t] = input.stock[t] - Cardinality(Takers(t))

\* An ice cream is made by one machine only, even though the machines scan the list
\* independently: machine_lock, on which this rests, never has two tokens.
OneMachinePerOrder ==
    /\ TypeOK
    /\ \A m, o \in Machine : m # o /\ flag[m] # -1 => flag[m] # flag[o]
    /\ \A m \in Machine : flag[m] \in prepared => xpc[m] = "checking"



\* README: the machine "notifies Customer thread when order is fully prepared": somebody
\* who collects the order gets all of its ice creams.
CollectedIsPrepared ==
    \A c \in Customer : cpc[c] \in {"collected", "pleased", "served"} =>
                            OrdersOf(c) \subseteq prepared

\* README: "semaphors are used to give atomicity to critical sections of code": once a
\* second has passed, current_customers is the number of customers in the parlor.
CustomersCounted ==
    mpc = "enter" => current_customers = Cardinality(Present)

\* README: "If a customer leaves then it's place will be empty from next second only": the
\* customers inside at the start of a second and those let in since are at most k.
PlaceEmptyNextSecond == occupied <= input.k

\* README: "If a Machine starts a t sec and find out that some order is waiting from before
\* time then it will start preparing that ice cream immediately": at the end of the second
\* in which a machine starts it has no such order left to take.
StartsAtOnce ==
    mpc = "sleep" /\ Quiet /\ ingredient_over = 0 =>
        \A m \in Machine : input.start[m] = tmr /\ flag[m] = -1 =>
            ~\E o \in 1 .. totalorders : /\ input.arrival[Cust(o)] < tmr
                                         /\ Open(o) /\ ~Shortage(o) /\ InTime(m, o)
=============================================================================
