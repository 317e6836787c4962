------------------------------ MODULE MCParlor ------------------------------
(* Small openings of the parlor of concurrency/2.c for TLC. *)
EXTENDS Parlor

Ice(c, d, tops) == [cust |-> c, time |-> d, tops |-> tops]

Opening(k, hours, arrival, portions, orderlist) ==
    [k |-> k, start |-> [m \in 0 .. Len(hours) - 1 |-> hours[m + 1][1]],
     end |-> [m \in 0 .. Len(hours) - 1 |-> hours[m + 1][2]],
     arrival |-> arrival, stock |-> portions, orders |-> orderlist]

\* Two machines, of which the second starts later, three customers, a topping of which
\* there may be too little, and another one, of which there is enough or any amount.
\* Who arrives at 6 finds the parlor closed.
Days ==
    {Opening(k, << <<0, e>>, <<s, 5>> >>, <<0, a, b>>, <<n, u>>,
             << Ice(1, d, <<1>>), Ice(1, 1, <<2>>), Ice(2, 1, <<2, 1>>), Ice(3, 1, <<t>>) >>) :
        k \in {1, 2, 3}, e \in {2, 3}, s \in {0, 1}, a \in {0, 1}, b \in {1, 2, 3, 6},
        n \in {1, 2},
        u \in {-1, 3}, d \in {1, 2, 4}, t \in {1, 2}}

\* Fewer of these days, for the run that also checks liveness.
QuietDays == {i \in Days : i.k = 2}

\* The first ice cream takes longer than either machine works; the last one lacks its
\* topping.
LongFirstOrder ==
    {Opening(3, << <<0, 4>>, <<1, 5>> >>, <<0, 0, 1>>, <<1, 5>>,
             << Ice(1, 5, <<2>>), Ice(1, 3, <<2>>), Ice(2, 1, <<1>>), Ice(3, 1, <<1>>) >>)}

\* The days on which statements about the parlor are refuted.
OddDays == Days \cup LongFirstOrder

\* Three machines, and one customer who orders an ice cream from each.
ThreeMachines ==
    {Opening(1, << <<0, 3>>, <<0, 3>>, <<0, 3>> >>, <<0>>, <<-1>>,
             << Ice(1, 2, <<1>>), Ice(1, 2, <<1>>), Ice(1, 2, <<1>>) >>)}
=============================================================================
