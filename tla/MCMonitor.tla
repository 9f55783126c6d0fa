----------------------------- MODULE MCMonitor -----------------------------
(***************************************************************************)
(* Guests for Monitor: every opcode alone, a loop that calls through two   *)
(* modules, a procedure that calls itself, a CASE in a loop, and a program *)
(* inside a program.                                                       *)
(***************************************************************************)
EXTENDS Monitor

I(op) == [op |-> op, to |-> {}]
To(op, m, ks) == [op |-> op, to |-> {<<m, k>> : k \in ks}]

\* The address of the k-th instruction of a list.
Address(list, k) ==
  FoldLeft(LAMBDA n, i : n + 1 + Fetched(i.op), 0, SubSeq(list, 1, k - 1))

\* A guest from the instructions of its modules, which name one another by number.
Guest(mods) ==
  LET at(m, k) == <<m, Address(mods[m], k)>>
      item(m, k) == [op |-> mods[m][k].op, to |-> {at(t[1], t[2]) : t \in mods[m][k].to}]
      index(p) == CHOOSE k \in DOMAIN mods[p[1]] : at(p[1], k) = p
      places == UNION {{at(m, k) : k \in DOMAIN mods[m]} : m \in DOMAIN mods}
  IN [boot |-> <<1, 0>>, code |-> [p \in places |-> item(p[1], index(p))]]

NOP == \o336

Alone == {Guest(<< <<I(op), I(NOP), I(RTN)>> >>) : op \in Opcode \ (Jumps \union {EXC, RTN})}
Called == {Guest(<< <<To(op, 1, {3}), I(RTN), I(NOP), I(RTN)>> >>) : op \in Calls}

\* 1: LI1; CLX 2.1; JPBC; RTN   2: LGW; CLL; NOP; RTN;  NOP; RTN
Loop == Guest(<< <<I(1), To(\o355, 2, {1}), To(\o34, 1, {1, 4}), I(RTN)>>,
                 <<I(\o100), To(\o360, 2, {5}), I(NOP), I(RTN), I(NOP), I(RTN)>> >>)

\* CLL; RTN;  JPC; CLL1; NOP; RTN
Recursive == Guest(<< <<To(\o360, 1, {3}), I(RTN), To(\o30, 1, {4, 6}), To(\o361, 1, {3}),
                        I(NOP), I(RTN)>> >>)

\* FOR1; ENTC; LI1; EXC; LI2; EXC; FOR2; RTN
Cases == Guest(<< <<To(\o300, 1, {2, 8}), To(\o302, 1, {3, 5}), I(1), To(EXC, 1, {7}), I(2),
                    To(EXC, 1, {7}), To(\o301, 1, {2, 8}), I(RTN)>> >>)

\* 1: NOP; SVC 1; NOP; JPB   2: NOP; CLX 1.1; RTN
Nested == Guest(<< <<I(NOP), To(\o246, 2, {1}), I(NOP), To(\o35, 1, {1}), I(NOP), I(RTN)>>,
                   <<I(NOP), To(\o355, 1, {5}), I(RTN)>> >>)

MCGuests == Alone \union Called \union {Loop, Recursive, Cases, Nested}
=============================================================================
