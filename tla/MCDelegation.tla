---------------------------- MODULE MCDelegation ----------------------------
(***************************************************************************)
(* Instances of the delegation capture for TLC.                            *)
(***************************************************************************)
EXTENDS DelegationVerdict

CONSTANTS A, B, C

ABC == <<A, B, C>>
AB  == <<A, B>>

Plain == [refuse |-> {}, retry |-> {}, drop |-> {}, missing |-> {}]

Fanout(order, with) ==
  [roots |-> order, kid |-> [t \in Target |-> NoTarget], refuse |-> with.refuse,
   retry |-> with.retry, drop |-> with.drop, missing |-> with.missing]

Chain(order, with) ==
  [roots |-> <<order[1]>>,
   kid |-> [t \in Target |->
     IF \E i \in 1..(Len(order) - 1) : order[i] = t
     THEN order[1 + CHOOSE i \in 1..(Len(order) - 1) : order[i] = t]
     ELSE NoTarget],
   refuse |-> with.refuse, retry |-> with.retry, drop |-> with.drop,
   missing |-> with.missing]

\* SCENARIOS of capture.py.
SixCaptures ==
  {Fanout(ABC, Plain),
   Fanout(ABC, [Plain EXCEPT !.missing = {<<Controller, C>>}]),
   Chain(ABC, Plain),
   Chain(ABC, [Plain EXCEPT !.refuse = {B}]),
   Chain(ABC, [Plain EXCEPT !.missing = {<<B, C>>}]),
   Chain(ABC, [Plain EXCEPT !.retry = {B}, !.drop = {C}])}

\* A retry on one link, with and without a lost response, and one link whose
\* receiver refuses.
OneLinkCaptures ==
  {Chain(AB, [Plain EXCEPT !.retry = {A}]),
   Chain(AB, [Plain EXCEPT !.retry = {A}, !.drop = {B}]),
   Chain(AB, [Plain EXCEPT !.refuse = {B}])}

\* Two targets under every injection a worker's request file can carry, where
\* each has someone to act on.
Injections(retrying, links) ==
  [refuse: SUBSET {A, B}, retry: SUBSET retrying, drop: SUBSET {A, B}, missing: SUBSET links]

HonestCaptures ==
  SixCaptures
  \cup {Fanout(AB, w) : w \in Injections({}, {<<Controller, B>>})}
  \cup {Chain(AB, w) : w \in Injections({A}, {<<A, B>>})}
=============================================================================
