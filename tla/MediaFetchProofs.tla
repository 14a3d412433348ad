------------------------- MODULE MediaFetchProofs -------------------------
(***************************************************************************)
(* The media fetcher, for any number of requests: one fetches a key for    *)
(* all, and everyone gets the response to the request it made.             *)
(***************************************************************************)
EXTENDS MediaRoute, TLAPS

Urls == {r.url : r \in Request}
Ranges == {r.range : r \in Request}
RangeKeys == Urls \X Ranges
FetchT == [pc : FetchLabels, url : Urls, range : Ranges,
           got : RangeKeys \cup {Failed, TooBig}]
FetchTypes == fetch \in [Player -> FetchT]

\* The members of singleflight's call for a key are its leader and those who
\* wait for it, and a response is buffered under its own key.
Leading == {"again", "upstream", "keep", "settle"}
Leads(p) == fetch[p].pc \in Leading
Joined(p) == Leads(p) \/ fetch[p].pc = "wait"
FlightOk ==
    \A k \in DOMAIN flight :
        /\ \A q \in flight[k] : q \in Player /\ Joined(q) /\ Key(q) = k
        /\ \E q \in flight[k] : Leads(q)
JoinedOk == \A p \in Player : Joined(p) => Key(p) \in DOMAIN flight /\ p \in flight[Key(p)]
OneLeader == \A p, q \in Player : Leads(p) /\ Leads(q) /\ Key(p) = Key(q) => p = q
BufOk == \A k \in DOMAIN buf : k \in RangeKeys /\ buf[k] = k

\* What a request has got at each of its steps.
GotOk(p) ==
    /\ fetch[p].pc = "upstream" => Key(p) \notin DOMAIN buf
    /\ fetch[p].pc = "keep" => fetch[p].got = Key(p)
    /\ fetch[p].pc = "settle" => fetch[p].got \in {Key(p), TooBig, Failed}
    /\ fetch[p].pc = "done" => fetch[p].got \in {Key(p), Failed}
GotsOk == \A p \in Player : GotOk(p)

FetchInv == FetchTypes /\ FlightOk /\ JoinedOk /\ OneLeader /\ BufOk /\ GotsOk
---------------------------------------------------------------------------
LEMMA KeyTyped ==
    ASSUME FetchInv, NEW p \in Player
    PROVE  /\ fetch[p] \in FetchT /\ fetch[p].url \in Urls /\ fetch[p].range \in Ranges
           /\ Key(p) = <<fetch[p].url, fetch[p].range>> /\ Key(p) \in RangeKeys
<1>1. fetch[p] \in FetchT
  BY DEF FetchInv, FetchTypes
<1> QED
  BY <1>1 DEF FetchT, Key, coalescingRangeKey, RangeKeys

\* One request takes a step; its request stays what it is.
Others(p) == \A q \in Player \ {p} : fetch'[q] = fetch[q]
Turns(p, label, x) ==
    /\ FetchTypes' /\ Others(p)
    /\ fetch'[p].pc = label /\ fetch'[p].got = x
    /\ fetch'[p].url = fetch[p].url /\ fetch'[p].range = fetch[p].range

LEMMA GotTurns ==
    ASSUME FetchInv, NEW p \in Player, NEW label \in FetchLabels,
           NEW x \in RangeKeys \cup {Failed, TooBig}, Got(p, label, x)
    PROVE  Turns(p, label, x)
<1> DEFINE f == [fetch[p] EXCEPT !.pc = label, !.got = x]
<1>1. fetch \in [Player -> FetchT]
      /\ fetch' = [fetch EXCEPT ![p].pc = label, ![p].got = x]
  BY DEF FetchInv, FetchTypes, Got
<1>2. fetch[p] \in FetchT
  BY <1>1
<1>3. f \in FetchT /\ f.pc = label /\ f.got = x /\ f.url = fetch[p].url
      /\ f.range = fetch[p].range
  BY <1>2 DEF FetchT
<1>4. fetch'[p] = f /\ DOMAIN fetch' = Player /\ fetch' = [q \in Player |-> fetch'[q]]
      /\ \A q \in Player \ {p} : fetch'[q] = fetch[q]
  BY <1>1, <1>2
<1> HIDE DEF f
<1>5. fetch' \in [Player -> FetchT]
  BY <1>1, <1>3, <1>4
<1> QED
  BY <1>3, <1>4, <1>5 DEF Turns, Others, FetchTypes

LEMMA GotoTurns ==
    ASSUME FetchInv, NEW p \in Player, NEW label \in FetchLabels, FetchGoto(p, label)
    PROVE  Turns(p, label, fetch[p].got)
<1>1. fetch \in [Player -> FetchT] /\ fetch' = [fetch EXCEPT ![p].pc = label]
  BY DEF FetchInv, FetchTypes, FetchGoto
<1>2. fetch[p] \in FetchT
  BY <1>1
<1>3. [fetch[p] EXCEPT !.pc = label] \in FetchT
  BY <1>2 DEF FetchT
<1>4. fetch' \in [Player -> FetchT] /\ fetch'[p] = [fetch[p] EXCEPT !.pc = label]
      /\ \A q \in Player \ {p} : fetch'[q] = fetch[q]
  BY <1>1, <1>3
<1> QED
  BY <1>2, <1>4 DEF Turns, Others, FetchTypes, FetchT

LEMMA KeysStay ==
    ASSUME NEW p \in Player, NEW label, NEW x, Turns(p, label, x)
    PROVE  \A q \in Player : Key(q)' = Key(q)
BY DEF Turns, Others, Key, coalescingRangeKey

\* A step of a request that is in no call of singleflight, before and after.
LEMMA OutsideKeeps ==
    ASSUME FetchInv, NEW p \in Player, ~Joined(p), FetchTypes', Others(p), ~Joined(p)',
           UNCHANGED <<flight, buf>>, GotOk(p)'
    PROVE  FetchInv'
<1>1. \A q \in Player \ {p} : Key(q)' = Key(q) /\ Joined(q)' = Joined(q) /\ Leads(q)' = Leads(q)
  BY DEF Others, Key, coalescingRangeKey, Joined, Leads
<1>2. \A k \in DOMAIN flight : p \notin flight[k]
  BY DEF FetchInv, FlightOk
<1>3. FlightOk'
  BY <1>1, <1>2 DEF FetchInv, FlightOk
<1>4. JoinedOk'
  BY <1>1 DEF FetchInv, JoinedOk
<1>5. OneLeader'
  BY <1>1 DEF FetchInv, OneLeader, Joined
<1>6. BufOk'
  BY DEF FetchInv, BufOk
<1>7. GotsOk'
  <2> SUFFICES ASSUME NEW q \in Player, q # p PROVE GotOk(q)'
    BY DEF GotsOk
  <2> QED
    BY <1>1 DEF FetchInv, GotsOk, GotOk, Others
<1> QED
  BY <1>3, <1>4, <1>5, <1>6, <1>7 DEF FetchInv

\* A step of a leader that stays one.
LEMMA LeaderKeeps ==
    ASSUME FetchInv, NEW p \in Player, Leads(p), NEW label \in Leading, NEW x,
           Turns(p, label, x), UNCHANGED flight, BufOk', GotOk(p)',
           \A q \in Player \ {p} : fetch[q].pc = "upstream" => Key(q) \notin DOMAIN buf'
    PROVE  FetchInv'
<1>1. \A q \in Player : Key(q)' = Key(q)
  BY KeysStay
<1>2. \A q \in Player : Joined(q)' = Joined(q) /\ Leads(q)' = Leads(q)
  BY DEF Turns, Others, Joined, Leads
<1>3. FlightOk'
  BY <1>1, <1>2 DEF FetchInv, FlightOk
<1>4. JoinedOk' /\ OneLeader'
  BY <1>1, <1>2 DEF FetchInv, JoinedOk, OneLeader
<1>5. GotsOk'
  <2> SUFFICES ASSUME NEW q \in Player, q # p PROVE GotOk(q)'
    BY DEF GotsOk
  <2> QED
    BY <1>1 DEF FetchInv, GotsOk, GotOk, Turns, Others
<1> QED
  BY <1>3, <1>4, <1>5 DEF FetchInv, Turns
---------------------------------------------------------------------------
(***************************************************************************)
(* The steps of a fetch.                                                   *)
(***************************************************************************)
LEMMA CachedBufferedKeeps ==
    ASSUME FetchInv, NEW p \in Player, cachedBuffered(p)
    PROVE  FetchInv' /\ \E label \in {"done", "do"} : \E x : Turns(p, label, x)
<1>1. fetch[p].pc = "lookup" /\ ~Joined(p) /\ UNCHANGED <<buf, flight>>
  BY DEF cachedBuffered, FetchAt, Joined, Leads, Leading
<1>2. CASE Key(p) \in DOMAIN buf
  <2>1. buf[Key(p)] = Key(p) /\ Key(p) \in RangeKeys
    BY <1>2 DEF FetchInv, BufOk
  <2>2. Turns(p, "done", Key(p))
    BY <1>2, <2>1, GotTurns DEF cachedBuffered, FetchLabels
  <2>3. ~Joined(p)' /\ GotOk(p)'
    BY <2>2, KeysStay DEF Turns, Joined, Leads, Leading, GotOk
  <2> QED
    BY <1>1, <2>2, <2>3, OutsideKeeps DEF Turns
<1>3. CASE Key(p) \notin DOMAIN buf
  <2>1. Turns(p, "do", fetch[p].got)
    BY <1>3, GotoTurns DEF cachedBuffered, FetchLabels
  <2>2. ~Joined(p)' /\ GotOk(p)'
    BY <2>1 DEF Turns, Joined, Leads, Leading, GotOk
  <2> QED
    BY <1>1, <2>1, <2>2, OutsideKeeps DEF Turns
<1> QED
  BY <1>2, <1>3

LEMMA UpstreamDirectKeeps ==
    ASSUME FetchInv, NEW p \in Player, NEW ok, UpstreamDirect(p, ok)
    PROVE  FetchInv' /\ \E x : Turns(p, "done", x)
<1>1. fetch[p].pc = "direct" /\ ~Joined(p) /\ UNCHANGED <<buf, flight>>
  BY DEF UpstreamDirect, FetchAt, Joined, Leads, Leading
<1>2. PICK x \in {Key(p), Failed} : Got(p, "done", x)
  BY KeyTyped DEF UpstreamDirect
<1>3. Turns(p, "done", x)
  BY <1>2, KeyTyped, GotTurns DEF FetchLabels
<1>4. ~Joined(p)' /\ GotOk(p)'
  BY <1>3, KeysStay DEF Turns, Joined, Leads, Leading, GotOk
<1> QED
  BY <1>1, <1>3, <1>4, OutsideKeeps DEF Turns

LEMMA CachedAgainKeeps ==
    ASSUME FetchInv, NEW p \in Player, cachedAgain(p)
    PROVE  FetchInv' /\ \E label \in Leading : \E x : Turns(p, label, x)
<1>1. fetch[p].pc = "again" /\ Leads(p) /\ UNCHANGED <<buf, flight>>
  BY DEF cachedAgain, FetchAt, Leads, Leading
<1>2. BufOk' /\ \A q \in Player \ {p} : fetch[q].pc = "upstream" => Key(q) \notin DOMAIN buf'
  BY <1>1 DEF FetchInv, BufOk, GotsOk, GotOk
<1>3. CASE Key(p) \in DOMAIN buf
  <2>1. buf[Key(p)] = Key(p) /\ Key(p) \in RangeKeys
    BY <1>3 DEF FetchInv, BufOk
  <2>2. Turns(p, "settle", Key(p))
    BY <1>3, <2>1, GotTurns DEF cachedAgain, FetchLabels
  <2>3. GotOk(p)'
    BY <2>2, KeysStay DEF Turns, GotOk
  <2> QED
    BY <1>1, <1>2, <2>2, <2>3, LeaderKeeps DEF Leading
<1>4. CASE Key(p) \notin DOMAIN buf
  <2>1. Turns(p, "upstream", fetch[p].got)
    BY <1>4, GotoTurns DEF cachedAgain, FetchLabels
  <2>2. GotOk(p)'
    BY <1>1, <1>4, <2>1, KeysStay DEF Turns, GotOk
  <2> QED
    BY <1>1, <1>2, <2>1, <2>2, LeaderKeeps DEF Leading
<1> QED
  BY <1>3, <1>4

LEMMA UpstreamBufferedKeeps ==
    ASSUME FetchInv, NEW p \in Player, NEW ok, UpstreamBuffered(p, ok)
    PROVE  FetchInv' /\ \E label \in Leading : \E x : Turns(p, label, x)
<1>1. fetch[p].pc = "upstream" /\ Leads(p) /\ UNCHANGED <<buf, flight>>
  BY DEF UpstreamBuffered, FetchAt, Leads, Leading
<1>2. BufOk' /\ \A q \in Player \ {p} : fetch[q].pc = "upstream" => Key(q) \notin DOMAIN buf'
  BY <1>1 DEF FetchInv, BufOk, GotsOk, GotOk
<1>3. CASE Got(p, "keep", Key(p))
  <2>1. Turns(p, "keep", Key(p))
    BY <1>3, KeyTyped, GotTurns DEF FetchLabels
  <2>2. GotOk(p)'
    BY <2>1, KeysStay DEF Turns, GotOk
  <2> QED
    BY <1>1, <1>2, <2>1, <2>2, LeaderKeeps DEF Leading
<1>4. ASSUME NEW x \in {TooBig, Failed}, Got(p, "settle", x) PROVE FetchInv' /\ Turns(p, "settle", x)
  <2>1. Turns(p, "settle", x)
    BY <1>4, GotTurns DEF FetchLabels
  <2>2. GotOk(p)'
    BY <2>1, KeysStay DEF Turns, GotOk
  <2> QED
    BY <1>1, <1>2, <2>1, <2>2, LeaderKeeps DEF Leading
<1>5. \/ Got(p, "keep", Key(p)) \/ Got(p, "settle", TooBig) \/ Got(p, "settle", Failed)
  BY KeyTyped DEF UpstreamBuffered
<1>6. CASE Got(p, "keep", Key(p))
  BY <1>3, <1>6, KeyTyped, GotTurns DEF FetchLabels, Leading
<1>7. CASE Got(p, "settle", TooBig) \/ Got(p, "settle", Failed)
  BY <1>4, <1>7 DEF Leading
<1> QED
  BY <1>5, <1>6, <1>7

LEMMA KeepBufferedKeeps ==
    ASSUME FetchInv, NEW p \in Player, KeepBuffered(p)
    PROVE  FetchInv' /\ \E label \in Leading : \E x : Turns(p, label, x)
<1>1. fetch[p].pc = "keep" /\ Leads(p) /\ UNCHANGED flight /\ fetch[p].got = Key(p)
      /\ Key(p) \in RangeKeys
  BY KeyTyped DEF KeepBuffered, FetchAt, Leads, Leading, FetchInv, GotsOk, GotOk
<1>2. DOMAIN buf' = DOMAIN buf \cup {Key(p)} /\ buf'[Key(p)] = Key(p)
      /\ \A k \in DOMAIN buf \ {Key(p)} : buf'[k] = buf[k]
  BY <1>1 DEF KeepBuffered, Put
<1>3. BufOk'
  BY <1>1, <1>2 DEF FetchInv, BufOk
<1>4. ASSUME NEW q \in Player \ {p}, fetch[q].pc = "upstream" PROVE Key(q) \notin DOMAIN buf'
  <2>1. Key(q) \notin DOMAIN buf
    BY <1>4 DEF FetchInv, GotsOk, GotOk
  <2>2. Key(q) # Key(p)
    BY <1>1, <1>4 DEF FetchInv, OneLeader, Leads, Leading
  <2> QED
    BY <1>2, <2>1, <2>2
<1>5. Turns(p, "settle", fetch[p].got)
  BY GotoTurns DEF KeepBuffered, FetchLabels
<1>6. GotOk(p)'
  BY <1>1, <1>5, KeysStay DEF Turns, GotOk
<1> QED
  BY <1>1, <1>3, <1>4, <1>5, <1>6, LeaderKeeps DEF Leading

LEMMA GroupDoKeeps ==
    ASSUME FetchInv, NEW p \in Player, groupDo(p)
    PROVE  FetchInv' /\ \E label \in {"wait", "again"} : \E x : Turns(p, label, x)
<1> DEFINE k == Key(p)
<1>1. fetch[p].pc = "do" /\ ~Joined(p) /\ UNCHANGED buf
  BY DEF groupDo, FetchAt, Joined, Leads, Leading
<1>2. \A x \in DOMAIN flight : p \notin flight[x]
  BY <1>1 DEF FetchInv, FlightOk
<1>3. ASSUME NEW label \in {"wait", "again"}, Turns(p, label, fetch[p].got)
      PROVE  /\ \A q \in Player : Key(q)' = Key(q)
             /\ \A q \in Player \ {p} : Joined(q)' = Joined(q) /\ Leads(q)' = Leads(q)
             /\ Joined(p)' /\ BufOk' /\ GotsOk'
  <2>1. \A q \in Player : Key(q)' = Key(q)
    BY <1>3, KeysStay
  <2>2. \A q \in Player \ {p} : Joined(q)' = Joined(q) /\ Leads(q)' = Leads(q)
    BY <1>3 DEF Turns, Others, Joined, Leads
  <2>3. Joined(p)' /\ BufOk'
    BY <1>1, <1>3 DEF Turns, Joined, Leads, Leading, FetchInv, BufOk
  <2>4. GotsOk'
    BY <1>1, <1>3, <2>1 DEF FetchInv, GotsOk, GotOk, Turns, Others
  <2> QED
    BY <2>1, <2>2, <2>3, <2>4
<1>4. CASE k \in DOMAIN flight
  <2>1. Turns(p, "wait", fetch[p].got) /\ flight' = [flight EXCEPT ![k] = @ \cup {p}]
    BY <1>4, GotoTurns DEF groupDo, FetchLabels
  <2>2. /\ \A q \in Player : Key(q)' = Key(q)
        /\ \A q \in Player \ {p} : Joined(q)' = Joined(q) /\ Leads(q)' = Leads(q)
        /\ Joined(p)' /\ BufOk' /\ GotsOk'
    BY <1>3, <2>1
  <2>3. DOMAIN flight' = DOMAIN flight /\ flight'[k] = flight[k] \cup {p}
        /\ \A x \in DOMAIN flight \ {k} : flight'[x] = flight[x]
    BY <1>4, <2>1
  <2>4. ~Leads(p)'
    BY <2>1 DEF Turns, Leads, Leading
  <2>5. FlightOk'
    BY <1>2, <1>4, <2>2, <2>3 DEF FetchInv, FlightOk
  <2>6. JoinedOk'
    BY <1>4, <2>2, <2>3 DEF FetchInv, JoinedOk
  <2>7. OneLeader'
    BY <2>2, <2>4 DEF FetchInv, OneLeader
  <2> QED
    BY <2>1, <2>2, <2>5, <2>6, <2>7 DEF FetchInv, Turns
<1>5. CASE k \notin DOMAIN flight
  <2>1. Turns(p, "again", fetch[p].got) /\ flight' = Put(flight, k, {p})
    BY <1>5, GotoTurns DEF groupDo, FetchLabels
  <2>2. /\ \A q \in Player : Key(q)' = Key(q)
        /\ \A q \in Player \ {p} : Joined(q)' = Joined(q) /\ Leads(q)' = Leads(q)
        /\ Joined(p)' /\ BufOk' /\ GotsOk'
    BY <1>3, <2>1
  <2>3. DOMAIN flight' = DOMAIN flight \cup {k} /\ flight'[k] = {p}
        /\ \A x \in DOMAIN flight : flight'[x] = flight[x]
    BY <1>5, <2>1 DEF Put
  <2>4. Leads(p)'
    BY <2>1 DEF Turns, Leads, Leading
  <2>5. FlightOk'
    BY <1>2, <2>2, <2>3, <2>4 DEF FetchInv, FlightOk
  <2>6. JoinedOk'
    BY <2>2, <2>3 DEF FetchInv, JoinedOk
  <2>7. \A q \in Player \ {p} : Leads(q) => Key(q) # k
    BY <1>5 DEF FetchInv, JoinedOk, Joined
  <2>8. OneLeader'
    BY <2>2, <2>7 DEF FetchInv, OneLeader
  <2> QED
    BY <2>1, <2>2, <2>5, <2>6, <2>8 DEF FetchInv, Turns
<1> QED
  BY <1>4, <1>5

\* A step of a fetch leaves the other requests' what they were: nobody ends or
\* starts a fetch but its handler, and what has been fetched stays.
Quiet ==
    \A q \in Player :
        /\ fetch'[q].url = fetch[q].url /\ fetch'[q].range = fetch[q].range
        /\ fetch[q].pc # "none" => fetch'[q].pc # "none"
        /\ fetch[q].pc \in {"none", "done"} => fetch'[q] = fetch[q]

LEMMA TurnsQuiet ==
    ASSUME NEW p \in Player, NEW label, NEW x, Turns(p, label, x),
           fetch[p].pc \notin {"none", "done"}, label # "none"
    PROVE  Quiet
BY DEF Turns, Others, Quiet

LEMMA GroupSettleKeeps ==
    ASSUME FetchInv, NEW p \in Player, groupSettle(p) PROVE FetchInv' /\ Quiet
<1> DEFINE k == Key(p)
           label == IF fetch[p].got = TooBig THEN "direct" ELSE "done"
           x == fetch[p].got
<1>1. fetch[p].pc = "settle" /\ Leads(p) /\ UNCHANGED buf /\ flight' = Drop(flight, k)
  BY DEF groupSettle, FetchAt, Leads, Leading
<1>2. fetch' = [q \in Player |-> IF q \in flight[k]
                                 THEN [fetch[q] EXCEPT !.pc = label, !.got = x] ELSE fetch[q]]
  BY DEF groupSettle
<1>3. k \in DOMAIN flight /\ p \in flight[k] /\ k \in RangeKeys
      /\ \A q \in flight[k] : q \in Player /\ Joined(q) /\ Key(q) = k
  BY <1>1, KeyTyped DEF FetchInv, JoinedOk, FlightOk, Joined
<1>4. x \in {k, TooBig, Failed}
  BY <1>1 DEF FetchInv, GotsOk, GotOk
<1>5. label \in {"direct", "done"} /\ (label = "done" => x \in {k, Failed})
  BY <1>4
<1> HIDE DEF label, x, k
<1>6. ASSUME NEW q \in flight[k]
      PROVE  /\ q \in Player /\ fetch'[q] \in FetchT
             /\ fetch'[q].pc = label /\ fetch'[q].got = x
             /\ fetch'[q].url = fetch[q].url /\ fetch'[q].range = fetch[q].range
             /\ fetch[q].pc \notin {"none", "done"}
  <2>1. q \in Player /\ fetch[q] \in FetchT /\ fetch'[q] = [fetch[q] EXCEPT !.pc = label, !.got = x]
    BY <1>2, <1>3, <1>6, KeyTyped
  <2>2. fetch[q].pc \notin {"none", "done"}
    BY <1>3, <1>6 DEF Joined, Leads, Leading
  <2> QED
    BY <1>3, <1>4, <1>5, <2>1, <2>2 DEF FetchT, FetchLabels
<1>7. \A q \in Player : q \notin flight[k] => fetch'[q] = fetch[q]
  BY <1>2
<1>8. FetchTypes'
  BY <1>2, <1>6, <1>7 DEF FetchInv, FetchTypes
<1>9. \A q \in Player : Key(q)' = Key(q)
  BY <1>6, <1>7 DEF Key, coalescingRangeKey
<1>10. \A q \in Player : IF q \in flight[k] THEN ~Joined(q)'
                          ELSE Joined(q)' = Joined(q) /\ Leads(q)' = Leads(q)
  BY <1>5, <1>6, <1>7 DEF Joined, Leads, Leading
<1>11. \A q \in Player : Joined(q) => (q \in flight[k] <=> Key(q) = k)
  BY <1>3 DEF FetchInv, JoinedOk
<1>12. DOMAIN flight' = DOMAIN flight \ {k} /\ \A y \in DOMAIN flight' : flight'[y] = flight[y]
  BY <1>1 DEF Drop
<1>13. FlightOk'
  <2> SUFFICES ASSUME NEW y \in DOMAIN flight \ {k}
               PROVE  /\ \A q \in flight[y] : q \in Player /\ Joined(q)' /\ Key(q)' = y
                      /\ \E q \in flight[y] : Leads(q)'
    BY <1>12 DEF FlightOk
  <2>1. \A q \in flight[y] : q \in Player /\ Joined(q) /\ Key(q) = y /\ q \notin flight[k]
    BY <1>11 DEF FetchInv, FlightOk
  <2>2. \E q \in flight[y] : Leads(q)
    BY DEF FetchInv, FlightOk
  <2> QED
    BY <1>9, <1>10, <2>1, <2>2
<1>14. JoinedOk'
  <2> SUFFICES ASSUME NEW q \in Player, Joined(q)'
               PROVE  Key(q) \in DOMAIN flight' /\ q \in flight'[Key(q)]
    BY <1>9 DEF JoinedOk
  <2>1. Joined(q) /\ Key(q) # k
    BY <1>10, <1>11
  <2> QED
    BY <1>12, <2>1 DEF FetchInv, JoinedOk
<1>15. OneLeader'
  BY <1>9, <1>10 DEF FetchInv, OneLeader, Joined
<1>16. BufOk'
  BY <1>1 DEF FetchInv, BufOk
<1>17. GotsOk'
  <2> SUFFICES ASSUME NEW q \in Player PROVE GotOk(q)'
    BY DEF GotsOk
  <2>1. CASE q \in flight[k]
    BY <1>3, <1>5, <1>6, <1>9, <2>1 DEF GotOk
  <2>2. CASE q \notin flight[k]
    BY <1>1, <1>7, <1>9, <2>2 DEF FetchInv, GotsOk, GotOk
  <2> QED
    BY <2>1, <2>2
<1>18. Quiet
  BY <1>5, <1>6, <1>7 DEF Quiet
<1> QED
  BY <1>8, <1>13, <1>14, <1>15, <1>16, <1>17, <1>18 DEF FetchInv

LEMMA FetchStepKeeps ==
    ASSUME FetchInv, NEW p \in Player, NEW ok, FetchStep(p, ok) PROVE FetchInv' /\ Quiet
<1>1. CASE cachedBuffered(p)
  BY <1>1, CachedBufferedKeeps, TurnsQuiet DEF cachedBuffered, FetchAt
<1>2. CASE groupDo(p)
  BY <1>2, GroupDoKeeps, TurnsQuiet DEF groupDo, FetchAt
<1>3. CASE cachedAgain(p)
  BY <1>3, CachedAgainKeeps, TurnsQuiet DEF cachedAgain, FetchAt, Leading
<1>4. CASE UpstreamBuffered(p, ok)
  BY <1>4, UpstreamBufferedKeeps, TurnsQuiet DEF UpstreamBuffered, FetchAt, Leading
<1>5. CASE KeepBuffered(p)
  BY <1>5, KeepBufferedKeeps, TurnsQuiet DEF KeepBuffered, FetchAt, Leading
<1>6. CASE groupSettle(p)
  BY <1>6, GroupSettleKeeps
<1>7. CASE UpstreamDirect(p, ok)
  BY <1>7, UpstreamDirectKeeps, TurnsQuiet DEF UpstreamDirect, FetchAt
<1> QED
  BY <1>1, <1>2, <1>3, <1>4, <1>5, <1>6, <1>7 DEF FetchStep

LEMMA BufferExpiresKeeps == ASSUME FetchInv, BufferExpires PROVE FetchInv'
<1>1. PICK k \in DOMAIN buf : buf' = Drop(buf, k)
  BY DEF BufferExpires
<1>2. DOMAIN buf' \subseteq DOMAIN buf /\ \A y \in DOMAIN buf' : buf'[y] = buf[y]
  BY <1>1 DEF Drop
<1>3. UNCHANGED <<flight, fetch>>
  BY DEF BufferExpires
<1>4. FetchTypes' /\ FlightOk' /\ JoinedOk' /\ OneLeader'
  BY <1>3 DEF FetchInv, FetchTypes, FlightOk, JoinedOk, OneLeader, Joined, Leads, Key,
              coalescingRangeKey
<1>5. BufOk' /\ GotsOk'
  BY <1>2, <1>3 DEF FetchInv, BufOk, GotsOk, GotOk, Key, coalescingRangeKey
<1> QED
  BY <1>4, <1>5 DEF FetchInv
---------------------------------------------------------------------------
(***************************************************************************)
(* The handler starts a fetch, and puts it away when it is done.           *)
(***************************************************************************)
LEMMA NoFetchTyped ==
    /\ NoRequest.url \in Urls /\ NoRequest.range \in Ranges
    /\ NoFetch(NoRequest.url, NoRequest.range) \in FetchT
    /\ NoFetch(NoRequest.url, NoRequest.range).pc = "none"
<1>1. NoRequest.url \in Urls /\ NoRequest.range \in Ranges
  BY DEF Urls, Ranges, Request
<1> QED
  BY <1>1 DEF NoFetch, FetchT, FetchLabels

LEMMA FetchKeeps ==
    ASSUME FetchInv, NEW p \in Player, NEW u \in Urls, NEW h \in Ranges,
           fetch[p].pc = "none", Fetch(p, u, h)
    PROVE  /\ FetchInv' /\ Others(p) /\ fetch'[p].url = u /\ fetch'[p].range = h
           /\ fetch'[p].pc \notin {"none", "done"}
<1> DEFINE label == IF coalesces(h) THEN "lookup" ELSE "direct"
           f == [NoFetch(u, h) EXCEPT !.pc = label]
<1>1. label \in {"lookup", "direct"}
  OBVIOUS
<1> HIDE DEF label
<1>2. f \in FetchT /\ f.pc = label /\ f.url = u /\ f.range = h
  BY <1>1 DEF NoFetch, FetchT, FetchLabels
<1>3. fetch' = [fetch EXCEPT ![p] = f] /\ UNCHANGED <<flight, buf>>
  BY DEF Fetch, label
<1> HIDE DEF f
<1>4. FetchTypes' /\ Others(p) /\ fetch'[p] = f
  BY <1>2, <1>3 DEF FetchInv, FetchTypes, Others
<1>5. ~Joined(p) /\ ~Joined(p)' /\ GotOk(p)'
  BY <1>1, <1>2, <1>4 DEF Joined, Leads, Leading, GotOk
<1> QED
  BY <1>1, <1>2, <1>3, <1>4, <1>5, OutsideKeeps

LEMMA ClearFetchKeeps ==
    ASSUME FetchInv, NEW p \in Player, fetch[p].pc = "done", ClearFetch(p),
           UNCHANGED <<flight, buf>>
    PROVE  FetchInv' /\ Others(p) /\ fetch'[p].pc = "none"
<1>1. FetchTypes' /\ Others(p) /\ fetch'[p] = NoFetch(NoRequest.url, NoRequest.range)
  BY NoFetchTyped DEF FetchInv, FetchTypes, Others, ClearFetch
<1>2. fetch'[p].pc = "none"
  BY <1>1, NoFetchTyped
<1>3. ~Joined(p) /\ ~Joined(p)' /\ GotOk(p)'
  BY <1>2 DEF Joined, Leads, Leading, GotOk
<1> QED
  BY <1>1, <1>2, <1>3, OutsideKeeps

\* No request, no buffer.
LEMMA NothingFetched ==
    ASSUME buf = << >>, flight = << >>,
           fetch = [p \in Player |-> NoFetch(NoRequest.url, NoRequest.range)]
    PROVE  FetchInv
<1>1. FetchTypes /\ \A p \in Player : fetch[p].pc = "none"
  BY NoFetchTyped DEF FetchTypes
<1>2. FlightOk /\ BufOk
  BY DEF FlightOk, BufOk
<1>3. JoinedOk /\ OneLeader /\ GotsOk
  BY <1>1 DEF JoinedOk, OneLeader, GotsOk, GotOk, Joined, Leads, Leading
<1> QED
  BY <1>1, <1>2, <1>3 DEF FetchInv
===========================================================================
