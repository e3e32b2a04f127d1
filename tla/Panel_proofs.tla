---------------------------- MODULE Panel_proofs ----------------------------
(***************************************************************************)
(* The panel for every set of handlers, printers and requests and every    *)
(* bound: its type invariant, that a job finds the calibration of its own  *)
(* printer while handlers change the list, and that file, panel and engine *)
(* agree when requests that did not overlap are over.                      *)
(***************************************************************************)
EXTENDS Panel, SequenceFacts

-----------------------------------------------------------------------------
(* The new lists.                                                          *)

\* A function that is defined from its value before exists, with its values.
LEMMA RecursionExists ==
  ASSUME NEW S, NEW b \in S, NEW n \in Nat, NEW step \in [1..n -> [S -> S]]
  PROVE  \E f \in [0..n -> S] :
           f[0] = b /\ \A i \in 1..n : f[i] = step[i][f[i - 1]]
<1> DEFINE Rec(f, m) == /\ f \in [0..m -> S] /\ f[0] = b
                        /\ \A i \in 1..m : f[i] = step[i][f[i - 1]]
           T == {m \in Nat : m <= n => \E f : Rec(f, m)}
<1>1. 0 \in T
  <2>1. Rec([i \in 0..0 |-> b], 0)
    OBVIOUS
  <2>2. QED
    BY <2>1
<1>2. ASSUME NEW m \in T PROVE m + 1 \in T
  <2>1. CASE m + 1 <= n
    <3>1. PICK f : Rec(f, m)
      BY <2>1
    <3>2. m + 1 \in 1..n /\ f[m] \in S /\ step[m + 1] \in [S -> S]
      BY <2>1, <3>1
    <3> DEFINE x == step[m + 1][f[m]]
               g == [i \in 0..m + 1 |-> IF i <= m THEN f[i] ELSE x]
    <3>3. x \in S
      BY <3>2
    <3>4. \A i \in 0..m : g[i] = f[i]
      OBVIOUS
    <3>5. g[m + 1] = x /\ g \in [0..m + 1 -> S]
      BY <3>1, <3>3
    <3>6. ASSUME NEW i \in 1..m + 1 PROVE g[i] = step[i][g[i - 1]]
      <4>1. CASE i <= m
        <5>1. i \in 0..m /\ i - 1 \in 0..m /\ i \in 1..m
          BY <4>1
        <5>2. g[i] = f[i] /\ g[i - 1] = f[i - 1] /\ f[i] = step[i][f[i - 1]]
          BY <3>1, <3>4, <5>1
        <5> HIDE DEF g
        <5>3. QED
          BY <5>2
      <4>2. CASE i = m + 1
        <5>1. g[i - 1] = f[m]
          BY <3>4, <4>2
        <5> HIDE DEF g
        <5>2. QED
          BY <3>5, <4>2, <5>1
      <4>3. QED
        BY <4>1, <4>2
    <3>7. g[0] = b
      BY <3>1, <3>4
    <3> HIDE DEF g
    <3>8. Rec(g, m + 1)
      BY <3>5, <3>6, <3>7
    <3>9. QED
      BY <3>8
  <2>2. CASE ~ (m + 1 <= n)
    BY <2>2
  <2>3. QED
    BY <2>1, <2>2
<1>3. T = Nat
  <2>1. T \in SUBSET Nat
    OBVIOUS
  <2> HIDE DEF T
  <2>2. QED
    BY <1>1, <1>2, <2>1, EveryNatural
<1>4. PICK f : Rec(f, n)
  BY <1>3
<1>5. QED
  BY <1>4

\* removeManaged returns a list of managed printers.
LEMMA RemoveType ==
  ASSUME NEW elems \in Seq(Managed), NEW name
  PROVE  removeManaged(elems, name) \in Seq(Managed)
<1> DEFINE n == Len(elems)
           S == Seq(Managed)
           IsOut(f) == f = [i \in 0..n |-> IF i = 0 THEN <<>>
                                          ELSE IF elems[i].name = name THEN f[i - 1]
                                          ELSE Append(f[i - 1], elems[i])]
           step == [i \in 1..n |-> [s \in S |-> IF elems[i].name = name THEN s
                                                ELSE Append(s, elems[i])]]
<1>1. n \in Nat /\ \A i \in 1..n : elems[i] \in Managed
  BY LenProperties, ElementOfSeq
<1>2. <<>> \in S /\ step \in [1..n -> [S -> S]]
  <2>1. ASSUME NEW i \in 1..n, NEW s \in S PROVE Append(s, elems[i]) \in S
    BY <1>1, AppendProperties
  <2> HIDE DEF S
  <2>2. step \in [1..n -> [S -> S]]
    BY <2>1
  <2>3. QED
    BY <2>2 DEF S
<1>3. \E f : IsOut(f)
  <2> HIDE DEF S, n
  <2>1. PICK f \in [0..n -> S] : f[0] = <<>> /\ \A i \in 1..n : f[i] = step[i][f[i - 1]]
    <3> DEFINE b == <<>>
    <3>1. n \in Nat /\ b \in S /\ step \in [1..n -> [S -> S]]
      BY <1>1, <1>2
    <3> HIDE DEF step, b
    <3>2. \E f \in [0..n -> S] : f[0] = b /\ \A i \in 1..n : f[i] = step[i][f[i - 1]]
      <4>1. \A x \in S : \A k \in Nat : \A t \in [1..k -> [S -> S]] :
              \E f \in [0..k -> S] : f[0] = x /\ \A i \in 1..k : f[i] = t[i][f[i - 1]]
        BY RecursionExists
      <4>2. QED
        BY <3>1, <4>1
    <3>3. QED
      BY <3>2 DEF b
  <2>2. ASSUME NEW i \in 0..n
        PROVE  f[i] = IF i = 0 THEN <<>> ELSE IF elems[i].name = name THEN f[i - 1]
                                         ELSE Append(f[i - 1], elems[i])
    <3>1. i # 0 => i \in 1..n /\ f[i - 1] \in S
      BY <1>1
    <3>2. QED
      BY <2>1, <3>1
  <2> HIDE DEF step
  <2>3. IsOut(f)
    <3>1. f = [i \in 0..n |-> f[i]]
      BY <2>1
    <3>2. QED
      BY <2>2, <3>1
  <2>4. QED
    BY <2>3
<1> DEFINE out == CHOOSE f : IsOut(f)
           T == {i \in Nat : i <= n => out[i] \in S}
<1>4. IsOut(out)
  BY <1>3
<1>5. removeManaged(elems, name) = out[n]
  BY DEF removeManaged
<1> HIDE DEF out
<1>6. \A i \in 0..n : out[i] = IF i = 0 THEN <<>>
                              ELSE IF elems[i].name = name THEN out[i - 1]
                              ELSE Append(out[i - 1], elems[i])
  BY <1>4
<1>7. 0 \in T
  <2>1. out[0] = <<>>
    BY <1>1, <1>6
  <2> HIDE DEF S
  <2>2. QED
    BY <1>2, <2>1
<1>8. ASSUME NEW i \in T PROVE i + 1 \in T
  <2>1. CASE i + 1 <= n
    <3> DEFINE m == i + 1
    <3>1. m \in 0..n /\ m \in 1..n /\ m # 0 /\ m - 1 = i /\ out[i] \in S
      BY <1>1, <2>1
    <3> HIDE DEF m
    <3>2. out[m] \in {out[i], Append(out[i], elems[m])}
      BY <1>6, <3>1
    <3>3. out[m] \in S
      <4>1. Append(out[i], elems[m]) \in S
        BY <1>1, <3>1, AppendProperties
      <4> HIDE DEF S
      <4>2. QED
        BY <3>1, <3>2, <4>1
    <3>4. QED
      BY <3>3 DEF m
  <2>2. CASE ~ (i + 1 <= n)
    BY <2>2
  <2>3. QED
    BY <2>1, <2>2
<1>9. T = Nat
  <2>1. T \in SUBSET Nat
    OBVIOUS
  <2> HIDE DEF T
  <2>2. QED
    BY <1>7, <1>8, <2>1, EveryNatural
<1>10. QED
  BY <1>1, <1>5, <1>9

\* So does upsertManaged.
LEMMA UpsertType ==
  ASSUME NEW elems \in Seq(Managed), NEW mp \in Managed
  PROVE  upsertManaged(elems, mp) \in Seq(Managed)
<1>1. DOMAIN elems = 1..Len(elems) /\ Len(elems) \in Nat
      /\ \A i \in 1..Len(elems) : elems[i] \in Managed
  BY LenProperties, ElementOfSeq
<1>2. Append(elems, mp) \in Seq(Managed)
  BY AppendProperties
<1> DEFINE new == [i \in DOMAIN elems |-> IF elems[i].name = mp.name THEN mp ELSE elems[i]]
<1>3. new \in [1..Len(elems) -> Managed]
  BY <1>1
<1>4. new \in Seq(Managed)
  <2> HIDE DEF new
  <2>1. QED
    BY <1>1, <1>3, IsASeq
<1>5. QED
  BY <1>2, <1>4 DEF upsertManaged

-----------------------------------------------------------------------------
(* Lists, requests, statements.                                            *)

\* What a list shows over some heap, and that it is there.
Shows(hp, l) == IF l = Nil THEN <<>> ELSE SubSeq(hp[l.arr], 1, l.len)
Valid(hp, l) == l \in List /\ (l # Nil => l.arr \in 1..Len(hp) /\ l.len <= Len(hp[l.arr]))

\* A list that is there shows managed printers, and goes on showing them when
\* another array is made.
LEMMA ListIs ==
  ASSUME NEW hp \in Seq(Seq(Managed)), NEW l, Valid(hp, l)
  PROVE  /\ Shows(hp, l) \in Seq(Managed)
         /\ DOMAIN Shows(hp, l) = 1..l.len /\ Len(Shows(hp, l)) = l.len /\ l.len \in Nat
         /\ l # Nil => \A i \in 1..l.len : Shows(hp, l)[i] = hp[l.arr][i]
         /\ \A i \in 1..l.len : Shows(hp, l)[i] \in Managed
         /\ \A new \in Seq(Managed) : /\ Valid(Append(hp, new), l)
                                      /\ Shows(Append(hp, new), l) = Shows(hp, l)
<1>1. CASE l = Nil
  BY <1>1 DEF Shows, Valid, Nil, List
<1>2. CASE l # Nil
  <2>1. /\ l.arr \in 1..Len(hp) /\ l.len \in Nat /\ l.len <= Len(hp[l.arr])
        /\ hp[l.arr] \in Seq(Managed) /\ Len(hp) \in Nat
    BY <1>2, ElementOfSeq, LenProperties DEF Valid, List
  <2> DEFINE s == hp[l.arr]
             sub == SubSeq(s, 1, l.len)
  <2>2. /\ sub \in Seq(Managed) /\ Len(sub) = l.len
        /\ \A i \in 1..l.len : sub[i] = s[i] /\ sub[i] \in Managed
    <3>1. s \in Seq(Managed) /\ Len(s) \in Nat /\ l.len \in 0..Len(s)
      BY <2>1, LenProperties
    <3> HIDE DEF s
    <3>2. \A i \in 1..l.len : s[i] \in Managed
      BY <3>1, ElementOfSeq
    <3>3. sub \in Seq(Managed) /\ Len(sub) = l.len /\ \A i \in 1..l.len : sub[i] = s[i]
      BY <3>1
    <3>4. QED
      BY <3>2, <3>3
  <2>3. DOMAIN sub = 1..l.len
    <3> HIDE DEF sub
    <3>1. QED
      BY <2>2, LenProperties
  <2>4. ASSUME NEW new \in Seq(Managed)
        PROVE  Valid(Append(hp, new), l) /\ Shows(Append(hp, new), l) = Shows(hp, l)
    <3>1. /\ Len(Append(hp, new)) = Len(hp) + 1 /\ Append(hp, new)[l.arr] = hp[l.arr]
      BY <2>1, AppendProperties
    <3>2. QED
      BY <1>2, <2>1, <3>1 DEF Valid, Shows
  <2>5. Shows(hp, l) = sub
    BY <1>2 DEF Shows
  <2> HIDE DEF sub
  <2>6. QED
    BY <2>1, <2>2, <2>3, <2>4, <2>5
<1>3. QED
  BY <1>1, <1>2

LEMMA DerefIs ==
  ASSUME NEW l
  PROVE  Deref(l) = Shows(heap, l)
BY DEF Deref, Shows

\* The overrides are calibrations.
LEMMA OverrideIs ==
  ASSUME NEW list \in Seq(Managed), NEW p
  PROVE  /\ Override(list, p) \in 0..MaxFeed
         /\ (\A i \in DOMAIN list : list[i].name # p) => Override(list, p) = 0
         /\ \A i \in DOMAIN list :
              list[i].name = p /\ (\A k \in DOMAIN list : k < i => list[k].name # p)
                => Override(list, p) = list[i].feed
<1> DEFINE I == {i \in DOMAIN list : list[i].name = p}
<1>1. /\ DOMAIN list = 1..Len(list) /\ Len(list) \in Nat
      /\ \A i \in DOMAIN list : list[i].feed \in 0..MaxFeed
  <2>1. DOMAIN list = 1..Len(list) /\ Len(list) \in Nat
    BY LenProperties
  <2>2. \A i \in DOMAIN list : list[i] \in Managed
    BY <2>1, ElementOfSeq
  <2>3. QED
    BY <2>1, <2>2 DEF Managed
<1>2. Override(list, p) = IF I = {} THEN 0 ELSE list[CHOOSE i \in I : \A k \in I : i <= k].feed
  BY DEF Override
<1>3. CASE I = {}
  BY <1>2, <1>3, PanelAssumption
<1>4. CASE I # {}
  <2> DEFINE c == CHOOSE i \in I : \A k \in I : i <= k
  <2>1. c \in I /\ \A k \in I : c <= k
    <3>1. I \in SUBSET Nat
      BY <1>1
    <3> HIDE DEF I
    <3>2. \E i \in I : \A k \in I : i <= k
      BY <1>4, <3>1, LeastElement
    <3>3. QED
      BY <3>2
  <2>2. Override(list, p) = list[c].feed
    BY <1>2, <1>4
  <2> HIDE DEF c
  <2>3. ASSUME NEW i \in DOMAIN list, list[i].name = p,
               \A k \in DOMAIN list : k < i => list[k].name # p
        PROVE  c = i
    <3>1. i \in I /\ c \in DOMAIN list /\ list[c].name = p
      BY <2>1, <2>3
    <3>2. c <= i /\ ~ (c < i)
      BY <2>1, <2>3, <3>1
    <3>3. QED
      BY <1>1, <3>1, <3>2
  <2>4. QED
    BY <1>1, <1>4, <2>1, <2>2, <2>3
<1>5. QED
  BY <1>3, <1>4

\* A request as a handler goes through it.
Asked == Requests \cup {[r EXCEPT !.url = Absent] : r \in {q \in Requests : q.op = "config"}}

LEMMA AskedIs ==
  ASSUME NEW r \in Asked
  PROVE  /\ r.op \in {"manage", "remove", "default", "config", "register", "unregister"}
         /\ r.op \in {"manage", "remove", "default"} => r.name \in Printer
         /\ r.op = "manage" => r.feed \in Int
         /\ r.op \in {"config", "register"} => r.url \in URL \cup {None, Absent}
         /\ r.op \in {"config", "register"} => r.token \in Token \cup {Absent}
         /\ r.op = "register" => r.url # None
         /\ r.op = "config" => r.feed \in Int \cup {Absent}
<1>1. ASSUME NEW q \in Request
      PROVE  /\ q.op \in {"manage", "remove", "default", "config", "register", "unregister"}
             /\ q.op \in {"manage", "remove", "default"} => q.name \in Printer
             /\ q.op = "manage" => q.feed \in Int
             /\ q.op \in {"config", "register"} => q.url \in URL \cup {None, Absent}
             /\ q.op \in {"config", "register"} => q.token \in Token \cup {Absent}
             /\ q.op = "register" => q.url \in URL \cup {Absent}
             /\ q.op = "config" => q \in [op : {"config"}, url : URL \cup {None, Absent},
                                         token : Token \cup {Absent}, feed : Int \cup {Absent}]
  BY DEF Request
<1>2. CASE r \in Requests
  <2>1. r \in Request
    BY <1>2, PanelAssumption
  <2>2. r.op = "register" => r.url # None
    BY <1>1, <2>1, PanelAssumption
  <2>3. QED
    BY <1>1, <2>1, <2>2
<1>3. ASSUME NEW q \in Requests, q.op = "config", r = [q EXCEPT !.url = Absent]
      PROVE  /\ r.op = "config" /\ r.url = Absent /\ r.token \in Token \cup {Absent}
             /\ r.feed \in Int \cup {Absent}
  <2>1. q \in [op : {"config"}, url : URL \cup {None, Absent},
               token : Token \cup {Absent}, feed : Int \cup {Absent}]
    BY <1>1, <1>3, PanelAssumption
  <2>2. QED
    BY <1>3, <2>1
<1>4. QED
  BY <1>2, <1>3 DEF Asked

Op == {"manage", "remove", "default", "config", "register", "unregister"}

\* What comes before what in the handlers.
LEMMA StepsAre ==
  ASSUME NEW op \in Op
  PROVE  LET n == Len(Steps(op)) IN
         /\ n \in 2..7 /\ Steps(op)[1] \notin {"write", "roles"}
         /\ \A i \in 1..n - 1 : /\ Steps(op)[i + 1] = "write" => Steps(op)[i] = "save"
                                /\ Steps(op)[i + 1] = "roles" => Steps(op)[i] = "tuning"
         /\ \A i \in 1..n :
              /\ Steps(op)[i] \in {"read", "assign"} => op \in {"manage", "remove"}
              /\ Steps(op)[i] \in {"default", "undefault"} => op \in {"remove", "default"}
              /\ Steps(op)[i] \in {"url", "token"} => op \in {"config", "register", "unregister"}
              /\ Steps(op)[i] = "feed" => op = "config"
              /\ Steps(op)[i] = "check" => op = "register"
<1>1. CASE op = "manage"
  BY <1>1 DEF Steps
<1>2. CASE op = "remove"
  BY <1>2 DEF Steps
<1>3. CASE op = "default"
  BY <1>3 DEF Steps
<1>4. CASE op = "config"
  BY <1>4 DEF Steps
<1>5. CASE op = "register"
  BY <1>5 DEF Steps
<1>6. CASE op = "unregister"
  BY <1>6 DEF Steps
<1>7. QED
  BY <1>1, <1>2, <1>3, <1>4, <1>5, <1>6 DEF Op

-----------------------------------------------------------------------------
(* Types.                                                                  *)

\* The panel's own configuration, in which the printers are a slice.
OwnConfig == [url : URL \cup {None}, token : Token \cup {None},
              default : Printer \cup {None}, feed : 0..MaxFeed, printers : List]

\* A handler that is under way has an admitted request, is at one of its statements, and
\* has the copy it is about to write or to pass on.
HandlerOK(h) ==
  /\ at[h] \in Nat /\ (at[h] # 0 => /\ up /\ req[h] \in Asked
                                    /\ at[h] \in 1..Len(Steps(req[h].op)))
  /\ Valid(heap, buf[h]) /\ (~up => buf[h] = Nil)
  /\ at[h] # 0 /\ Steps(req[h].op)[at[h]] \in {"write", "roles"} => snap[h] \in Saved

Searching == [printer : Printer \cup {None}, list : List, i : Nat,
              found : {-1} \cup (0..MaxFeed)]

TypeInv ==
  /\ up \in BOOLEAN /\ readOnly \in BOOLEAN
  /\ heap \in Seq(Seq(Managed))
  /\ cfg \in OwnConfig /\ Valid(heap, cfg.printers)
  /\ file \in Saved \cup {Empty, Garbled}
  /\ inUse \in [url : URL \cup {None}, token : Token \cup {None}]
  /\ tuning \in [feed : 0..MaxFeed, list : List] /\ Valid(heap, tuning.list)
  /\ roles \in [printers : Seq(Managed), default : Printer \cup {None}]
  /\ req \in [Handler -> Asked \cup {Absent}]
  /\ at \in [Handler -> 0..7] /\ changed \in [Handler -> BOOLEAN]
  /\ buf \in [Handler -> List] /\ snap \in [Handler -> Saved \cup {Absent}]
  /\ exiting \in BOOLEAN
  /\ job \in Searching
  /\ job # NoJob => up /\ Valid(heap, job.list) /\ job.i # 0 /\ job.printer \in Printer
  /\ own \in [Printer -> SUBSET (0..MaxFeed)]
  /\ alone \in BOOLEAN /\ saved \in BOOLEAN
  /\ \A h \in Handler : HandlerOK(h)

LEMMA ConfigIs ==
  ASSUME NEW c \in OwnConfig, heap \in Seq(Seq(Managed)), Valid(heap, c.printers)
  PROVE  /\ Value(c) \in Saved /\ Value(c).printers = Deref(c.printers)
         /\ Value(c).url = c.url /\ Value(c).token = c.token
         /\ Value(c).default = c.default /\ Value(c).feed = c.feed
<1> DEFINE list == Deref(c.printers)
<1>1. list \in Seq(Managed)
  BY ListIs, DerefIs
<1> HIDE DEF list
<1>2. [c EXCEPT !.printers = list] \in Saved
  BY <1>1 DEF OwnConfig, Saved
<1>3. /\ [c EXCEPT !.printers = list].printers = list
      /\ [c EXCEPT !.printers = list].url = c.url
      /\ [c EXCEPT !.printers = list].token = c.token
      /\ [c EXCEPT !.printers = list].default = c.default
      /\ [c EXCEPT !.printers = list].feed = c.feed
  BY DEF OwnConfig
<1>4. QED
  BY <1>2, <1>3 DEF Value, list

LEMMA TypeInvIs == TypeInv => TypeOK
<1> SUFFICES ASSUME TypeInv PROVE TypeOK
  OBVIOUS
<1>1. Value(cfg) \in Saved /\ cfg.printers \in List
  BY ConfigIs DEF TypeInv, OwnConfig
<1>2. QED
  BY <1>1 DEF TypeInv, TypeOK, Asked, Searching

\* A process that starts, with the configuration it found.
LEMMA LoadIs ==
  ASSUME NEW f \in Saved \cup {Empty}
  PROVE  Load(f) \in Saved
<1>1. CASE f = Empty
  <2>1. <<>> \in Seq(Managed) /\ 0 \in 0..MaxFeed
    BY PanelAssumption
  <2>2. QED
    BY <1>1, <2>1 DEF Load, Saved
<1>2. CASE f # Empty
  BY <1>2 DEF Load
<1>3. QED
  BY <1>1, <1>2

LEMMA FreshIs ==
  ASSUME NEW c \in Saved, NEW hp, hp = <<c.printers>>
  PROVE  LET list == [arr |-> 1, len |-> Len(c.printers)] IN
         /\ hp \in Seq(Seq(Managed)) /\ Valid(hp, list) /\ list # Nil
         /\ [c EXCEPT !.printers = list] \in OwnConfig
         /\ [c EXCEPT !.printers = list].printers = list
         /\ Shows(hp, list) = c.printers
         /\ \A p \in Printer : Override(c.printers, p) \in 0..MaxFeed
<1> DEFINE list == [arr |-> 1, len |-> Len(c.printers)]
<1>1. c.printers \in Seq(Managed) /\ Len(c.printers) \in Nat
  BY LenProperties DEF Saved
<1>2. hp \in Seq(Seq(Managed)) /\ Len(hp) = 1 /\ hp[1] = c.printers
  BY <1>1
<1>3. list # Nil /\ list \in List /\ list.arr = 1 /\ list.len = Len(c.printers)
  BY <1>1 DEF Nil, List
<1> HIDE DEF list
<1>4. Valid(hp, list)
  BY <1>1, <1>2, <1>3 DEF Valid
<1>5. SubSeq(c.printers, 1, Len(c.printers)) = c.printers
  BY <1>1
<1>6. Shows(hp, list) = c.printers
  BY <1>2, <1>3, <1>5 DEF Shows
<1>7. [c EXCEPT !.printers = list] \in OwnConfig
  BY <1>3 DEF OwnConfig, Saved
<1>8. [c EXCEPT !.printers = list].printers = list
  BY DEF Saved
<1>9. \A p \in Printer : Override(c.printers, p) \in 0..MaxFeed
  BY <1>1, OverrideIs
<1>10. QED
  BY <1>2, <1>3, <1>4, <1>6, <1>7, <1>8, <1>9 DEF list

\* The heap only grows while the process runs.
Grows == heap' = heap \/ \E new \in Seq(Managed) : heap' = Append(heap, new)

LEMMA GrowsIs ==
  ASSUME TypeInv, Grows
  PROVE  /\ heap' \in Seq(Seq(Managed))
         /\ \A l : Valid(heap, l) => Valid(heap', l) /\ Shows(heap', l) = Shows(heap, l)
<1>1. heap \in Seq(Seq(Managed))
  BY DEF TypeInv
<1>2. CASE heap' = heap
  BY <1>1, <1>2
<1>3. ASSUME NEW new \in Seq(Managed), heap' = Append(heap, new)
      PROVE  /\ heap' \in Seq(Seq(Managed))
             /\ \A l : Valid(heap, l) => Valid(heap', l) /\ Shows(heap', l) = Shows(heap, l)
  <2>1. Append(heap, new) \in Seq(Seq(Managed))
    BY <1>1, AppendProperties
  <2>2. ASSUME NEW l, Valid(heap, l)
        PROVE  Valid(Append(heap, new), l) /\ Shows(Append(heap, new), l) = Shows(heap, l)
    BY <1>1, <2>2, ListIs
  <2>3. QED
    BY <1>3, <2>1, <2>2
<1>4. QED
  BY <1>2, <1>3 DEF Grows

\* A handler goes on to its next statement or answers; the others stay where they are.
Moved(h) ==
  /\ at[h] # 0 /\ up /\ up' = up
  /\ at' \in [Handler -> 0..7] /\ req' \in [Handler -> Asked \cup {Absent}]
  /\ changed' \in [Handler -> BOOLEAN] /\ exiting' \in BOOLEAN
  /\ \A g \in Handler \ {h} : at'[g] = at[g] /\ req'[g] = req[g]
  /\ \/ at'[h] = 0
     \/ /\ at'[h] = at[h] + 1 /\ req'[h] = req[h]
        /\ at'[h] \in 1..Len(Steps(req[h].op))

LEMMA HandlerIs ==
  ASSUME TypeInv, NEW h \in Handler, at[h] # 0
  PROVE  /\ up /\ req[h] \in Asked /\ req[h].op \in Op
         /\ at[h] \in 1..Len(Steps(req[h].op)) /\ Len(Steps(req[h].op)) \in 2..7
  BY AskedIs, StepsAre DEF TypeInv, HandlerOK, Op

LEMMA AdvanceIs ==
  ASSUME TypeInv, NEW h \in Handler, NEW step, At(h, step), up' = up,
         NEW ch \in BOOLEAN, Advance(h, ch)
  PROVE  Moved(h)
<1>1. at[h] # 0 /\ up
  BY DEF At
<1>2. /\ req[h] \in Asked /\ at[h] \in 1..Len(Steps(req[h].op))
      /\ Len(Steps(req[h].op)) \in 2..7
  BY <1>1, HandlerIs
<1>3. /\ at \in [Handler -> 0..7] /\ changed \in [Handler -> BOOLEAN] /\ exiting \in BOOLEAN
      /\ req \in [Handler -> Asked \cup {Absent}]
  BY DEF TypeInv
<1>4. CASE at[h] < Len(Steps(req[h].op))
  <2>1. /\ at' = [at EXCEPT ![h] = at[h] + 1] /\ changed' = [changed EXCEPT ![h] = ch]
        /\ UNCHANGED <<req, exiting>>
    BY <1>4 DEF Advance
  <2>2. at[h] + 1 \in 1..Len(Steps(req[h].op)) /\ at[h] + 1 \in 0..7
    <3> DEFINE n == Len(Steps(req[h].op))
    <3>1. at[h] \in 1..n /\ n \in 2..7 /\ at[h] < n
      BY <1>2, <1>4
    <3> HIDE DEF n
    <3>2. at[h] + 1 \in 1..n /\ at[h] + 1 \in 0..7
      BY <3>1
    <3>3. QED
      BY <3>2 DEF n
  <2>3. QED
    BY <1>1, <1>2, <1>3, <2>1, <2>2 DEF Moved
<1>5. CASE ~ (at[h] < Len(Steps(req[h].op)))
  <2>1. /\ at' = [at EXCEPT ![h] = 0] /\ changed' = [changed EXCEPT ![h] = FALSE]
        /\ req' = [req EXCEPT ![h] = Absent] /\ exiting' = (exiting \/ ch)
    BY <1>5 DEF Advance
  <2>2. exiting' \in BOOLEAN
    BY <2>1
  <2>3. QED
    BY <1>1, <1>3, <2>1, <2>2 DEF Moved
<1>6. QED
  BY <1>4, <1>5

LEMMA RefuseIs ==
  ASSUME TypeInv, NEW h \in Handler, NEW step, At(h, step), up' = up, Refuse(h)
  PROVE  Moved(h)
BY DEF TypeInv, At, Refuse, Moved

\* A statement keeps the types if it keeps those of what it assigns.
LEMMA MovedType ==
  ASSUME TypeInv, NEW h \in Handler, Moved(h), Grows,
         cfg' \in OwnConfig, Valid(heap', cfg'.printers),
         file' \in Saved \cup {Empty, Garbled},
         tuning' \in [feed : 0..MaxFeed, list : List], Valid(heap', tuning'.list),
         roles' \in [printers : Seq(Managed), default : Printer \cup {None}],
         buf' \in [Handler -> List], snap' \in [Handler -> Saved \cup {Absent}],
         \A g \in Handler \ {h} : buf'[g] = buf[g] /\ snap'[g] = snap[g],
         Valid(heap', buf'[h]),
         Steps(req[h].op)[at[h]] \in {"save", "tuning"} => snap'[h] \in Saved \/ at'[h] = 0,
         own' \in [Printer -> SUBSET (0..MaxFeed)], saved' \in BOOLEAN,
         UNCHANGED <<readOnly, inUse, job, alone>>
  PROVE  TypeInv'
<1>1. /\ heap' \in Seq(Seq(Managed))
      /\ \A l : Valid(heap, l) => Valid(heap', l)
  BY GrowsIs
<1>2. ASSUME NEW g \in Handler \ {h} PROVE HandlerOK(g)'
  BY <1>1, <1>2 DEF TypeInv, HandlerOK, Moved
<1>3. HandlerOK(h)'
  <2>1. CASE at'[h] = 0
    BY <2>1 DEF HandlerOK, Moved
  <2>2. CASE at'[h] # 0
    <3> DEFINE n == at[h]
               op == req[h].op
    <3>1. /\ n \in 1..Len(Steps(op)) /\ req[h] \in Asked /\ op \in Op /\ up
          /\ Len(Steps(op)) \in 2..7
      BY HandlerIs DEF Moved
    <3>2. /\ at'[h] = n + 1 /\ req'[h] = req[h] /\ n + 1 \in 1..Len(Steps(op)) /\ up'
      BY <2>2, <3>1 DEF Moved
    <3>3. n \in 1..Len(Steps(op)) - 1
      BY <3>1, <3>2
    <3>4. Steps(op)[n + 1] \in {"write", "roles"} => Steps(op)[n] \in {"save", "tuning"}
      BY <3>1, <3>3, StepsAre
    <3>5. QED
      BY <2>2, <3>1, <3>2, <3>4 DEF HandlerOK
  <2>3. QED
    BY <2>1, <2>2
<1>4. job' \in Searching /\ (job' # NoJob => /\ up' /\ Valid(heap', job'.list) /\ job'.i # 0
                                            /\ job'.printer \in Printer)
  BY <1>1 DEF TypeInv, Moved
<1>5. up' \in BOOLEAN /\ readOnly' \in BOOLEAN /\ alone' \in BOOLEAN
      /\ inUse' \in [url : URL \cup {None}, token : Token \cup {None}]
  BY DEF TypeInv, Moved
<1>6. QED
  BY <1>1, <1>2, <1>3, <1>4, <1>5 DEF TypeInv, Moved

\* What a statement that only assigns to cfg leaves as it was.
LEMMA AssignType ==
  ASSUME TypeInv, NEW h \in Handler, Moved(h), Elsewhere,
         cfg' \in OwnConfig, cfg'.printers = cfg.printers,
         Steps(req[h].op)[at[h]] \notin {"save", "tuning"}
  PROVE  TypeInv'
<1>1. /\ Grows /\ Valid(heap', cfg'.printers) /\ Valid(heap', tuning'.list)
      /\ Valid(heap', buf'[h])
  BY DEF TypeInv, Elsewhere, engine, Grows, HandlerOK
<1>2. /\ file' \in Saved \cup {Empty, Garbled}
      /\ tuning' \in [feed : 0..MaxFeed, list : List]
      /\ roles' \in [printers : Seq(Managed), default : Printer \cup {None}]
      /\ buf' \in [Handler -> List] /\ snap' \in [Handler -> Saved \cup {Absent}]
      /\ own' \in [Printer -> SUBSET (0..MaxFeed)] /\ saved' \in BOOLEAN
      /\ \A g \in Handler \ {h} : buf'[g] = buf[g] /\ snap'[g] = snap[g]
      /\ UNCHANGED <<readOnly, inUse, job, alone>>
  BY DEF TypeInv, Elsewhere, engine
<1>3. QED
  BY <1>1, <1>2, MovedType

\* The list a handler makes from the printers it read.
LEMMA ReadIs ==
  ASSUME TypeInv, NEW h \in Handler, ReadPrinters(h)
  PROVE  \E new \in Seq(Managed) :
           /\ heap' = Append(heap, new)
           /\ buf' = [buf EXCEPT ![h] = [arr |-> Len(heap) + 1, len |-> Len(new)]]
<1> DEFINE r == req[h]
           elems == Deref(cfg.printers)
           mp == [name |-> r.name, feed |-> clamp(r.feed)]
           new == IF r.op = "manage" THEN upsertManaged(elems, mp)
                                     ELSE removeManaged(elems, r.name)
<1>1. /\ heap' = Append(heap, new) /\ At(h, "read")
      /\ buf' = [buf EXCEPT ![h] = [arr |-> Len(heap) + 1, len |-> Len(new)]]
  BY DEF ReadPrinters
<1>2. r.op \in {"manage", "remove"} /\ r \in Asked
  <2>1. at[h] # 0 /\ Steps(r.op)[at[h]] = "read"
    BY <1>1 DEF At
  <2>2. QED
    BY <2>1, HandlerIs, StepsAre
<1>3. elems \in Seq(Managed)
  BY DerefIs, ListIs DEF TypeInv
<1>4. r.op = "manage" => mp \in Managed
  <2>1. r.op = "manage" => r.name \in Printer /\ r.feed \in Int
    BY <1>2, AskedIs
  <2>2. QED
    BY <2>1, PanelAssumption DEF clamp, Managed
<1>5. new \in Seq(Managed)
  <2> HIDE DEF elems, mp
  <2>1. QED
    BY <1>3, <1>4, UpsertType, RemoveType
<1> HIDE DEF new
<1>6. QED
  BY <1>1, <1>5

LEMMA StatementType ==
  ASSUME TypeInv, NEW h \in Handler, Step(h)
  PROVE  TypeInv'
<1> DEFINE r == req[h]
<1>1. at[h] # 0 /\ up
  BY DEF Step, ReadPrinters, AssignPrinters, AssignDefault, AssignURL, CheckURL, AssignToken,
     AssignFeed, SaveOpen, SaveWrite, ApplyTuning, UpdateRoles, At
<1>2. /\ r \in Asked /\ r.op \in Op /\ at[h] \in 1..Len(Steps(r.op)) /\ HandlerOK(h)
      /\ changed[h] \in BOOLEAN
  BY <1>1, HandlerIs DEF TypeInv
<1> DEFINE step == Steps(r.op)[at[h]]
<1>3. /\ step \in {"read", "assign"} => r.op \in {"manage", "remove"}
      /\ step \in {"default", "undefault"} => r.op \in {"remove", "default"}
      /\ step \in {"url", "token"} => r.op \in {"config", "register", "unregister"}
      /\ step = "feed" => r.op = "config"
  BY <1>2, StepsAre
<1>4. /\ r.op \in {"manage", "remove", "default"} => r.name \in Printer
      /\ r.op = "manage" => r.feed \in Int
      /\ r.op \in {"config", "register"} => r.url \in URL \cup {None, Absent}
      /\ r.op \in {"config", "register"} => r.token \in Token \cup {Absent}
      /\ r.op = "config" => r.feed \in Int \cup {Absent}
  BY <1>2, AskedIs
<1>5. /\ heap \in Seq(Seq(Managed)) /\ cfg \in OwnConfig /\ Valid(heap, cfg.printers)
      /\ Valid(heap, buf[h])
  BY <1>2 DEF TypeInv, HandlerOK
<1>6. Deref(cfg.printers) \in Seq(Managed) /\ Deref(buf[h]) \in Seq(Managed)
      /\ Value(cfg) \in Saved
  BY <1>5, DerefIs, ListIs, ConfigIs
<1>7. \A v \in Int : clamp(v) \in 0..MaxFeed
  BY PanelAssumption DEF clamp
<1>8. CASE ReadPrinters(h)
  <2>1. /\ step = "read" /\ Advance(h, changed[h]) /\ At(h, "read")
        /\ UNCHANGED <<up, readOnly, cfg, file, inUse, engine, snap, job,
                       requests, crashes, own, alone, saved>>
    BY <1>8 DEF ReadPrinters, At
  <2>2. PICK new \in Seq(Managed) :
          /\ heap' = Append(heap, new)
          /\ buf' = [buf EXCEPT ![h] = [arr |-> Len(heap) + 1, len |-> Len(new)]]
    BY <1>8, ReadIs
  <2>3. Moved(h)
    BY <1>2, <2>1, AdvanceIs
  <2>4. Grows
    BY <2>1, <2>2 DEF Grows
  <2> DEFINE l == [arr |-> Len(heap) + 1, len |-> Len(new)]
  <2>5. Valid(heap', l) /\ l \in List
    <3>1. /\ Len(heap') = Len(heap) + 1 /\ heap'[Len(heap) + 1] = new
          /\ Len(heap) \in Nat /\ Len(new) \in Nat
      BY <1>5, <2>2, AppendProperties, LenProperties
    <3>2. l \in List /\ l.arr = Len(heap) + 1 /\ l.len = Len(new)
      BY <3>1 DEF List
    <3> HIDE DEF l
    <3>3. QED
      BY <3>1, <3>2 DEF Valid
  <2> HIDE DEF l
  <2>6. /\ buf' \in [Handler -> List] /\ Valid(heap', buf'[h])
        /\ \A g \in Handler \ {h} : buf'[g] = buf[g] /\ snap'[g] = snap[g]
    BY <2>1, <2>2, <2>5 DEF TypeInv, l
  <2>7. Valid(heap', cfg'.printers) /\ Valid(heap', tuning'.list)
    BY <2>1, <2>4, GrowsIs DEF TypeInv, engine
  <2>8. QED
    BY <2>1, <2>3, <2>4, <2>6, <2>7, MovedType DEF TypeInv, engine
<1>9. CASE AssignPrinters(h)
  <2>1. /\ step = "assign" /\ cfg' = [cfg EXCEPT !.printers = buf[h]]
        /\ own' = [p \in Printer |-> own[p] \cup {Override(Deref(buf[h]), p)}]
        /\ buf' = [buf EXCEPT ![h] = Nil]
        /\ Advance(h, changed[h]) /\ At(h, "assign")
        /\ UNCHANGED <<up, readOnly, heap, file, inUse, engine, snap, job,
                       requests, crashes, alone, saved>>
    BY <1>9 DEF AssignPrinters, At
  <2>2. Moved(h)
    BY <1>2, <2>1, AdvanceIs
  <2>3. cfg' \in OwnConfig /\ cfg'.printers = buf[h]
    BY <1>5, <2>1 DEF OwnConfig, Valid
  <2>4. own' \in [Printer -> SUBSET (0..MaxFeed)]
    <3>1. \A p \in Printer : Override(Deref(buf[h]), p) \in 0..MaxFeed
      BY <1>6, OverrideIs
    <3>2. QED
      BY <2>1, <3>1 DEF TypeInv
  <2>5. Nil \in List /\ Valid(heap, Nil)
    BY DEF Nil, List, Valid
  <2>6. QED
    BY <1>5, <2>1, <2>2, <2>3, <2>4, <2>5, MovedType DEF TypeInv, engine, Grows
<1>10. CASE AssignDefault(h)
  <2>1. /\ step \in {"default", "undefault"} /\ Advance(h, changed[h]) /\ Elsewhere
        /\ \E d \in {r.name, None, cfg.default} : cfg' = [cfg EXCEPT !.default = d]
        /\ \E s \in {"default", "undefault"} : At(h, s)
    BY <1>10 DEF AssignDefault, At
  <2>2. Moved(h)
    BY <1>2, <2>1, AdvanceIs DEF Elsewhere
  <2>3. cfg' \in OwnConfig /\ cfg'.printers = cfg.printers
    BY <1>3, <1>4, <1>5, <2>1 DEF OwnConfig
  <2>4. QED
    BY <2>1, <2>2, <2>3, AssignType
<1>11. CASE AssignURL(h)
  <2> DEFINE url == IF r.op = "unregister" THEN None ELSE r.url
             ch == changed[h] \/ cfg'.url # cfg.url
             new == IF url = Absent THEN cfg.url ELSE url
  <2>1. /\ step = "url" /\ At(h, "url") /\ Advance(h, ch) /\ Elsewhere
        /\ cfg' = [cfg EXCEPT !.url = new]
    BY <1>11 DEF AssignURL, At
  <2>2. Moved(h)
    <3> HIDE DEF ch
    <3>1. ch \in BOOLEAN
      BY <1>2 DEF ch
    <3>2. QED
      BY <1>2, <2>1, <3>1, AdvanceIs DEF Elsewhere
  <2>3. cfg.url \in URL \cup {None} /\ new \in URL \cup {None}
    BY <1>3, <1>4, <1>5, <2>1 DEF OwnConfig
  <2> HIDE DEF new
  <2>4. cfg' \in OwnConfig /\ cfg'.printers = cfg.printers
    BY <1>5, <2>1, <2>3 DEF OwnConfig
  <2>5. QED
    BY <2>1, <2>2, <2>4, AssignType
<1>12. CASE AssignToken(h)
  <2> DEFINE token == IF r.op = "unregister" THEN None ELSE r.token
             ch == changed[h] \/ cfg'.token # cfg.token
             new == IF token = Absent THEN cfg.token ELSE token
  <2>1. /\ step = "token" /\ At(h, "token") /\ Advance(h, ch) /\ Elsewhere
        /\ cfg' = [cfg EXCEPT !.token = new]
    BY <1>12 DEF AssignToken, At
  <2>2. Moved(h)
    <3> HIDE DEF ch
    <3>1. ch \in BOOLEAN
      BY <1>2 DEF ch
    <3>2. QED
      BY <1>2, <2>1, <3>1, AdvanceIs DEF Elsewhere
  <2>3. cfg.token \in Token \cup {None} /\ new \in Token \cup {None}
    BY <1>3, <1>4, <1>5, <2>1 DEF OwnConfig
  <2> HIDE DEF new
  <2>4. cfg' \in OwnConfig /\ cfg'.printers = cfg.printers
    BY <1>5, <2>1, <2>3 DEF OwnConfig
  <2>5. QED
    BY <2>1, <2>2, <2>4, AssignType
<1>13. CASE AssignFeed(h)
  <2> DEFINE new == IF r.feed = Absent THEN cfg.feed ELSE clamp(r.feed)
  <2>1. /\ step = "feed" /\ At(h, "feed") /\ Advance(h, changed[h]) /\ Elsewhere
        /\ cfg' = [cfg EXCEPT !.feed = new]
    BY <1>13 DEF AssignFeed, At
  <2>2. Moved(h)
    BY <1>2, <2>1, AdvanceIs DEF Elsewhere
  <2>3. new \in 0..MaxFeed
    BY <1>3, <1>4, <1>5, <1>7, <2>1 DEF OwnConfig
  <2> HIDE DEF new
  <2>4. cfg' \in OwnConfig /\ cfg'.printers = cfg.printers
    BY <1>5, <2>1, <2>3 DEF OwnConfig
  <2>5. QED
    BY <2>1, <2>2, <2>4, AssignType
<1>14. CASE CheckURL(h)
  <2>1. /\ step = "check" /\ At(h, "check") /\ (Refuse(h) \/ Advance(h, changed[h]))
        /\ UNCHANGED <<up, readOnly, cfg, heap, file, inUse, engine, buf, snap, job,
                       requests, crashes, own, alone, saved>>
    BY <1>14 DEF CheckURL, At
  <2>2. Moved(h)
    BY <1>2, <2>1, AdvanceIs, RefuseIs
  <2>3. QED
    BY <1>5, <2>1, <2>2, AssignType DEF Elsewhere
<1>15. CASE SaveOpen(h)
  <2>1. /\ step = "save" /\ At(h, "save")
        /\ \/ /\ snap' = [snap EXCEPT ![h] = Value(cfg)] /\ file' = Empty
              /\ Advance(h, changed[h]) /\ UNCHANGED saved
           \/ Refuse(h) /\ saved' = FALSE /\ UNCHANGED <<snap, file>>
        /\ UNCHANGED <<up, readOnly, cfg, heap, inUse, engine, buf, job, requests,
                       crashes, own, alone>>
    BY <1>15 DEF SaveOpen, At
  <2>2. Moved(h)
    BY <1>2, <2>1, AdvanceIs, RefuseIs
  <2>3. /\ snap' \in [Handler -> Saved \cup {Absent}]
        /\ snap'[h] \in Saved \/ at'[h] = 0
        /\ \A g \in Handler \ {h} : snap'[g] = snap[g]
    <3>1. snap \in [Handler -> Saved \cup {Absent}] /\ at \in [Handler -> 0..7]
      BY DEF TypeInv
    <3>2. CASE snap' = [snap EXCEPT ![h] = Value(cfg)]
      BY <1>6, <3>1, <3>2
    <3>3. CASE Refuse(h) /\ UNCHANGED snap
      BY <3>1, <3>3 DEF Refuse
    <3>4. QED
      BY <2>1, <3>2, <3>3
  <2>4. file' \in Saved \cup {Empty, Garbled} /\ saved' \in BOOLEAN
    BY <2>1 DEF TypeInv
  <2>5. QED
    BY <1>5, <2>1, <2>2, <2>3, <2>4, MovedType DEF TypeInv, engine, Grows
<1>16. CASE SaveWrite(h)
  <2>1. /\ step = "write" /\ At(h, "write")
        /\ \/ /\ file' \in {snap[h], Garbled} /\ Advance(h, changed[h]) /\ UNCHANGED saved
           \/ Refuse(h) /\ saved' = FALSE /\ UNCHANGED file
        /\ snap' = [snap EXCEPT ![h] = Absent]
        /\ UNCHANGED <<up, readOnly, cfg, heap, inUse, engine, buf, job, requests,
                       crashes, own, alone>>
    BY <1>16 DEF SaveWrite, At
  <2>2. Moved(h)
    BY <1>2, <2>1, AdvanceIs, RefuseIs
  <2>3. snap[h] \in Saved
    BY <1>1, <1>2, <2>1 DEF HandlerOK
  <2>4. file' \in Saved \cup {Empty, Garbled} /\ saved' \in BOOLEAN
    BY <2>1, <2>3 DEF TypeInv
  <2>5. /\ snap' \in [Handler -> Saved \cup {Absent}]
        /\ \A g \in Handler \ {h} : snap'[g] = snap[g]
    BY <2>1 DEF TypeInv
  <2>6. QED
    BY <1>5, <2>1, <2>2, <2>4, <2>5, MovedType DEF TypeInv, engine, Grows
<1>17. CASE ApplyTuning(h)
  <2>1. /\ step = "tuning" /\ At(h, "tuning") /\ Advance(h, changed[h])
        /\ tuning' = [feed |-> cfg.feed, list |-> cfg.printers]
        /\ snap' = [snap EXCEPT ![h] = Value(cfg)]
        /\ UNCHANGED <<up, readOnly, cfg, heap, file, inUse, roles, buf, job,
                       requests, crashes, own, alone, saved>>
    BY <1>17 DEF ApplyTuning, At
  <2>2. Moved(h)
    BY <1>2, <2>1, AdvanceIs
  <2>3. /\ snap' \in [Handler -> Saved \cup {Absent}] /\ snap'[h] \in Saved
        /\ \A g \in Handler \ {h} : snap'[g] = snap[g]
    BY <1>6, <2>1 DEF TypeInv
  <2>4. tuning' \in [feed : 0..MaxFeed, list : List] /\ tuning'.list = cfg.printers
    BY <1>5, <2>1 DEF OwnConfig
  <2>5. QED
    BY <1>5, <2>1, <2>2, <2>3, <2>4, MovedType DEF TypeInv, Grows
<1>18. CASE UpdateRoles(h)
  <2>1. /\ step = "roles" /\ At(h, "roles") /\ Advance(h, changed[h])
        /\ roles' = [printers |-> snap[h].printers, default |-> snap[h].default]
        /\ snap' = [snap EXCEPT ![h] = Absent]
        /\ UNCHANGED <<up, readOnly, cfg, heap, file, inUse, tuning, buf, job,
                       requests, crashes, own, alone, saved>>
    BY <1>18 DEF UpdateRoles, At
  <2>2. Moved(h)
    BY <1>2, <2>1, AdvanceIs
  <2>3. snap[h] \in Saved
    BY <1>1, <1>2, <2>1 DEF HandlerOK
  <2>4. roles' \in [printers : Seq(Managed), default : Printer \cup {None}]
    BY <2>1, <2>3 DEF Saved
  <2>5. /\ snap' \in [Handler -> Saved \cup {Absent}]
        /\ \A g \in Handler \ {h} : snap'[g] = snap[g]
    BY <2>1 DEF TypeInv
  <2>6. QED
    BY <1>5, <2>1, <2>2, <2>4, <2>5, MovedType DEF TypeInv, Grows
<1>19. QED
  BY <1>8, <1>9, <1>10, <1>11, <1>12, <1>13, <1>14, <1>15, <1>16, <1>17, <1>18 DEF Step

\* A job in the engine, and the process.
LEMMA JobType ==
  ASSUME TypeInv, (\E p \in Printer : TakeTuning(p)) \/ LookAtPrinter \/ JobDone
  PROVE  TypeInv'
<1>1. /\ UNCHANGED <<up, readOnly, cfg, heap, file, inUse, tuning, roles, req, at, changed,
                     buf, snap, exiting, own, alone, saved>>
      /\ up
  BY DEF TakeTuning, LookAtPrinter, JobDone, engine, handlers
<1>2. /\ job' \in Searching
      /\ job' # NoJob => Valid(heap, job'.list) /\ job'.i # 0 /\ job'.printer \in Printer
  <2>1. ASSUME NEW p \in Printer, TakeTuning(p)
        PROVE  /\ job' \in Searching
               /\ Valid(heap, job'.list) /\ job'.i # 0 /\ job'.printer \in Printer
    <3>1. job' = [printer |-> p, list |-> tuning.list, i |-> 1, found |-> -1]
      BY <2>1 DEF TakeTuning
    <3>2. tuning.list \in List /\ Valid(heap, tuning.list)
      BY DEF TypeInv
    <3>3. QED
      BY <3>1, <3>2 DEF Searching
  <2>2. ASSUME LookAtPrinter
        PROVE  /\ job' \in Searching
               /\ Valid(heap, job'.list) /\ job'.i # 0 /\ job'.printer \in Printer
    <3>1. /\ job \in Searching /\ Valid(heap, job.list) /\ job.i # 0 /\ job.i \in Nat
          /\ job.printer \in Printer /\ heap \in Seq(Seq(Managed))
      BY <2>2 DEF TypeInv, LookAtPrinter, Searching
    <3>2. job.list.len \in Nat
      BY <3>1 DEF Searching, List
    <3>3. CASE job.i > job.list.len
      <4>1. job' = [job EXCEPT !.found = 0]
        BY <2>2, <3>3 DEF LookAtPrinter
      <4>2. QED
        BY <3>1, <4>1, PanelAssumption DEF Searching
    <3>4. CASE ~ (job.i > job.list.len)
      <4> DEFINE mp == heap[job.list.arr][job.i]
      <4>1. job' = IF mp.name = job.printer THEN [job EXCEPT !.found = mp.feed]
                                            ELSE [job EXCEPT !.i = job.i + 1]
        BY <2>2, <3>4 DEF LookAtPrinter
      <4>2. job.i \in 1..job.list.len /\ job.list # Nil
        BY <3>1, <3>2, <3>4 DEF Nil
      <4>3. mp \in Managed
        BY <3>1, <4>2, ListIs
      <4> HIDE DEF mp
      <4>4. mp.feed \in 0..MaxFeed
        BY <4>3 DEF Managed
      <4>5. CASE mp.name = job.printer
        BY <3>1, <4>1, <4>4, <4>5 DEF Searching
      <4>6. CASE mp.name # job.printer
        BY <3>1, <4>1, <4>6 DEF Searching
      <4>7. QED
        BY <4>5, <4>6
    <3>5. QED
      BY <3>3, <3>4
  <2>3. CASE JobDone
    <3>1. job' = NoJob /\ Nil \in List
      BY <2>3 DEF JobDone, Nil, List
    <3>2. QED
      BY <3>1 DEF NoJob, Searching
  <2>4. QED
    BY <2>1, <2>2, <2>3
<1>3. \A h \in Handler : HandlerOK(h)'
  BY <1>1 DEF TypeInv, HandlerOK
<1>4. QED
  BY <1>1, <1>2, <1>3 DEF TypeInv

LEMMA NilIs == Nil \in List /\ (\A hp : Valid(hp, Nil)) /\ NoJob \in Searching
BY DEF Nil, List, Valid, NoJob, Searching

LEMMA BeginKeepsTypes ==
  ASSUME TypeInv, NEW h \in Handler, NEW r \in Requests, Begin(h, r)
  PROVE  TypeInv'
<1> DEFINE new == IF readOnly /\ r.op = "config" THEN [r EXCEPT !.url = Absent] ELSE r
           ch == r.op \in {"register", "unregister"}
           al == alone /\ \A g \in Handler : at[g] = 0
<1>1. /\ up /\ at[h] = 0 /\ req' = [req EXCEPT ![h] = new] /\ at' = [at EXCEPT ![h] = 1]
      /\ changed' = [changed EXCEPT ![h] = ch] /\ alone' = al
      /\ UNCHANGED <<up, readOnly, cfg, heap, file, inUse, tuning, roles, buf, snap,
                     exiting, job, own, saved>>
  BY DEF Begin, engine
<1>2. new \in Asked /\ ch \in BOOLEAN /\ al \in BOOLEAN
  BY DEF Asked
<1> HIDE DEF new, ch, al
<1>3. new.op \in Op /\ Len(Steps(new.op)) \in 2..7
      /\ Steps(new.op)[1] \notin {"write", "roles"}
  BY <1>2, AskedIs, StepsAre DEF Op
<1>4. /\ req' \in [Handler -> Asked \cup {Absent}] /\ at' \in [Handler -> 0..7]
      /\ changed' \in [Handler -> BOOLEAN] /\ req'[h] = new /\ at'[h] = 1
      /\ \A g \in Handler \ {h} : req'[g] = req[g] /\ at'[g] = at[g]
  BY <1>1, <1>2 DEF TypeInv
<1>5. ASSUME NEW g \in Handler PROVE HandlerOK(g)'
  <2>1. CASE g = h
    <3>1. 1 \in 1..Len(Steps(new.op))
      BY <1>3
    <3>2. Valid(heap', buf'[h])
      BY <1>1 DEF TypeInv, HandlerOK
    <3>3. QED
      BY <1>1, <1>2, <1>3, <1>4, <2>1, <3>1, <3>2 DEF HandlerOK
  <2>2. CASE g # h
    BY <1>1, <1>4, <2>2 DEF TypeInv, HandlerOK
  <2>3. QED
    BY <2>1, <2>2
<1>6. QED
  BY <1>1, <1>2, <1>4, <1>5 DEF TypeInv

LEMMA ExitType ==
  ASSUME TypeInv, Exit
  PROVE  TypeInv'
<1>1. /\ up' = FALSE /\ exiting' = FALSE /\ job' = NoJob
      /\ req' = [h \in Handler |-> Absent] /\ at' = [h \in Handler |-> 0]
      /\ changed' = [h \in Handler |-> FALSE] /\ buf' = [h \in Handler |-> Nil]
      /\ snap' = [h \in Handler |-> Absent]
      /\ UNCHANGED <<readOnly, cfg, heap, file, inUse, tuning, roles, own, alone, saved>>
  BY DEF Exit, engine
<1>2. \A h \in Handler : HandlerOK(h)'
  BY <1>1, NilIs DEF HandlerOK
<1>3. /\ req' \in [Handler -> Asked \cup {Absent}] /\ at' \in [Handler -> 0..7]
      /\ changed' \in [Handler -> BOOLEAN] /\ snap' \in [Handler -> Saved \cup {Absent}]
  BY <1>1
<1>4. buf' \in [Handler -> List]
  <2> DEFINE n == Nil
  <2>1. n \in List /\ buf' = [h \in Handler |-> n]
    BY <1>1, NilIs
  <2> HIDE DEF n
  <2>2. QED
    BY <2>1
<1>5. QED
  BY <1>1, <1>2, <1>3, <1>4, NilIs DEF TypeInv

LEMMA StartType ==
  ASSUME TypeInv, Start
  PROVE  TypeInv'
<1> DEFINE c == Load(file)
           list == [arr |-> 1, len |-> Len(c.printers)]
<1>1. /\ ~up /\ heap' = <<c.printers>> /\ cfg' = [c EXCEPT !.printers = list]
      /\ inUse' = Conn(c) /\ tuning' = [feed |-> c.feed, list |-> list]
      /\ roles' = [printers |-> c.printers, default |-> c.default]
      /\ own' = [p \in Printer |-> {Override(c.printers, p)}]
      /\ up' = TRUE /\ alone' = TRUE /\ saved' = TRUE /\ file # Garbled
      /\ UNCHANGED <<readOnly, file, req, at, changed, buf, snap, exiting, job>>
  BY DEF Start, handlers
<1>2. c \in Saved
  BY <1>1, LoadIs DEF TypeInv
<1> HIDE DEF c
<1>3. /\ heap' \in Seq(Seq(Managed)) /\ Valid(heap', list) /\ cfg' \in OwnConfig
      /\ cfg'.printers = list /\ list \in List
      /\ \A p \in Printer : Override(c.printers, p) \in 0..MaxFeed
  BY <1>1, <1>2, FreshIs DEF Valid
<1> HIDE DEF list
<1>4. /\ inUse' \in [url : URL \cup {None}, token : Token \cup {None}]
      /\ tuning' \in [feed : 0..MaxFeed, list : List] /\ tuning'.list = list
      /\ roles' \in [printers : Seq(Managed), default : Printer \cup {None}]
      /\ own' \in [Printer -> SUBSET (0..MaxFeed)]
  BY <1>1, <1>2, <1>3 DEF Conn, Saved
<1>5. \A h \in Handler : at'[h] = 0 /\ Valid(heap', buf'[h])
  <2>1. \A h \in Handler : at[h] = 0
    BY <1>1 DEF TypeInv, HandlerOK
  <2>2. ASSUME NEW h \in Handler PROVE Valid(heap', buf[h])
    <3>1. buf[h] = Nil
      BY <1>1 DEF TypeInv, HandlerOK
    <3>2. QED
      BY <3>1, NilIs
  <2>3. QED
    BY <1>1, <2>1, <2>2
<1>6. QED
  BY <1>1, <1>3, <1>4, <1>5 DEF TypeInv, HandlerOK

LEMMA InitType == Init => TypeInv
<1> SUFFICES ASSUME Init PROVE TypeInv
  OBVIOUS
<1> DEFINE list == [arr |-> 1, len |-> Len(Installed.printers)]
<1>1. /\ up = TRUE /\ readOnly \in BOOLEAN /\ file = Installed
      /\ heap = <<Installed.printers>> /\ cfg = [Installed EXCEPT !.printers = list]
      /\ inUse = Conn(Installed) /\ tuning = [feed |-> Installed.feed, list |-> list]
      /\ roles = [printers |-> Installed.printers, default |-> Installed.default]
      /\ req = [h \in Handler |-> Absent] /\ at = [h \in Handler |-> 0]
      /\ changed = [h \in Handler |-> FALSE] /\ buf = [h \in Handler |-> Nil]
      /\ snap = [h \in Handler |-> Absent] /\ exiting = FALSE /\ job = NoJob
      /\ own = [p \in Printer |-> {Override(Installed.printers, p)}]
      /\ alone = TRUE /\ saved = TRUE
  BY DEF Init
<1>2. Installed \in Saved
  BY PanelAssumption
<1>3. /\ heap \in Seq(Seq(Managed)) /\ Valid(heap, list) /\ cfg \in OwnConfig
      /\ cfg.printers = list /\ list \in List
      /\ \A p \in Printer : Override(Installed.printers, p) \in 0..MaxFeed
  BY <1>1, <1>2, FreshIs DEF Valid
<1> HIDE DEF list
<1>4. /\ inUse \in [url : URL \cup {None}, token : Token \cup {None}]
      /\ tuning \in [feed : 0..MaxFeed, list : List] /\ tuning.list = list
      /\ roles \in [printers : Seq(Managed), default : Printer \cup {None}]
      /\ own \in [Printer -> SUBSET (0..MaxFeed)]
  BY <1>1, <1>2, <1>3 DEF Conn, Saved
<1>5. /\ req \in [Handler -> Asked \cup {Absent}] /\ at \in [Handler -> 0..7]
      /\ changed \in [Handler -> BOOLEAN] /\ snap \in [Handler -> Saved \cup {Absent}]
  BY <1>1
<1>6. buf \in [Handler -> List] /\ \A h \in Handler : HandlerOK(h)
  <2> DEFINE n == Nil
  <2>1. n \in List /\ Valid(heap, n) /\ buf = [h \in Handler |-> n]
    BY <1>1, NilIs
  <2> HIDE DEF n
  <2>2. QED
    BY <1>1, <2>1 DEF HandlerOK
<1>7. QED
  BY <1>1, <1>2, <1>3, <1>4, <1>5, <1>6, NilIs DEF TypeInv

LEMMA StutterType == TypeInv /\ UNCHANGED vars => TypeInv'
BY DEF TypeInv, HandlerOK, vars, engine, handlers

\* The types hold in every reachable state.
LEMMA TypesKept == Spec => []TypeInv
<1>1. TypeInv /\ [Next]_vars => TypeInv'
  <2> SUFFICES ASSUME TypeInv, [Next]_vars PROVE TypeInv'
    OBVIOUS
  <2>1. ASSUME NEW h \in Handler, Step(h) PROVE TypeInv'
    BY <2>1, StatementType
  <2>2. ASSUME NEW h \in Handler, NEW r \in Requests, Begin(h, r) PROVE TypeInv'
    BY <2>2, BeginKeepsTypes
  <2>3. CASE (\E p \in Printer : TakeTuning(p)) \/ LookAtPrinter \/ JobDone
    BY <2>3, JobType
  <2>4. CASE Exit \/ Start
    BY <2>4, ExitType, StartType
  <2>5. CASE UNCHANGED vars
    BY <2>5, StutterType
  <2>6. QED
    BY <2>1, <2>2, <2>3, <2>4, <2>5 DEF Next
<1>2. QED
  BY <1>1, InitType, PTL DEF Spec

\* In every reachable state the panel's variables have their types: every slice that the
\* panel, the engine, a job or a handler holds points to an array that is there, and a
\* saved file is a whole configuration, empty or garbled.
THEOREM PanelTypeCorrect == Spec => []TypeOK
BY TypesKept, TypeInvIs, PTL

-----------------------------------------------------------------------------
(* A job finds a calibration of its own printer.                           *)

\* The lists of the panel and of the engine say what was said of a printer since the
\* process started; a job that goes through its list has not passed its printer.
OwnInv ==
  /\ \A p \in Printer : /\ Override(Shows(heap, cfg.printers), p) \in own[p]
                        /\ Override(Shows(heap, tuning.list), p) \in own[p]
  /\ job # NoJob =>
       LET list == Shows(heap, job.list)
       IN  /\ Override(list, job.printer) \in own[job.printer]
           /\ job.found = -1 =>
                \A k \in 1..job.list.len : k < job.i => list[k].name # job.printer
           /\ job.found # -1 => job.found \in own[job.printer]

\* What a step has to see to that does not touch the job.
LEMMA OwnHolds ==
  ASSUME TypeInv, OwnInv, Grows, job' = job, \A p \in Printer : own[p] \subseteq own'[p],
         \A p \in Printer : /\ Override(Shows(heap', cfg'.printers), p) \in own'[p]
                            /\ Override(Shows(heap', tuning'.list), p) \in own'[p]
  PROVE  OwnInv'
<1>1. ASSUME job # NoJob
      PROVE  LET list == Shows(heap', job.list)
             IN  /\ Override(list, job.printer) \in own'[job.printer]
                 /\ job.found = -1 =>
                      \A k \in 1..job.list.len : k < job.i => list[k].name # job.printer
                 /\ job.found # -1 => job.found \in own'[job.printer]
  <2>1. Shows(heap', job.list) = Shows(heap, job.list) /\ job.printer \in Printer
    BY <1>1, GrowsIs DEF TypeInv
  <2>2. QED
    BY <1>1, <2>1 DEF OwnInv
<1>2. QED
  BY <1>1 DEF OwnInv

\* ... or touches no list.
LEMMA OwnStays ==
  ASSUME TypeInv, OwnInv, UNCHANGED <<heap, own, job>>,
         cfg'.printers = cfg.printers, tuning'.list = tuning.list
  PROVE  OwnInv'
<1>1. Grows
  BY DEF Grows
<1>2. \A p \in Printer : /\ Override(Shows(heap', cfg'.printers), p) \in own'[p]
                         /\ Override(Shows(heap', tuning'.list), p) \in own'[p]
  BY DEF OwnInv
<1>3. QED
  BY <1>1, <1>2, OwnHolds

LEMMA StatementOwn ==
  ASSUME TypeInv, OwnInv, NEW h \in Handler, Step(h)
  PROVE  OwnInv'
<1>1. CASE ReadPrinters(h)
  <2>1. /\ Grows /\ UNCHANGED <<cfg, tuning, own, job>>
    BY <1>1, ReadIs DEF ReadPrinters, Grows, engine
  <2>2. /\ Shows(heap', cfg.printers) = Shows(heap, cfg.printers)
        /\ Shows(heap', tuning.list) = Shows(heap, tuning.list)
    BY <2>1, GrowsIs DEF TypeInv
  <2>3. \A p \in Printer : /\ Override(Shows(heap', cfg'.printers), p) \in own'[p]
                           /\ Override(Shows(heap', tuning'.list), p) \in own'[p]
    BY <2>1, <2>2 DEF OwnInv
  <2>4. QED
    BY <2>1, <2>3, OwnHolds
<1>2. CASE AssignPrinters(h)
  <2>1. /\ cfg' = [cfg EXCEPT !.printers = buf[h]]
        /\ own' = [p \in Printer |-> own[p] \cup {Override(Deref(buf[h]), p)}]
        /\ UNCHANGED <<heap, tuning, job>>
    BY <1>2 DEF AssignPrinters, engine
  <2>2. cfg'.printers = buf[h]
    BY <2>1 DEF TypeInv, OwnConfig
  <2>3. \A p \in Printer : /\ Override(Shows(heap', cfg'.printers), p) \in own'[p]
                           /\ Override(Shows(heap', tuning'.list), p) \in own'[p]
    BY <2>1, <2>2, DerefIs DEF OwnInv
  <2>4. \A p \in Printer : own[p] \subseteq own'[p]
    BY <2>1
  <2>5. QED
    BY <2>1, <2>3, <2>4, OwnHolds DEF Grows
<1>3. CASE ApplyTuning(h)
  <2>1. /\ tuning'.list = cfg.printers /\ UNCHANGED <<heap, cfg, own, job>>
    BY <1>3 DEF ApplyTuning
  <2>2. \A p \in Printer : /\ Override(Shows(heap', cfg'.printers), p) \in own'[p]
                           /\ Override(Shows(heap', tuning'.list), p) \in own'[p]
    BY <2>1 DEF OwnInv
  <2>3. QED
    BY <2>1, <2>2, OwnHolds DEF Grows
<1>4. CASE AssignDefault(h) \/ AssignURL(h) \/ AssignToken(h) \/ AssignFeed(h)
  <2>1. /\ UNCHANGED <<heap, tuning, own, job>>
        /\ \/ \E d : cfg' = [cfg EXCEPT !.default = d]
           \/ \E d : cfg' = [cfg EXCEPT !.url = d]
           \/ \E d : cfg' = [cfg EXCEPT !.token = d]
           \/ \E d : cfg' = [cfg EXCEPT !.feed = d]
    BY <1>4 DEF AssignDefault, AssignURL, AssignToken, AssignFeed, Elsewhere, engine
  <2>2. cfg'.printers = cfg.printers
    BY <2>1 DEF TypeInv, OwnConfig
  <2>3. QED
    BY <2>1, <2>2, OwnStays
<1>5. CASE CheckURL(h) \/ SaveOpen(h) \/ SaveWrite(h) \/ UpdateRoles(h)
  <2>1. UNCHANGED <<cfg, heap, tuning, own, job>>
    BY <1>5 DEF CheckURL, SaveOpen, SaveWrite, UpdateRoles, engine
  <2>2. QED
    BY <2>1, OwnStays
<1>6. QED
  BY <1>1, <1>2, <1>3, <1>4, <1>5 DEF Step

LEMMA JobOwn ==
  ASSUME TypeInv, OwnInv, (\E p \in Printer : TakeTuning(p)) \/ LookAtPrinter \/ JobDone
  PROVE  OwnInv'
<1>1. UNCHANGED <<cfg, heap, tuning, own>>
  BY DEF TakeTuning, LookAtPrinter, JobDone, engine
<1> DEFINE list == Shows(heap, job'.list)
<1>2. ASSUME job' # NoJob
      PROVE  /\ Override(list, job'.printer) \in own[job'.printer]
             /\ job'.found = -1 =>
                  \A k \in 1..job'.list.len : k < job'.i => list[k].name # job'.printer
             /\ job'.found # -1 => job'.found \in own[job'.printer]
  <2>1. ASSUME NEW p \in Printer, TakeTuning(p)
        PROVE  /\ Override(list, job'.printer) \in own[job'.printer]
               /\ job'.found = -1 /\ job'.i = 1
    BY <2>1 DEF TakeTuning, OwnInv
  <2>2. CASE LookAtPrinter
    <3> DEFINE l == job.list
               p == job.printer
               shown == Shows(heap, l)
    <3>1. /\ job # NoJob /\ job.found = -1 /\ job \in Searching /\ Valid(heap, l) /\ job.i # 0
          /\ job.i \in Nat /\ heap \in Seq(Seq(Managed))
      BY <2>2 DEF TypeInv, LookAtPrinter, Searching
    <3>2. /\ Override(shown, p) \in own[p]
          /\ \A k \in 1..l.len : k < job.i => shown[k].name # p
      BY <3>1 DEF OwnInv
    <3>3. /\ shown \in Seq(Managed) /\ DOMAIN shown = 1..l.len /\ l.len \in Nat
          /\ l # Nil => \A i \in 1..l.len : shown[i] = heap[l.arr][i]
      BY <3>1, ListIs
    <3> HIDE DEF shown
    <3>4. CASE job.i > l.len
      <4>1. job' = [job EXCEPT !.found = 0]
        BY <2>2, <3>4 DEF LookAtPrinter
      <4>2. \A k \in DOMAIN shown : shown[k].name # p
        BY <3>1, <3>2, <3>3, <3>4
      <4>3. 0 \in own[p]
        BY <3>2, <3>3, <4>2, OverrideIs
      <4>4. job'.list = l /\ job'.printer = p /\ job'.found = 0
        BY <3>1, <4>1 DEF Searching
      <4>5. QED
        BY <3>2, <4>3, <4>4 DEF shown
    <3>5. CASE ~ (job.i > l.len)
      <4> DEFINE n == job.i
                 mp == heap[l.arr][n]
      <4>1. n \in 1..l.len /\ l # Nil
        BY <3>1, <3>3, <3>5 DEF Nil
      <4>2. mp = shown[n]
        BY <3>3, <4>1
      <4>3. job' = IF mp.name = p THEN [job EXCEPT !.found = mp.feed]
                                  ELSE [job EXCEPT !.i = n + 1]
        BY <2>2, <3>5 DEF LookAtPrinter
      <4> HIDE DEF mp
      <4>4. CASE mp.name = p
        <5>1. job'.list = l /\ job'.printer = p /\ job'.found = mp.feed
          BY <3>1, <4>3, <4>4 DEF Searching
        <5>2. Override(shown, p) = shown[n].feed
          BY <3>2, <3>3, <4>1, <4>2, <4>4, OverrideIs
        <5>3. mp.feed \in 0..MaxFeed
          BY <3>3, <5>2, <4>2, OverrideIs
        <5>4. mp.feed # -1
          BY <5>3, PanelAssumption
        <5>5. QED
          BY <3>2, <4>2, <5>1, <5>2, <5>4 DEF shown
      <4>5. CASE mp.name # p
        <5>1. /\ job'.list = l /\ job'.printer = p /\ job'.found = -1 /\ job'.i = n + 1
          BY <3>1, <4>3, <4>5 DEF Searching
        <5>2. \A k \in 1..l.len : k < n + 1 => shown[k].name # p
          BY <3>1, <3>2, <3>3, <4>1, <4>2, <4>5
        <5>3. QED
          BY <3>2, <5>1, <5>2 DEF shown
      <4>6. QED
        BY <4>4, <4>5
    <3>6. QED
      BY <3>4, <3>5
  <2>3. CASE JobDone
    BY <1>2, <2>3 DEF JobDone
  <2>4. QED
    BY <2>1, <2>2, <2>3
<1>3. QED
  BY <1>1, <1>2 DEF OwnInv

LEMMA StartOwn ==
  ASSUME TypeInv, OwnInv, Start
  PROVE  OwnInv'
<1> DEFINE c == Load(file)
           list == [arr |-> 1, len |-> Len(c.printers)]
<1>1. /\ heap' = <<c.printers>> /\ cfg' = [c EXCEPT !.printers = list]
      /\ tuning' = [feed |-> c.feed, list |-> list] /\ job' = job
      /\ own' = [p \in Printer |-> {Override(c.printers, p)}]
      /\ file # Garbled /\ ~up
  BY DEF Start, handlers
<1>2. c \in Saved /\ job' = NoJob
  BY <1>1, LoadIs DEF TypeInv
<1> HIDE DEF c
<1>3. Shows(heap', list) = c.printers /\ cfg'.printers = list
  BY <1>1, <1>2, FreshIs
<1> HIDE DEF list
<1>4. tuning'.list = list
  BY <1>1
<1>5. QED
  BY <1>1, <1>2, <1>3, <1>4 DEF OwnInv

LEMMA InitOwn == Init => OwnInv
<1> SUFFICES ASSUME Init PROVE OwnInv
  OBVIOUS
<1> DEFINE list == [arr |-> 1, len |-> Len(Installed.printers)]
<1>1. /\ heap = <<Installed.printers>> /\ cfg = [Installed EXCEPT !.printers = list]
      /\ tuning = [feed |-> Installed.feed, list |-> list] /\ job = NoJob
      /\ own = [p \in Printer |-> {Override(Installed.printers, p)}]
  BY DEF Init
<1>2. Shows(heap, list) = Installed.printers /\ cfg.printers = list
  BY <1>1, FreshIs, PanelAssumption
<1> HIDE DEF list
<1>3. tuning.list = list
  BY <1>1
<1>4. QED
  BY <1>1, <1>2, <1>3 DEF OwnInv

\* A job never cuts with a calibration its own printer did not have since the process
\* started, whatever the handlers do to the list it is going through: upsertManaged and
\* removeManaged make a new array, and the list that is searched is never written.
THEOREM JobKeepsItsPrinter == Spec => []JobUsesOwnSetting
<1>1. TypeInv /\ OwnInv /\ [Next]_vars => OwnInv'
  <2> SUFFICES ASSUME TypeInv, OwnInv, [Next]_vars PROVE OwnInv'
    OBVIOUS
  <2>1. ASSUME NEW h \in Handler, Step(h) PROVE OwnInv'
    BY <2>1, StatementOwn
  <2>2. ASSUME NEW h \in Handler, NEW r \in Requests, Begin(h, r) PROVE OwnInv'
    BY <2>2, OwnStays DEF Begin, engine
  <2>3. CASE (\E p \in Printer : TakeTuning(p)) \/ LookAtPrinter \/ JobDone
    BY <2>3, JobOwn
  <2>4. CASE Exit
    BY <2>4 DEF Exit, engine, OwnInv
  <2>5. CASE Start
    BY <2>5, StartOwn
  <2>6. CASE UNCHANGED vars
    BY <2>6, OwnStays DEF vars, engine
  <2>7. QED
    BY <2>1, <2>2, <2>3, <2>4, <2>5, <2>6 DEF Next
<1>2. OwnInv => JobUsesOwnSetting
  <2>1. NoJob.found = -1
    BY DEF NoJob
  <2>2. QED
    BY <2>1 DEF OwnInv, JobUsesOwnSetting
<1>3. QED
  BY <1>1, <1>2, InitOwn, TypesKept, PTL DEF Spec

-----------------------------------------------------------------------------
(* Requests that do not overlap leave one configuration behind.            *)

\* At statement n of op something was assigned to cfg that is not yet in the file, in the
\* tuning of the engine, in the roles.
FileLate(op, n) ==
  /\ n > IF op \in {"manage", "remove"} THEN 2 ELSE 1
  /\ Steps(op)[n] \in {"tuning", "roles"} => op = "config"
TuningLate(op, n) ==
  \/ op \in {"manage", "remove"} /\ n > 2 /\ Steps(op)[n] # "roles"
  \/ op = "config" /\ Steps(op)[n] = "tuning"
RolesLate(op, n) ==
  \/ op \in {"manage", "remove"} /\ n > 2
  \/ op = "default" /\ n > 1

Assigns == {"assign", "default", "undefault", "url", "token", "feed"}

\* What is late stays late until the statement that sees to it, and no handler ends
\* before it; an assignment makes late what it concerns.
OrderOK(op, n) ==
  LET m == Len(Steps(op))
      step == Steps(op)[n]
  IN  /\ FileLate(op, n) /\ step # "write" => n < m /\ FileLate(op, n + 1)
      /\ TuningLate(op, n) /\ step # "tuning" => n < m /\ TuningLate(op, n + 1)
      /\ RolesLate(op, n) /\ step # "roles" => n < m /\ RolesLate(op, n + 1)
      /\ step \in Assigns \cup {"save"} => n < m /\ FileLate(op, n + 1)
      /\ step \in {"assign", "feed"} => TuningLate(op, n + 1)
      /\ step \in {"assign", "default", "undefault"} => RolesLate(op, n + 1)
      /\ op = "register" => ~ TuningLate(op, n) /\ ~ RolesLate(op, n)
      /\ op = "register" /\ step = "url" => ~ FileLate(op, n)
      /\ n < m => /\ Steps(op)[n + 1] = "write" => step = "save"
                  /\ Steps(op)[n + 1] = "roles" => step = "tuning"
                  /\ Steps(op)[n + 1] = "check" => step = "url" /\ op = "register"

LEMMA OrderIs ==
  ASSUME NEW op \in Op
  PROVE  /\ \A n \in 1..Len(Steps(op)) : OrderOK(op, n)
         /\ ~ FileLate(op, 1) /\ ~ TuningLate(op, 1) /\ ~ RolesLate(op, 1)
         /\ Steps(op)[1] \notin {"write", "roles", "check"}
<1>1. CASE op = "manage"
  BY <1>1 DEF Steps, OrderOK, FileLate, TuningLate, RolesLate, Assigns
<1>2. CASE op = "remove"
  BY <1>2 DEF Steps, OrderOK, FileLate, TuningLate, RolesLate, Assigns
<1>3. CASE op = "default"
  BY <1>3 DEF Steps, OrderOK, FileLate, TuningLate, RolesLate, Assigns
<1>4. CASE op = "config"
  BY <1>4 DEF Steps, OrderOK, FileLate, TuningLate, RolesLate, Assigns
<1>5. CASE op = "register"
  BY <1>5 DEF Steps, OrderOK, FileLate, TuningLate, RolesLate, Assigns
<1>6. CASE op = "unregister"
  BY <1>6 DEF Steps, OrderOK, FileLate, TuningLate, RolesLate, Assigns
<1>7. QED
  BY <1>1, <1>2, <1>3, <1>4, <1>5, <1>6 DEF Op

Whole(hp, c) == [c EXCEPT !.printers = Shows(hp, c.printers)]

FileAgrees == Load(file) = Whole(heap, cfg)
TuningAgrees == tuning = [feed |-> cfg.feed, list |-> cfg.printers]
RolesAgree == roles = [printers |-> Shows(heap, cfg.printers), default |-> cfg.default]

\* What a handler answers for at its statement.
Settling(h) ==
  at[h] # 0 =>
    LET step == Steps(req[h].op)[at[h]]
    IN  /\ step = "write" => file = Empty /\ snap[h] = Whole(heap, cfg)
        /\ step = "roles" => snap[h] = Whole(heap, cfg)
        /\ step = "check" => FileAgrees \/ cfg.url # None

FileBehind(h) == at[h] # 0 /\ FileLate(req[h].op, at[h])
TuningBehind(h) == at[h] # 0 /\ TuningLate(req[h].op, at[h])
RolesBehind(h) == at[h] # 0 /\ RolesLate(req[h].op, at[h])

\* One request at a time, and what does not agree is what that request still has to do.
SettledInv ==
  up /\ alone /\ saved =>
    /\ \A g, h \in Handler : at[g] # 0 /\ at[h] # 0 => g = h
    /\ (\E h \in Handler : FileBehind(h)) \/ FileAgrees
    /\ (\E h \in Handler : TuningBehind(h)) \/ TuningAgrees
    /\ (\E h \in Handler : RolesBehind(h)) \/ RolesAgree
    /\ \A h \in Handler : Settling(h)

LEMMA SettledInvIs == TypeInv /\ SettledInv => SettledAgrees
<1> SUFFICES ASSUME TypeInv, SettledInv, up, alone, saved, \A h \in Handler : at[h] = 0
             PROVE  /\ Load(file) = Value(cfg)
                    /\ tuning = [feed |-> cfg.feed, list |-> cfg.printers]
                    /\ roles = [printers |-> Value(cfg).printers, default |-> cfg.default]
  BY DEF SettledAgrees
<1>1. FileAgrees /\ TuningAgrees /\ RolesAgree
  BY DEF SettledInv, FileBehind, TuningBehind, RolesBehind
<1>2. Deref(cfg.printers) = Shows(heap, cfg.printers)
  BY DerefIs
<1>3. Value(cfg) = Whole(heap, cfg)
  BY <1>2 DEF Value, Whole
<1>4. Value(cfg).printers = Shows(heap, cfg.printers)
  BY <1>2, ConfigIs DEF TypeInv
<1>5. QED
  BY <1>1, <1>3, <1>4 DEF FileAgrees, TuningAgrees, RolesAgree

\* Where a handler is after a statement that met no error.
Onward(h) ==
  LET op == req[h].op
      step == Steps(op)[at[h]]
  IN  /\ FileLate(op, at[h]) /\ step # "write" => FileBehind(h)'
      /\ TuningLate(op, at[h]) /\ step # "tuning" => TuningBehind(h)'
      /\ RolesLate(op, at[h]) /\ step # "roles" => RolesBehind(h)'
      /\ step \in Assigns \cup {"save"} => FileBehind(h)'
      /\ step \in {"assign", "feed"} => TuningBehind(h)'
      /\ step \in {"assign", "default", "undefault"} => RolesBehind(h)'
      /\ at'[h] # 0 =>
           LET next == Steps(req'[h].op)[at'[h]]
           IN  /\ next = "write" => step = "save"
               /\ next = "roles" => step = "tuning"
               /\ next = "check" => step = "url" /\ op = "register"

LEMMA OnwardIs ==
  ASSUME TypeInv, NEW h \in Handler, at[h] # 0, NEW ch, Advance(h, ch)
  PROVE  Onward(h)
<1> DEFINE op == req[h].op
           n == at[h]
           m == Len(Steps(op))
<1>1. op \in Op /\ n \in 1..m /\ m \in 2..7
  BY HandlerIs
<1>2. OrderOK(op, n)
  BY <1>1, OrderIs
<1>3. at \in [Handler -> 0..7] /\ req \in [Handler -> Asked \cup {Absent}]
  BY DEF TypeInv
<1>4. CASE n < m
  <2>1. at'[h] = n + 1 /\ req'[h] = req[h] /\ at'[h] # 0
    BY <1>1, <1>3, <1>4 DEF Advance
  <2>2. QED
    BY <1>2, <1>4, <2>1 DEF OrderOK, Onward, FileBehind, TuningBehind, RolesBehind
<1>5. CASE ~ (n < m)
  <2>1. at'[h] = 0
    BY <1>3, <1>5 DEF Advance
  <2>2. QED
    BY <1>2, <1>5, <2>1 DEF OrderOK, Onward, Assigns
<1>6. QED
  BY <1>4, <1>5

\* What the other handlers are not there to disturb.
LEMMA SettledHolds ==
  ASSUME NEW h \in Handler, Moved(h), \A g \in Handler \ {h} : at[g] = 0,
         FileBehind(h)' \/ FileAgrees', TuningBehind(h)' \/ TuningAgrees',
         RolesBehind(h)' \/ RolesAgree', Settling(h)'
  PROVE  SettledInv'
<1>1. \A g \in Handler \ {h} : at'[g] = 0
  BY DEF Moved
<1>2. \A g \in Handler : Settling(g)'
  BY <1>1 DEF Settling
<1>3. QED
  BY <1>1, <1>2 DEF SettledInv

LEMMA StatementSettled ==
  ASSUME TypeInv, SettledInv, NEW h \in Handler, Step(h)
  PROVE  SettledInv'
<1>1. at[h] # 0 /\ up /\ (saved' => saved) /\ up' = up /\ alone' = alone
  BY DEF Step, ReadPrinters, AssignPrinters, AssignDefault, AssignURL, CheckURL, AssignToken,
     AssignFeed, SaveOpen, SaveWrite, ApplyTuning, UpdateRoles, Elsewhere, At
<1>2. SUFFICES ASSUME alone, saved, saved' PROVE SettledInv'
  BY <1>1 DEF SettledInv
<1> DEFINE r == req[h]
           op == r.op
           n == at[h]
           step == Steps(op)[n]
<1>3. \A g \in Handler \ {h} : at[g] = 0
  BY <1>1, <1>2 DEF SettledInv
<1>4. /\ FileLate(op, n) \/ FileAgrees
      /\ TuningLate(op, n) \/ TuningAgrees
      /\ RolesLate(op, n) \/ RolesAgree
      /\ Settling(h)
  BY <1>1, <1>2, <1>3 DEF SettledInv, FileBehind, TuningBehind, RolesBehind
<1>5. /\ r \in Asked /\ op \in Op /\ n \in 1..Len(Steps(op)) /\ cfg \in OwnConfig
      /\ Valid(heap, cfg.printers)
  BY <1>1, HandlerIs DEF TypeInv
<1>6. OrderOK(op, n) /\ (step = "check" => op = "register")
      /\ (step \in {"url", "token"} => op \in {"config", "register", "unregister"})
  BY <1>5, OrderIs, StepsAre
<1>7. \A ch : Advance(h, ch) => Onward(h)
  BY <1>1, OnwardIs
<1>8. \A ch \in BOOLEAN : \A s : At(h, s) /\ Advance(h, ch) => Moved(h)
  BY <1>1, AdvanceIs
<1>9. Value(cfg) = Whole(heap, cfg) /\ Value(cfg) \in Saved /\ changed[h] \in BOOLEAN
      /\ Value(cfg).printers = Shows(heap, cfg.printers) /\ Value(cfg).default = cfg.default
  BY <1>5, ConfigIs, DerefIs DEF Value, Whole, TypeInv
<1>10. CASE ReadPrinters(h)
  <2>1. /\ step = "read" /\ At(h, "read") /\ Advance(h, changed[h]) /\ Grows
        /\ UNCHANGED <<cfg, file, tuning, roles, snap>>
    BY <1>10, ReadIs DEF ReadPrinters, At, Grows, engine
  <2>2. Moved(h) /\ Onward(h)
    BY <1>7, <1>8, <1>9, <2>1
  <2>3. Shows(heap', cfg.printers) = Shows(heap, cfg.printers)
    BY <1>5, <2>1, GrowsIs
  <2>4. Settling(h)'
    BY <2>1, <2>2 DEF Settling, Onward
  <2>5. FileAgrees => FileAgrees'
    BY <2>1, <2>3 DEF FileAgrees, Whole
  <2>6. TuningAgrees => TuningAgrees'
    BY <2>1 DEF TuningAgrees
  <2>7. RolesAgree => RolesAgree'
    BY <2>1, <2>3 DEF RolesAgree
  <2>8. QED
    BY <1>3, <1>4, <2>1, <2>2, <2>4, <2>5, <2>6, <2>7, SettledHolds DEF Onward
<1>11. CASE AssignPrinters(h)
  <2>1. step = "assign" /\ At(h, "assign") /\ Advance(h, changed[h])
    BY <1>11 DEF AssignPrinters, At
  <2>2. Moved(h) /\ Onward(h)
    BY <1>7, <1>8, <1>9, <2>1
  <2>3. Settling(h)'
    BY <2>1, <2>2 DEF Settling, Onward
  <2>4. FileBehind(h)' /\ TuningBehind(h)' /\ RolesBehind(h)'
    BY <2>1, <2>2 DEF Onward, Assigns
  <2>5. QED
    BY <1>3, <2>2, <2>3, <2>4, SettledHolds
<1>12. CASE AssignDefault(h)
  <2>1. /\ step \in {"default", "undefault"} /\ At(h, step) /\ Advance(h, changed[h])
        /\ \E d : cfg' = [cfg EXCEPT !.default = d]
        /\ UNCHANGED tuning
    BY <1>12 DEF AssignDefault, At, Elsewhere, engine
  <2>2. Moved(h) /\ Onward(h)
    BY <1>7, <1>8, <1>9, <2>1
  <2>3. Settling(h)'
    BY <2>1, <2>2 DEF Settling, Onward
  <2>4. FileBehind(h)' /\ RolesBehind(h)'
    BY <2>1, <2>2 DEF Onward, Assigns
  <2>5. cfg'.feed = cfg.feed /\ cfg'.printers = cfg.printers
    BY <1>5, <2>1 DEF OwnConfig
  <2>6. TuningAgrees => TuningAgrees'
    BY <2>1, <2>5 DEF TuningAgrees
  <2>7. QED
    BY <1>3, <1>4, <2>1, <2>2, <2>3, <2>4, <2>6, SettledHolds DEF Onward
<1>13. CASE AssignURL(h)
  <2> DEFINE url == IF op = "unregister" THEN None ELSE r.url
             ch == changed[h] \/ cfg'.url # cfg.url
             new == IF url = Absent THEN cfg.url ELSE url
  <2>1. /\ step = "url" /\ At(h, "url") /\ Advance(h, ch)
        /\ cfg' = [cfg EXCEPT !.url = new]
        /\ UNCHANGED <<heap, file, tuning, roles>>
    BY <1>13 DEF AssignURL, At, Elsewhere, engine
  <2>2. Moved(h) /\ Onward(h)
    <3> HIDE DEF ch
    <3>1. ch \in BOOLEAN
      BY <1>9 DEF ch
    <3>2. QED
      BY <1>7, <1>8, <2>1, <3>1
  <2>3. /\ cfg'.feed = cfg.feed /\ cfg'.printers = cfg.printers /\ cfg'.default = cfg.default
        /\ cfg'.url = new
    BY <1>5, <2>1 DEF OwnConfig
  <2>4. (TuningAgrees => TuningAgrees') /\ (RolesAgree => RolesAgree')
    BY <2>1, <2>3 DEF TuningAgrees, RolesAgree
  <2>5. FileBehind(h)'
    BY <2>1, <2>2 DEF Onward, Assigns
  <2>6. op = "register" => FileAgrees' \/ cfg'.url # None
    <3>1. SUFFICES ASSUME op = "register" PROVE FileAgrees' \/ cfg'.url # None
      OBVIOUS
    <3>2. FileAgrees /\ r.url # None
      BY <1>4, <1>5, <1>6, <2>1, <3>1, AskedIs DEF OrderOK
    <3>3. CASE r.url = Absent
      <4>1. cfg' = cfg
        BY <1>5, <2>1, <3>1, <3>3 DEF OwnConfig
      <4>2. QED
        BY <2>1, <3>2, <4>1 DEF FileAgrees
    <3>4. CASE r.url # Absent
      BY <2>3, <3>1, <3>2, <3>4
    <3>5. QED
      BY <3>3, <3>4
  <2>7. Settling(h)'
    BY <2>1, <2>2, <2>6 DEF Settling, Onward
  <2> HIDE DEF ch, new, url
  <2>8. QED
    BY <1>3, <1>4, <2>1, <2>2, <2>4, <2>5, <2>7, SettledHolds DEF Onward
<1>14. CASE AssignToken(h)
  <2> DEFINE ch == changed[h] \/ cfg'.token # cfg.token
  <2>1. /\ step = "token" /\ At(h, "token") /\ Advance(h, ch)
        /\ \E d : cfg' = [cfg EXCEPT !.token = d]
        /\ UNCHANGED <<heap, file, tuning, roles>>
    BY <1>14 DEF AssignToken, At, Elsewhere, engine
  <2>2. Moved(h) /\ Onward(h)
    <3> HIDE DEF ch
    <3>1. ch \in BOOLEAN
      BY <1>9 DEF ch
    <3>2. QED
      BY <1>7, <1>8, <2>1, <3>1
  <2> HIDE DEF ch
  <2>3. cfg'.feed = cfg.feed /\ cfg'.printers = cfg.printers /\ cfg'.default = cfg.default
    BY <1>5, <2>1 DEF OwnConfig
  <2>4. (TuningAgrees => TuningAgrees') /\ (RolesAgree => RolesAgree')
    BY <2>1, <2>3 DEF TuningAgrees, RolesAgree
  <2>5. FileBehind(h)' /\ Settling(h)'
    BY <2>1, <2>2 DEF Onward, Assigns, Settling
  <2>6. QED
    BY <1>3, <1>4, <2>1, <2>2, <2>4, <2>5, SettledHolds DEF Onward
<1>15. CASE AssignFeed(h)
  <2>1. /\ step = "feed" /\ At(h, "feed") /\ Advance(h, changed[h])
        /\ \E d : cfg' = [cfg EXCEPT !.feed = d]
        /\ UNCHANGED <<heap, roles>>
    BY <1>15 DEF AssignFeed, At, Elsewhere, engine
  <2>2. Moved(h) /\ Onward(h)
    BY <1>7, <1>8, <1>9, <2>1
  <2>3. cfg'.printers = cfg.printers /\ cfg'.default = cfg.default
    BY <1>5, <2>1 DEF OwnConfig
  <2>4. RolesAgree => RolesAgree'
    BY <2>1, <2>3 DEF RolesAgree
  <2>5. FileBehind(h)' /\ TuningBehind(h)' /\ Settling(h)'
    BY <2>1, <2>2 DEF Onward, Assigns, Settling
  <2>6. QED
    BY <1>3, <1>4, <2>1, <2>2, <2>4, <2>5, SettledHolds DEF Onward
<1>16. CASE CheckURL(h)
  <2>1. /\ step = "check" /\ At(h, "check")
        /\ IF cfg.url = None THEN Refuse(h) ELSE Advance(h, changed[h])
        /\ UNCHANGED <<cfg, heap, file, tuning, roles>>
    BY <1>16 DEF CheckURL, At, engine
  <2>2. /\ FileAgrees => FileAgrees'
        /\ TuningAgrees => TuningAgrees'
        /\ RolesAgree => RolesAgree'
    BY <2>1 DEF FileAgrees, TuningAgrees, RolesAgree
  <2>3. TuningAgrees /\ RolesAgree
    BY <1>4, <1>6, <2>1 DEF OrderOK
  <2>4. CASE cfg.url = None
    <3>1. FileAgrees
      BY <1>1, <1>4, <2>1, <2>4 DEF Settling
    <3>2. Moved(h) /\ at'[h] = 0
      BY <1>1, <2>1, <2>4, RefuseIs DEF Refuse, TypeInv
    <3>3. Settling(h)'
      BY <3>2 DEF Settling
    <3>4. QED
      BY <1>3, <2>2, <2>3, <3>1, <3>2, <3>3, SettledHolds
  <2>5. CASE cfg.url # None
    <3>1. Moved(h) /\ Onward(h)
      BY <1>7, <1>8, <1>9, <2>1, <2>5
    <3>2. Settling(h)'
      BY <2>1, <3>1 DEF Settling, Onward
    <3>3. QED
      BY <1>3, <1>4, <2>1, <2>2, <2>3, <3>1, <3>2, SettledHolds DEF Onward
  <2>6. QED
    BY <2>4, <2>5
<1>17. CASE SaveOpen(h)
  <2>1. /\ step = "save" /\ At(h, "save") /\ Advance(h, changed[h])
        /\ snap' = [snap EXCEPT ![h] = Value(cfg)] /\ file' = Empty
        /\ UNCHANGED <<cfg, heap, tuning, roles>>
    BY <1>2, <1>17 DEF SaveOpen, At, engine
  <2>2. Moved(h) /\ Onward(h)
    BY <1>7, <1>8, <1>9, <2>1
  <2>3. (TuningAgrees => TuningAgrees') /\ (RolesAgree => RolesAgree')
    BY <2>1 DEF TuningAgrees, RolesAgree
  <2>4. FileBehind(h)'
    BY <2>1, <2>2 DEF Onward
  <2>5. snap'[h] = Whole(heap', cfg')
    BY <1>9, <2>1 DEF TypeInv
  <2>6. Settling(h)'
    BY <2>1, <2>2, <2>5 DEF Settling, Onward
  <2>7. QED
    BY <1>3, <1>4, <2>1, <2>2, <2>3, <2>4, <2>6, SettledHolds DEF Onward
<1>18. CASE SaveWrite(h)
  <2>1. /\ step = "write" /\ At(h, "write") /\ Advance(h, changed[h])
        /\ file' \in IF file \in {Empty, snap[h]} THEN {snap[h]} ELSE {snap[h], Garbled}
        /\ UNCHANGED <<cfg, heap, tuning, roles>>
    BY <1>2, <1>18 DEF SaveWrite, At, engine
  <2>2. Moved(h) /\ Onward(h)
    BY <1>7, <1>8, <1>9, <2>1
  <2>3. (TuningAgrees => TuningAgrees') /\ (RolesAgree => RolesAgree')
    BY <2>1 DEF TuningAgrees, RolesAgree
  <2>4. file' = Whole(heap, cfg) /\ file' \in Saved
    BY <1>1, <1>4, <1>9, <2>1 DEF Settling
  <2>5. FileAgrees'
    <3>1. file' # Empty
      BY <2>4, PanelAssumption
    <3>2. QED
      BY <2>1, <2>4, <3>1 DEF FileAgrees, Load
  <2>6. Settling(h)'
    BY <2>1, <2>2 DEF Settling, Onward
  <2>7. QED
    BY <1>3, <1>4, <2>1, <2>2, <2>3, <2>5, <2>6, SettledHolds DEF Onward
<1>19. CASE ApplyTuning(h)
  <2>1. /\ step = "tuning" /\ At(h, "tuning") /\ Advance(h, changed[h])
        /\ tuning' = [feed |-> cfg.feed, list |-> cfg.printers]
        /\ snap' = [snap EXCEPT ![h] = Value(cfg)]
        /\ UNCHANGED <<cfg, heap, file, roles>>
    BY <1>19 DEF ApplyTuning, At
  <2>2. Moved(h) /\ Onward(h)
    BY <1>7, <1>8, <1>9, <2>1
  <2>3. (FileAgrees => FileAgrees') /\ (RolesAgree => RolesAgree') /\ TuningAgrees'
    BY <2>1 DEF TuningAgrees, RolesAgree, FileAgrees
  <2>4. snap'[h] = Whole(heap', cfg')
    BY <1>9, <2>1 DEF TypeInv
  <2>5. Settling(h)'
    BY <2>1, <2>2, <2>4 DEF Settling, Onward
  <2>6. QED
    BY <1>3, <1>4, <2>1, <2>2, <2>3, <2>5, SettledHolds DEF Onward
<1>20. CASE UpdateRoles(h)
  <2>1. /\ step = "roles" /\ At(h, "roles") /\ Advance(h, changed[h])
        /\ roles' = [printers |-> snap[h].printers, default |-> snap[h].default]
        /\ UNCHANGED <<cfg, heap, file, tuning>>
    BY <1>20 DEF UpdateRoles, At
  <2>2. Moved(h) /\ Onward(h)
    BY <1>7, <1>8, <1>9, <2>1
  <2>3. (FileAgrees => FileAgrees') /\ (TuningAgrees => TuningAgrees')
    BY <2>1 DEF TuningAgrees, FileAgrees
  <2>4. snap[h] = Value(cfg)
    BY <1>1, <1>4, <1>9, <2>1 DEF Settling
  <2>5. RolesAgree'
    BY <1>9, <2>1, <2>4 DEF RolesAgree
  <2>6. Settling(h)'
    BY <2>1, <2>2 DEF Settling, Onward
  <2>7. QED
    BY <1>3, <1>4, <2>1, <2>2, <2>3, <2>5, <2>6, SettledHolds DEF Onward
<1>21. QED
  BY <1>10, <1>11, <1>12, <1>13, <1>14, <1>15, <1>16, <1>17, <1>18, <1>19, <1>20 DEF Step

\* Between requests nothing has to be done any more.
LEMMA BeginSettled ==
  ASSUME TypeInv, SettledInv, NEW h \in Handler, NEW r \in Requests, Begin(h, r)
  PROVE  SettledInv'
<1> DEFINE new == IF readOnly /\ r.op = "config" THEN [r EXCEPT !.url = Absent] ELSE r
<1>1. /\ up /\ req' = [req EXCEPT ![h] = new] /\ at' = [at EXCEPT ![h] = 1]
      /\ alone' = (alone /\ \A g \in Handler : at[g] = 0)
      /\ UNCHANGED <<up, cfg, heap, file, tuning, roles, saved>>
  BY DEF Begin, engine
<1>2. SUFFICES ASSUME alone', saved' PROVE SettledInv'
  BY DEF SettledInv
<1>3. \A g \in Handler : at[g] = 0
  BY <1>1, <1>2
<1>4. FileAgrees /\ TuningAgrees /\ RolesAgree
  BY <1>1, <1>2, <1>3 DEF SettledInv, FileBehind, TuningBehind, RolesBehind
<1>5. FileAgrees' /\ TuningAgrees' /\ RolesAgree'
  BY <1>1, <1>4 DEF FileAgrees, TuningAgrees, RolesAgree
<1>6. new \in Asked
  BY DEF Asked
<1> HIDE DEF new
<1>7. Steps(new.op)[1] \notin {"write", "roles", "check"}
  BY <1>6, AskedIs, OrderIs DEF Op
<1>8. at'[h] = 1 /\ req'[h] = new /\ \A g \in Handler \ {h} : at'[g] = 0
  BY <1>1, <1>3 DEF TypeInv
<1>9. \A g \in Handler : Settling(g)'
  BY <1>7, <1>8 DEF Settling
<1>10. QED
  BY <1>5, <1>8, <1>9 DEF SettledInv

\* A process starts from the file, or is installed with it.
LEMMA WholeIs ==
  ASSUME NEW c \in Saved, NEW hp, hp = <<c.printers>>
  PROVE  LET list == [arr |-> 1, len |-> Len(c.printers)]
             mine == [c EXCEPT !.printers = list]
         IN  /\ Whole(hp, mine) = c /\ mine.feed = c.feed /\ mine.printers = list
             /\ mine.default = c.default
<1> DEFINE list == [arr |-> 1, len |-> Len(c.printers)]
           d == [c EXCEPT !.printers = list]
<1>1. Shows(hp, list) = c.printers
  BY FreshIs
<1> HIDE DEF list
<1>2. d.printers = list /\ d.feed = c.feed /\ d.default = c.default
  BY DEF Saved
<1>3. [d EXCEPT !.printers = c.printers] = c
  BY DEF Saved
<1>4. QED
  BY <1>1, <1>2, <1>3 DEF Whole, list

LEMMA StartSettled ==
  ASSUME TypeInv, Start
  PROVE  SettledInv'
<1> DEFINE c == Load(file)
           list == [arr |-> 1, len |-> Len(c.printers)]
<1>1. /\ ~up /\ heap' = <<c.printers>> /\ cfg' = [c EXCEPT !.printers = list]
      /\ tuning' = [feed |-> c.feed, list |-> list]
      /\ roles' = [printers |-> c.printers, default |-> c.default]
      /\ UNCHANGED <<file, at>> /\ file # Garbled
  BY DEF Start, handlers
<1>2. c \in Saved
  BY <1>1, LoadIs DEF TypeInv
<1>3. \A h \in Handler : at'[h] = 0
  BY <1>1 DEF TypeInv, HandlerOK
<1>4. FileAgrees' /\ TuningAgrees' /\ RolesAgree'
  <2>1. Load(file') = c
    BY <1>1
  <2> HIDE DEF c
  <2>2. Shows(heap', list) = c.printers
    BY <1>1, <1>2, FreshIs
  <2>3. /\ Whole(heap', cfg') = c /\ cfg'.feed = c.feed /\ cfg'.printers = list
        /\ cfg'.default = c.default
    BY <1>1, <1>2, WholeIs
  <2>4. QED
    BY <1>1, <2>1, <2>2, <2>3 DEF FileAgrees, TuningAgrees, RolesAgree
<1>5. QED
  BY <1>3, <1>4 DEF SettledInv, Settling

LEMMA InitSettled == Init => SettledInv
<1> SUFFICES ASSUME Init PROVE SettledInv
  OBVIOUS
<1> DEFINE c == Installed
           list == [arr |-> 1, len |-> Len(c.printers)]
<1>1. /\ heap = <<c.printers>> /\ cfg = [c EXCEPT !.printers = list]
      /\ tuning = [feed |-> c.feed, list |-> list] /\ file = c
      /\ roles = [printers |-> c.printers, default |-> c.default]
      /\ \A h \in Handler : at[h] = 0
  BY DEF Init
<1>2. c \in Saved /\ Load(c) = c
  BY PanelAssumption DEF Load
<1>3. FileAgrees /\ TuningAgrees /\ RolesAgree
  <2> HIDE DEF c
  <2>1. Shows(heap, list) = c.printers
    BY <1>1, <1>2, FreshIs
  <2>2. /\ Whole(heap, cfg) = c /\ cfg.feed = c.feed /\ cfg.printers = list
        /\ cfg.default = c.default
    BY <1>1, <1>2, WholeIs
  <2>3. QED
    BY <1>1, <1>2, <2>1, <2>2 DEF FileAgrees, TuningAgrees, RolesAgree
<1>4. QED
  BY <1>1, <1>3 DEF SettledInv, Settling

LEMMA SettledStays ==
  ASSUME SettledInv,
         UNCHANGED <<up, alone, saved, at, req, snap, cfg, heap, file, tuning, roles>>
  PROVE  SettledInv'
BY DEF SettledInv, Settling, FileBehind, TuningBehind, RolesBehind, FileAgrees, TuningAgrees,
   RolesAgree

\* When requests did not overlap and no save failed, file, panel and engine hold the same
\* configuration between two of them: every handler saves and applies, after its last
\* assignment, all it changed, and one that refuses has changed nothing.
THEOREM RequestsSettle == Spec => []SettledAgrees
<1>1. TypeInv /\ SettledInv /\ [Next]_vars => SettledInv'
  <2> SUFFICES ASSUME TypeInv, SettledInv, [Next]_vars PROVE SettledInv'
    OBVIOUS
  <2>1. ASSUME NEW h \in Handler, Step(h) PROVE SettledInv'
    BY <2>1, StatementSettled
  <2>2. ASSUME NEW h \in Handler, NEW r \in Requests, Begin(h, r) PROVE SettledInv'
    BY <2>2, BeginSettled
  <2>3. CASE (\E p \in Printer : TakeTuning(p)) \/ LookAtPrinter \/ JobDone
    BY <2>3, SettledStays DEF TakeTuning, LookAtPrinter, JobDone, engine, handlers
  <2>4. CASE Exit
    BY <2>4 DEF Exit, SettledInv
  <2>5. CASE Start
    BY <2>5, StartSettled
  <2>6. CASE UNCHANGED vars
    BY <2>6, SettledStays DEF vars, engine, handlers
  <2>7. QED
    BY <2>1, <2>2, <2>3, <2>4, <2>5, <2>6 DEF Next
<1>2. QED
  BY <1>1, SettledInvIs, InitSettled, TypesKept, PTL DEF Spec
====
