---------------------------- MODULE MemeDlProofs ----------------------------
(***************************************************************************)
(* Theorems about the source of memes, for every number of urls a fetch    *)
(* yields and any number of memes posted, failing fetches and downloads    *)
(* included.                                                               *)
(***************************************************************************)
EXTENDS MemeDl, TLAPS, WellFoundedInduction, SequenceTheorems

(* Induction without an operator parameter: a set of natural numbers that  *)
(* has 0, and the successor of each of its numbers, has them all.          *)
LEMMA InductiveSet ==
  ASSUME NEW S, 0 \in S, \A i \in Nat : i \in S => i + 1 \in S
  PROVE  Nat \subseteq S
<1> DEFINE T == Nat \ S
<1> SUFFICES ASSUME T # {} PROVE FALSE
  OBVIOUS
<1>1. IsWellFoundedOn(OpToRel(<, Nat), Nat)
  BY NatLessThanWellFounded
<1>2. PICK m \in T : \A x \in T : ~(<<x, m>> \in OpToRel(<, Nat))
  BY <1>1, WFMin
<1>3. m \in Nat /\ m \notin S /\ m - 1 \in Nat /\ m - 1 < m
  OBVIOUS
<1>4. <<m - 1, m>> \in OpToRel(<, Nat)
  BY <1>3, Zenon DEF OpToRel
<1>5. m - 1 \in S
  <2>1. m - 1 \notin T
    BY <1>2, <1>4, Zenon
  <2> QED
    BY <1>3, <2>1
<1>6. (m - 1) + 1 = m
  BY <1>3
<1> QED
  BY <1>3, <1>5, <1>6

-----------------------------------------------------------------------------
(* Pushing the elements of a list one after the other gives the list.      *)
LEMMA PushedIs ==
  ASSUME NEW S, NEW urls \in Seq(S)
  PROVE  Pushed(urls) = urls
<1> DEFINE n == Len(urls)
           step(q) == [i \in 0..n |-> IF i = 0 THEN <<>> ELSE string_queue_push(urls[i], q[i - 1])]
           queue == CHOOSE q : q = step(q)
           w == [i \in 0..n |-> SubSeq(urls, 1, i)]
<1>1. n \in Nat
  OBVIOUS
<1>2. \A i \in 1..n : SubSeq(urls, 1, i) = Append(SubSeq(urls, 1, i - 1), urls[i])
  OBVIOUS
<1>3. w = step(w)
  <2>1. \A i \in 0..n : w[i] = step(w)[i]
    <3> TAKE i \in 0..n
    <3>1. CASE i = 0
      BY <3>1, <1>1
    <3>2. CASE i # 0
      BY <3>2, <1>1, <1>2 DEF string_queue_push
    <3> QED
      BY <3>1, <3>2
  <2> QED
    BY <2>1
<1>4. queue = step(queue)
  <2> HIDE DEF w, step
  <2> QED
    BY <1>3
<1> HIDE DEF queue
<1>5. \A i \in Nat : i <= n => queue[i] = SubSeq(urls, 1, i)
  <2> DEFINE T == {i \in Nat : i <= n => queue[i] = SubSeq(urls, 1, i)}
  <2>1. 0 \in T
    BY <1>1, <1>4
  <2>2. ASSUME NEW i \in Nat, i \in T PROVE i + 1 \in T
    <3> SUFFICES ASSUME i + 1 <= n PROVE queue[i + 1] = SubSeq(urls, 1, i + 1)
      OBVIOUS
    <3>1. queue[i] = SubSeq(urls, 1, i)
      BY <1>1, <2>2
    <3>2. queue[i + 1] = Append(queue[i], urls[i + 1])
      BY <1>1, <1>4, SMTT(30) DEF string_queue_push
    <3> QED
      BY <1>1, <1>2, <3>1, <3>2
  <2>3. Nat \subseteq T
    <3> HIDE DEF T
    <3> QED
      BY <2>1, <2>2, InductiveSet
  <2> QED
    BY <2>3
<1>6. queue[n] = urls
  <2>1. SubSeq(urls, 1, n) = urls
    BY SubSeqFull
  <2> QED
    BY <1>1, <1>5, <2>1
<1> QED
  BY <1>6 DEF Pushed, queue

-----------------------------------------------------------------------------
(* The queue q is the end of the fetched list f, and what came before it   *)
(* was handed out last (h).                                                *)
Order(q, f, h) ==
  LET used == Len(f) - Len(q)
  IN q # <<>> =>
       /\ used >= 0 /\ used <= Len(h)
       /\ \A i \in 1..Len(q) : q[i] = f[used + i]
       /\ \A i \in 1..used : h[Len(h) - used + i] = f[i]

(* No url was handed out twice, or is both queued and handed out; all that *)
(* were handed out are older than the last fetch or of it.                 *)
Fresh(q, f, h) ==
  /\ \A i, j \in 1..Len(h) : h[i] = h[j] => i = j
  /\ \A i, j \in 1..Len(q) : q[i] = q[j] => i = j
  /\ \A i \in 1..Len(q), j \in 1..Len(h) : q[i] # h[j]
  /\ \A i \in 1..Len(q) : \E k \in 1..Len(f) : q[i] = f[k]
  /\ \A j \in 1..Len(h) :
       \/ \E k \in 1..Len(f) : h[j] = f[k]
       \/ f # <<>> /\ \A k \in 1..Len(f) : h[j] < f[k]

LEMMA PopOrder ==
  ASSUME NEW S, NEW q \in Seq(S), NEW f \in Seq(S), NEW h \in Seq(S),
         q # <<>>, Order(q, f, h)
  PROVE  Order(Tail(q), f, Append(h, Head(q)))
<1> DEFINE t == Tail(q)
           a == Append(h, Head(q))
           u == Len(f) - Len(q)
<1>1. /\ Len(t) = Len(q) - 1 /\ \A i \in 1..Len(t) : t[i] = q[i + 1]
      /\ Len(q) \in Nat \ {0} /\ Len(f) \in Nat /\ Len(h) \in Nat
      /\ Head(q) = q[1]
  BY HeadTailProperties
<1>2. /\ Len(a) = Len(h) + 1 /\ a[Len(h) + 1] = q[1]
      /\ \A i \in 1..Len(h) : a[i] = h[i]
  BY <1>1, AppendProperties
<1> HIDE DEF t, a
<1>3. /\ u >= 0 /\ u <= Len(h)
      /\ \A i \in 1..Len(q) : q[i] = f[u + i]
      /\ \A i \in 1..u : h[Len(h) - u + i] = f[i]
  BY DEF Order
<1>4. Len(f) - Len(t) = u + 1
  BY <1>1
<1>5. \A i \in 1..Len(t) : t[i] = f[(u + 1) + i]
  BY <1>1, <1>3
<1>6. \A i \in 1..(u + 1) : a[Len(a) - (u + 1) + i] = f[i]
  <2> TAKE i \in 1..(u + 1)
  <2>1. CASE i = u + 1
    <3>1. Len(a) - (u + 1) + i = Len(h) + 1 /\ 1 \in 1..Len(q)
      BY <1>1, <1>2, <2>1
    <3>2. a[Len(h) + 1] = f[u + 1]
      BY <1>2, <1>3, <3>1
    <3> QED
      BY <2>1, <3>1, <3>2
  <2>2. CASE i \in 1..u
    <3>1. Len(a) - (u + 1) + i = Len(h) - u + i /\ Len(h) - u + i \in 1..Len(h)
      BY <1>1, <1>2, <1>3, <2>2
    <3> QED
      BY <1>2, <1>3, <2>2, <3>1
  <2>3. u \in Nat
    BY <1>1, <1>3
  <2> HIDE DEF u
  <2> QED
    BY <2>1, <2>2, <2>3
<1>7. Order(t, f, a)
  BY <1>1, <1>2, <1>3, <1>4, <1>5, <1>6 DEF Order
<1> QED
  BY <1>7 DEF t, a

LEMMA PopFresh ==
  ASSUME NEW S, S \subseteq Nat, NEW q \in Seq(S), NEW f \in Seq(S), NEW h \in Seq(S),
         q # <<>>, Fresh(q, f, h)
  PROVE  Fresh(Tail(q), f, Append(h, Head(q)))
<1> DEFINE t == Tail(q)
           a == Append(h, Head(q))
<1>1. /\ Len(t) = Len(q) - 1 /\ \A i \in 1..Len(t) : t[i] = q[i + 1]
      /\ Len(q) \in Nat \ {0} /\ Len(h) \in Nat
      /\ Head(q) = q[1]
  BY HeadTailProperties
<1>2. /\ Len(a) = Len(h) + 1 /\ a[Len(h) + 1] = q[1]
      /\ \A i \in 1..Len(h) : a[i] = h[i]
  BY <1>1, AppendProperties
<1> HIDE DEF t, a
<1>3. \A i \in 1..Len(a) : (i \in 1..Len(h) /\ a[i] = h[i]) \/ (i = Len(h) + 1 /\ a[i] = q[1])
  BY <1>1, <1>2
<1>4. \A i \in 1..Len(t) : i + 1 \in 1..Len(q) /\ i + 1 # 1
  BY <1>1
<1>5. 1 \in 1..Len(q)
  BY <1>1
<1>6. \A i, j \in 1..Len(a) : a[i] = a[j] => i = j
  BY <1>3, <1>5 DEF Fresh
<1>7. \A i, j \in 1..Len(t) : t[i] = t[j] => i = j
  BY <1>1, <1>4, SMTT(30) DEF Fresh
<1>8. \A i \in 1..Len(t), j \in 1..Len(a) : t[i] # a[j]
  BY <1>1, <1>3, <1>4, <1>5 DEF Fresh
<1>9. \A i \in 1..Len(t) : \E k \in 1..Len(f) : t[i] = f[k]
  BY <1>1, <1>4 DEF Fresh
<1>10. \A j \in 1..Len(a) :
         \/ \E k \in 1..Len(f) : a[j] = f[k]
         \/ f # <<>> /\ \A k \in 1..Len(f) : a[j] < f[k]
  BY <1>3, <1>5 DEF Fresh
<1>11. Fresh(t, f, a)
  BY <1>6, <1>7, <1>8, <1>9, <1>10 DEF Fresh
<1> QED
  BY <1>11 DEF t, a

-----------------------------------------------------------------------------
(* What is true after every call. *)
Inv ==
  /\ TypeOK
  /\ Order(url_queue, fetched, handed)
  /\ Busy => Fresh(url_queue, fetched, handed)

(* The feed: at most GETSIZE memes, the newest first.                      *)
LEMMA FeedIs ==
  ASSUME posted \in 0..MaxPosted
  PROVE  /\ Feed \in Seq(1..posted)
         /\ Len(Feed) <= GETSIZE
         /\ \A i, j \in 1..Len(Feed) : Feed[i] = Feed[j] => i = j
<1> DEFINE n == IF posted < GETSIZE THEN posted ELSE GETSIZE
<1>1. posted \in Nat /\ n \in Nat /\ n <= posted /\ n <= GETSIZE
  BY MemeDlAssumption
<1>2. Feed = [i \in 1..n |-> posted - i + 1]
  BY DEF Feed
<1> HIDE DEF n
<1>3. \A i \in 1..n : posted - i + 1 \in 1..posted
  BY <1>1
<1>4. Feed \in Seq(1..posted) /\ Len(Feed) = n
  BY <1>1, <1>2, <1>3
<1> QED
  BY <1>1, <1>2, <1>4

(* A queue that was just fetched.                                          *)
LEMMA Fetch ==
  ASSUME Inv, NEW urls, get_url_queue(urls), urls # <<>>
  PROVE  /\ urls \in Seq(1..posted) /\ Len(urls) <= GETSIZE
         /\ Order(urls, urls, handed)
         /\ Busy => Fresh(urls, urls, handed)
<1>1. /\ posted \in 0..MaxPosted /\ posted \in Nat
      /\ fetched \in Seq(1..posted) /\ handed \in Seq(1..posted)
  BY MemeDlAssumption DEF Inv, TypeOK
<1>2. urls = Pushed(Feed) /\ (Busy => \A u \in ToSet(fetched), v \in ToSet(urls) : u < v)
  BY DEF get_url_queue
<1>3. /\ urls \in Seq(1..posted) /\ Len(urls) <= GETSIZE
      /\ \A i, j \in 1..Len(urls) : urls[i] = urls[j] => i = j
  BY <1>1, <1>2, FeedIs, PushedIs
<1>4. Order(urls, urls, handed)
  BY <1>1, <1>3 DEF Order
<1>5. ASSUME Busy PROVE Fresh(urls, urls, handed)
  <2>1. \A k \in 1..Len(fetched), i \in 1..Len(urls) : fetched[k] < urls[i]
    BY <1>1, <1>2, <1>3, <1>5 DEF ToSet
  <2>2. /\ \A k \in 1..Len(fetched) : fetched[k] \in Nat
        /\ \A i \in 1..Len(urls) : urls[i] \in Nat
        /\ \A j \in 1..Len(handed) : handed[j] \in Nat
    BY <1>1, <1>3
  <2>3. fetched # <<>> => 1 \in 1..Len(fetched)
    BY <1>1
  <2>4. \A j \in 1..Len(handed), i \in 1..Len(urls) : handed[j] < urls[i]
    BY <1>5, <2>1, <2>2, <2>3 DEF Inv, Fresh
  <2>5. \A j \in 1..Len(handed), i \in 1..Len(urls) : handed[j] # urls[i]
    BY <2>2, <2>4
  <2> QED
    BY <1>3, <1>5, <2>4, <2>5 DEF Inv, Fresh
<1> QED
  BY <1>3, <1>4, <1>5

(* A url is taken from a queue that is not empty.                          *)
LEMMA Pop ==
  ASSUME NEW n \in Nat, NEW q \in Seq(1..n), NEW f \in Seq(1..n), handed \in Seq(1..n),
         q # <<>>, Order(q, f, handed), Busy => Fresh(q, f, handed),
         Len(q) <= GETSIZE, url_queue_pop(q)
  PROVE  /\ url_queue' \in Seq(1..n) /\ handed' \in Seq(1..n)
         /\ Len(url_queue') <= GETSIZE
         /\ ret' \in [url : 0..n, content : {"image", "junk", "none"}]
         /\ Order(url_queue', f, handed')
         /\ Busy => Fresh(url_queue', f, handed')
<1>1. /\ url_queue' = Tail(q) /\ handed' = Append(handed, Head(q))
      /\ \E content \in url2file : ret' = [url |-> Head(q), content |-> content]
  BY DEF url_queue_pop, string_queue_pop, Returns
<1>2. /\ Head(q) \in 1..n /\ Tail(q) \in Seq(1..n) /\ Len(Tail(q)) = Len(q) - 1
      /\ Append(handed, Head(q)) \in Seq(1..n)
  BY HeadTailProperties, AppendProperties
<1>3. Order(Tail(q), f, Append(handed, Head(q)))
  BY PopOrder
<1>4. Busy => Fresh(Tail(q), f, Append(handed, Head(q)))
  <2>1. 1..n \subseteq Nat
    OBVIOUS
  <2> QED
    BY <2>1, PopFresh
<1>5. Len(Tail(q)) <= GETSIZE
  BY <1>2, MemeDlAssumption
<1>6. ret' \in [url : 0..n, content : {"image", "junk", "none"}]
  BY <1>1, <1>2 DEF url2file
<1> QED
  BY <1>1, <1>2, <1>3, <1>4, <1>5, <1>6

LEMMA InvAlways == Spec => []Inv
<1>1. Init => Inv
  BY MemeDlAssumption DEF Init, Inv, TypeOK, Order, Fresh
<1>2. Inv /\ [Next]_vars => Inv'
  <2> SUFFICES ASSUME Inv, [Next]_vars PROVE Inv'
    OBVIOUS
  <2>0. /\ posted \in 0..MaxPosted /\ posted \in Nat
        /\ url_queue \in Seq(1..posted) /\ fetched \in Seq(1..posted)
        /\ handed \in Seq(1..posted)
    BY MemeDlAssumption DEF Inv, TypeOK
  <2>1. ASSUME UNCHANGED vars PROVE Inv'
    BY <2>1 DEF Inv, TypeOK, vars
  <2>2. ASSUME Post PROVE Inv'
    <3>1. /\ posted' \in 0..MaxPosted /\ 1..posted \subseteq 1..posted'
          /\ 0..posted \subseteq 0..posted'
          /\ UNCHANGED <<url_queue, phase, ret, fetched, handed>>
      BY <2>0, <2>2, MemeDlAssumption DEF Post
    <3>2. /\ url_queue \in Seq(1..posted') /\ fetched \in Seq(1..posted')
          /\ handed \in Seq(1..posted')
      BY <2>0, <3>1, SeqMonotonic
    <3>3. ret \in [url : 0..posted', content : {"image", "junk", "none"}]
      BY <3>1 DEF Inv, TypeOK
    <3> QED
      BY <3>1, <3>2, <3>3 DEF Inv, TypeOK
  <2>3. ASSUME memedl_init PROVE Inv'
    <3>1. PICK urls \in getinmemory :
            /\ get_url_queue(urls)
            /\ url_queue' = urls
            /\ fetched' = IF urls = <<>> THEN fetched ELSE urls
            /\ phase' = IF urls = <<>> THEN "new" ELSE "up"
      BY <2>3 DEF memedl_init
    <3>2. /\ UNCHANGED <<posted, handed>> /\ phase' \in {"new", "up", "destroyed"}
          /\ ret' \in [url : 0..posted, content : {"image", "junk", "none"}]
      BY <2>0, <2>3, <3>1 DEF memedl_init, Returns
    <3>3. CASE urls = <<>>
      BY <2>0, <3>1, <3>2, <3>3, MemeDlAssumption DEF Inv, TypeOK, Order, Fresh
    <3>4. CASE urls # <<>>
      <4>1. /\ urls \in Seq(1..posted) /\ Len(urls) <= GETSIZE
            /\ Order(urls, urls, handed)
            /\ Busy => Fresh(urls, urls, handed)
        BY <3>1, <3>4, Fetch
      <4> QED
        BY <2>0, <3>1, <3>2, <3>4, <4>1 DEF Inv, TypeOK
    <3> QED
      BY <3>3, <3>4
  <2>4. ASSUME get_meme, url_queue # <<>> PROVE Inv'
    <3>1. UNCHANGED <<posted, phase, fetched>> /\ url_queue_pop(url_queue)
      BY <2>4 DEF get_meme
    <3>2. /\ url_queue' \in Seq(1..posted) /\ handed' \in Seq(1..posted)
          /\ Len(url_queue') <= GETSIZE
          /\ ret' \in [url : 0..posted, content : {"image", "junk", "none"}]
          /\ Order(url_queue', fetched, handed')
          /\ Busy => Fresh(url_queue', fetched, handed')
      BY <2>0, <2>4, <3>1, Pop DEF Inv, TypeOK
    <3> QED
      BY <2>0, <3>1, <3>2 DEF Inv, TypeOK
  <2>5. ASSUME get_meme, url_queue = <<>> PROVE Inv'
    <3>1. PICK urls \in getinmemory :
            /\ get_url_queue(urls)
            /\ \/ /\ urls = <<>>
                  /\ Returns(0, "none")
                  /\ UNCHANGED <<url_queue, fetched, handed>>
               \/ urls # <<>> /\ fetched' = urls /\ url_queue_pop(urls)
      BY <2>5 DEF get_meme
    <3>2. UNCHANGED <<posted, phase>>
      BY <2>5 DEF get_meme
    <3>3. CASE urls = <<>>
      <4>1. ret' \in [url : 0..posted, content : {"image", "junk", "none"}]
        BY <2>0, <3>1, <3>3 DEF Returns
      <4> QED
        BY <3>1, <3>2, <3>3, <4>1 DEF Inv, TypeOK
    <3>4. CASE urls # <<>>
      <4>1. /\ urls \in Seq(1..posted) /\ Len(urls) <= GETSIZE
            /\ Order(urls, urls, handed)
            /\ Busy => Fresh(urls, urls, handed)
        BY <3>1, <3>4, Fetch
      <4>2. /\ url_queue' \in Seq(1..posted) /\ handed' \in Seq(1..posted)
            /\ Len(url_queue') <= GETSIZE
            /\ ret' \in [url : 0..posted, content : {"image", "junk", "none"}]
            /\ Order(url_queue', urls, handed')
            /\ Busy => Fresh(url_queue', urls, handed')
        BY <2>0, <3>1, <3>4, <4>1, Pop
      <4> QED
        BY <2>0, <3>1, <3>2, <3>4, <4>1, <4>2 DEF Inv, TypeOK
    <3> QED
      BY <3>3, <3>4
  <2>6. ASSUME memedl_destroy PROVE Inv'
    <3>1. /\ phase' = "destroyed" /\ url_queue' = <<>>
          /\ UNCHANGED <<posted, fetched, handed>>
          /\ ret' \in [url : 0..posted, content : {"image", "junk", "none"}]
      BY <2>0, <2>6 DEF memedl_destroy, Returns
    <3> QED
      BY <2>0, <3>1, MemeDlAssumption DEF Inv, TypeOK, Order, Fresh
  <2> QED
    BY <2>1, <2>2, <2>3, <2>4, <2>5, <2>6 DEF Next
<1> QED
  BY <1>1, <1>2, PTL DEF Spec

-----------------------------------------------------------------------------
(* No url is queued or handed out that was not posted, and the queue is    *)
(* never longer than a fetch, whatever fetches and downloads fail.         *)
THEOREM SourceTypes == Spec => []TypeOK
<1>1. Inv => TypeOK
  BY DEF Inv
<1> QED
  BY <1>1, InvAlways, PTL

(* The end of a list, element by element. *)
LEMMA SuffixIs ==
  ASSUME NEW S, NEW s \in Seq(S), NEW t \in Seq(S), Len(s) <= Len(t),
         \A i \in 1..Len(s) : s[i] = t[Len(t) - Len(s) + i]
  PROVE  IsSuffix(s, t)
<1> DEFINE r == Reverse(s)
           v == Reverse(t)
<1>1. Len(s) \in Nat /\ Len(t) \in Nat
  OBVIOUS
<1>2. /\ r \in Seq(S) /\ Len(r) = Len(s) /\ \A i \in 1..Len(s) : r[i] = s[Len(s) - i + 1]
      /\ v \in Seq(S) /\ Len(v) = Len(t) /\ \A i \in 1..Len(t) : v[i] = t[Len(t) - i + 1]
  BY <1>1 DEF Reverse
<1> HIDE DEF r, v
<1>3. \A i \in 1..Len(r) : r[i] = v[i]
  <2> TAKE i \in 1..Len(r)
  <2>1. /\ i \in 1..Len(s) /\ i \in 1..Len(t) /\ Len(s) - i + 1 \in 1..Len(s)
        /\ Len(t) - Len(s) + (Len(s) - i + 1) = Len(t) - i + 1
    BY <1>1, <1>2
  <2> QED
    BY <1>2, <2>1
<1>4. SubSeq(r, 1, Len(r)) = SubSeq(v, 1, Len(r))
  BY <1>1, <1>2, <1>3
<1> QED
  BY <1>1, <1>2, <1>4 DEF IsSuffix, IsPrefix, r, v

(* The urls of a fetch are used first to last and none is skipped,         *)
(* whatever fetches fail and however often get_meme is called.             *)
THEOREM UrlsUsedInOrder == Spec => []UsedInOrder
<1>1. Inv => UsedInOrder
  <2> SUFFICES ASSUME Inv, url_queue # <<>>
               PROVE  LET used == Len(fetched) - Len(url_queue)
                      IN /\ used >= 0
                         /\ IsSuffix(SubSeq(fetched, 1, used) \o url_queue, fetched)
                         /\ IsSuffix(SubSeq(fetched, 1, used), handed)
    BY DEF UsedInOrder
  <2> DEFINE S == 1..posted
             used == Len(fetched) - Len(url_queue)
             front == SubSeq(fetched, 1, used)
             all == front \o url_queue
  <2>1. /\ url_queue \in Seq(S) /\ fetched \in Seq(S) /\ handed \in Seq(S)
        /\ Len(url_queue) \in Nat /\ Len(fetched) \in Nat /\ Len(handed) \in Nat
    BY DEF Inv, TypeOK
  <2>2. /\ used >= 0 /\ used <= Len(handed)
        /\ \A i \in 1..Len(url_queue) : url_queue[i] = fetched[used + i]
        /\ \A i \in 1..used : handed[Len(handed) - used + i] = fetched[i]
    BY DEF Inv, Order
  <2>3. used \in Nat /\ used <= Len(fetched)
    BY <2>1, <2>2
  <2> HIDE DEF S
  <2>4. /\ front \in Seq(S) /\ Len(front) = used
        /\ \A i \in 1..used : front[i] = fetched[i]
    BY <2>1, <2>3
  <2> HIDE DEF front
  <2>5. /\ all \in Seq(S) /\ Len(all) = Len(fetched)
        /\ \A i \in 1..Len(fetched) : all[i] = fetched[i]
    <3>1. /\ all \in Seq(S) /\ Len(all) = used + Len(url_queue)
          /\ \A i \in 1..(used + Len(url_queue)) :
               all[i] = IF i <= used THEN front[i] ELSE url_queue[i - used]
      BY <2>1, <2>4, ConcatProperties
    <3>2. used + Len(url_queue) = Len(fetched)
      BY <2>1
    <3>3. \A i \in 1..Len(fetched) : all[i] = fetched[i]
      <4> TAKE i \in 1..Len(fetched)
      <4>1. CASE i <= used
        BY <2>3, <2>4, <3>1, <3>2, <4>1
      <4>2. CASE ~(i <= used)
        <5>1. i - used \in 1..Len(url_queue) /\ used + (i - used) = i
          BY <2>1, <2>3, <3>2, <4>2
        <5> QED
          BY <2>2, <3>1, <3>2, <4>2, <5>1
      <4> QED
        BY <4>1, <4>2
    <3> QED
      BY <3>1, <3>2, <3>3
  <2> HIDE DEF all
  <2>6. IsSuffix(all, fetched)
    <3>1. \A i \in 1..Len(all) : all[i] = fetched[Len(fetched) - Len(all) + i]
      BY <2>1, <2>5
    <3> QED
      BY <2>1, <2>5, <3>1, SuffixIs
  <2>7. IsSuffix(front, handed)
    <3>1. \A i \in 1..Len(front) : front[i] = handed[Len(handed) - Len(front) + i]
      BY <2>1, <2>2, <2>4
    <3> QED
      BY <2>1, <2>2, <2>4, <3>1, SuffixIs
  <2> QED
    BY <2>2, <2>6, <2>7 DEF front, all
<1> QED
  BY <1>1, InvAlways, PTL

(* Every meme is brand new, provided that as many are posted between two   *)
(* fetches as a fetch yields: none is handed out twice.                    *)
THEOREM MemesAreNew == Spec => []BrandNew
<1>1. Inv => BrandNew
  <2> SUFFICES ASSUME Inv, Busy PROVE IsInjective(handed)
    BY DEF BrandNew
  <2>1. DOMAIN handed = 1..Len(handed)
    BY DEF Inv, TypeOK
  <2> QED
    BY <2>1 DEF Inv, Fresh, IsInjective
<1> QED
  BY <1>1, InvAlways, PTL
=============================================================================
