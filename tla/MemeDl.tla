------------------------------- MODULE MemeDl -------------------------------
(***************************************************************************)
(* The source of memes (memedl.c): a queue of urls taken from an RSS feed, *)
(* refilled whenever it runs empty, from which get_meme downloads one.     *)
(*                                                                         *)
(* The feed is outside of the program: memes are numbered in the order     *)
(* they are posted, and a fetch lists the newest ones, newest first.       *)
(* Fetches and downloads may fail.                                         *)
(***************************************************************************)
EXTENDS Integers, Sequences, SequencesExt

CONSTANTS
  GETSIZE,    \* how many urls one fetch yields at most
  MaxPosted,  \* bound on the memes ever posted
  Busy        \* TRUE: GETSIZE new memes are posted between two fetches, the
              \* assumption about frequency behind "BRAND NEW*" (memedl.c:27)

ASSUME MemeDlAssumption == GETSIZE \in Nat \ {0} /\ MaxPosted \in Nat /\ Busy \in BOOLEAN

VARIABLES
  posted,     \* number of memes posted so far
  url_queue,  \* urls fetched and not yet used
  phase,      \* "new" before memedl_init, "up" after it, then "destroyed"
  ret,        \* what the last call returned: [url, content]; url 0 is NULL
  fetched,    \* (observer) the urls of the last fetch
  handed      \* (observer) the urls get_meme has returned, in order

vars == <<posted, url_queue, phase, ret, fetched, handed>>

Returns(u, c) == ret' = [url |-> u, content |-> c]

-----------------------------------------------------------------------------
(* Mutation of Feed: the numbers start at zero. *)
Feed_from_zero ==
  LET n == IF posted < GETSIZE THEN posted ELSE GETSIZE
  IN [i \in 1..n |-> posted - i]
(* The feed as getnjpg finds it. *)
Feed ==
  LET n == IF posted < GETSIZE THEN posted ELSE GETSIZE
  IN [i \in 1..n |-> posted - i + 1]

(* getinmemory: all of the feed, or NULL. *)
getinmemory == {<<>>, Feed}

(* url2file: the download is what it should be, or whatever has come by    *)
(* the time of an error, which is not reported; the file is there.         *)
url2file == {"image", "junk"}

(* The list of string_queue.c, that of queue.c (Queue.tla) without its     *)
(* queue_remove, so that tail is always the last cell: a sequence.         *)
string_queue_push(url, queue) == Append(queue, url)
string_queue_pop(queue) == [url |-> Head(queue), rest |-> Tail(queue)]

(* get_url_queue: an empty queue if the feed could not be had, else the    *)
(* feed's urls, pushed one after the other.                                *)
Pushed(urls) ==
  LET queue[i \in 0..Len(urls)] ==
        IF i = 0 THEN <<>> ELSE string_queue_push(urls[i], queue[i - 1])
  IN queue[Len(urls)]

get_url_queue(urls) ==
  \/ urls = <<>>
  \/ /\ urls = Pushed(Feed)
     /\ Busy => \A u \in ToSet(fetched), v \in ToSet(urls) : u < v

(* Mutations of url_queue_pop: the wrong end; a failed download is retried. *)
url_queue_pop_last(urls) ==
  /\ url_queue' = Front(urls)
  /\ handed' = Append(handed, Last(urls))
  /\ \E content \in url2file : Returns(Last(urls), content)

url_queue_pop_retry(urls) ==
  \E content \in url2file :
    /\ url_queue' = IF content = "junk" THEN urls ELSE Tail(urls)
    /\ handed' = Append(handed, Head(urls))
    /\ Returns(Head(urls), content)

(* url_queue_pop: the errors of url2file are ignored, the file may be junk *)
url_queue_pop(urls) ==
  LET popped == string_queue_pop(urls)
  IN /\ url_queue' = popped.rest
     /\ handed' = Append(handed, popped.url)
     /\ \E content \in url2file : Returns(popped.url, content)

-----------------------------------------------------------------------------
Init ==
  /\ posted = 0
  /\ url_queue = <<>>
  /\ phase = "new"
  /\ ret = [url |-> 0, content |-> "none"]
  /\ fetched = <<>>
  /\ handed = <<>>

Post ==
  /\ posted < MaxPosted
  /\ posted' = posted + 1
  /\ UNCHANGED <<url_queue, phase, ret, fetched, handed>>

(* A process calls it once; if no url could be had the process exits. *)
memedl_init ==
  /\ phase # "up"
  /\ \E urls \in getinmemory :
       /\ get_url_queue(urls)
       /\ url_queue' = urls
       /\ fetched' = IF urls = <<>> THEN fetched ELSE urls
       /\ phase' = IF urls = <<>> THEN "new" ELSE "up"
  /\ Returns(0, "none")
  /\ UNCHANGED <<posted, handed>>

(* memedl_destroy empties the queue and nothing else, so that get_meme is  *)
(* still called, and works, in save_state after it.                        *)
get_meme ==
  /\ phase # "new"
  /\ UNCHANGED <<posted, phase>>
  /\ \/ url_queue # <<>> /\ url_queue_pop(url_queue) /\ UNCHANGED fetched
     \/ /\ url_queue = <<>>
        /\ \E urls \in getinmemory :
             /\ get_url_queue(urls)
             /\ \/ /\ urls = <<>>
                   /\ Returns(0, "none")
                   /\ UNCHANGED <<url_queue, fetched, handed>>
                \/ urls # <<>> /\ fetched' = urls /\ url_queue_pop(urls)

memedl_destroy ==
  /\ phase = "up"
  /\ phase' = "destroyed"
  /\ url_queue' = <<>>
  /\ Returns(0, "none")
  /\ UNCHANGED <<posted, fetched, handed>>

Next == Post \/ memedl_init \/ get_meme \/ memedl_destroy

Spec == Init /\ [][Next]_vars

-----------------------------------------------------------------------------
(* Types; a url handed out or queued has been posted. *)
TypeOK ==
  /\ posted \in 0..MaxPosted
  /\ url_queue \in Seq(1..posted) /\ Len(url_queue) <= GETSIZE
  /\ phase \in {"new", "up", "destroyed"}
  /\ ret \in [url : 0..posted, content : {"image", "junk", "none"}]
  /\ fetched \in Seq(1..posted)
  /\ handed \in Seq(1..posted)

(* The urls of a fetch are used first to last and none is skipped: those   *)
(* still queued are the end of the list, those before them were the last   *)
(* to be handed out.  (memedl_destroy drops the ones still queued.)        *)
UsedInOrder ==
  url_queue # <<>> =>
    LET used == Len(fetched) - Len(url_queue)
    IN /\ used >= 0
       /\ IsSuffix(SubSeq(fetched, 1, used) \o url_queue, fetched)
       /\ IsSuffix(SubSeq(fetched, 1, used), handed)

(* memedl.c:27-29: a meme is brand new each time, provided that enough     *)
(* memes are posted between two fetches.                                   *)
BrandNew == Busy => IsInjective(handed)
=============================================================================
