--------------------------- MODULE VisionAuctions ---------------------------
(***************************************************************************)
(* How the vision server gives work to its clients: the handlers of        *)
(* server.py that put tasks into a priority queue, the one worker thread   *)
(* of server_worker.py that takes them out, holds an auction for each and  *)
(* looks in on it until someone has bid, and the clients of clients.py.    *)
(*                                                                         *)
(* The clients are those of one kind (rsync, yolo, ...): the others ignore *)
(* its auctions.  Auctions are numbered as they are asked for.  A socket   *)
(* keeps the order of its messages.  Handlers run in threads of their own  *)
(* (Flask-SocketIO without eventlet), so that a bid may come at any time.  *)
(***************************************************************************)
EXTENDS Naturals, Sequences, FiniteSets

CONSTANTS
  Clients,      \* processes; one that was stopped is not started again
  MaxAuctions,  \* bound on the auctions asked for
  MaxRecords    \* bound on the other tasks that wait

AuctionsAssumption ==
  /\ IsFiniteSet(Clients) /\ 0 \notin Clients
  /\ MaxAuctions \in Nat /\ MaxRecords \in Nat

Auctions == 1 .. MaxAuctions
None     == 0

VARIABLES
  task_queue,        \* queue.PriorityQueue: the list that heapq keeps
  asked,             \* auctions asked for
  announcing,        \* announced by the worker and not listed yet, or None
  active_auctions,   \* the auctions that are listed
  bids,              \* those received, in order
  due,               \* auctions whose time is over
  taken_auctions,    \* who got each auction
  running,           \* whether a client "waits" to start, "runs" or "ended"
  toClient, toServer,\* messages on a client's socket
  work_queue,        \* a client's tasks
  begun              \* how often the work of an auction was begun

serverVars   == <<task_queue, announcing, active_auctions, due, taken_auctions>>
clientVars   == <<running, work_queue, begun>>
auctionsVars == <<serverVars, asked, bids, toClient, toServer, clientVars>>

-----------------------------------------------------------------------------
(* heapq.  Of two children with the same key the right one moves up: tasks *)
(* of one priority do not leave in the order in which they came.           *)

\* Whether the item that was at pos moves up from i.
Climbs(heap, pos, i) == i > 1 /\ heap[pos].key < heap[i \div 2].key

\* _siftdown: the item at pos moves up past parents with a greater key.
SiftDown(heap, pos) ==
  LET reached[i \in 1 .. Len(heap)] ==
        \/ i = pos
        \/ \E child \in {2 * i, 2 * i + 1} :
             child <= Len(heap) /\ reached[child] /\ Climbs(heap, pos, child)
  IN  [i \in 1 .. Len(heap) |->
         IF ~reached[i] THEN heap[i]
         ELSE IF Climbs(heap, pos, i) THEN heap[i \div 2] ELSE heap[pos]]

\* _siftup from the root: the smaller children move up down to a leaf, which
\* takes the item.
SiftUp(heap) ==
  LET n == Len(heap)
      SmallerChild(p) ==
        IF 2 * p < n /\ ~(heap[2 * p].key < heap[2 * p + 1].key)
        THEN 2 * p + 1 ELSE 2 * p
      leaf[p \in 1 .. n] == IF 2 * p > n THEN p ELSE leaf[SmallerChild(p)]
      OnPath(i) == leaf[i] = leaf[1]
  IN  SiftDown([i \in 1 .. n |->
                  IF ~OnPath(i) THEN heap[i]
                  ELSE IF i = leaf[1] THEN heap[1] ELSE heap[SmallerChild(i)]],
               leaf[1])

Put(heap, task) == SiftDown(Append(heap, task), Len(heap) + 1)

\* What is left when the root was taken.
Rest(heap) ==
  LET n == Len(heap)
  IN  IF n = 1 THEN <<>>
      ELSE SiftUp([i \in 1 .. n - 1 |-> IF i = 1 THEN heap[n] ELSE heap[i]])

-----------------------------------------------------------------------------

\* PriorityItem(key, {'type': type, 'auction_id': n, ...})
Task(key, type, n) == [key |-> key, type |-> type, auction |-> n]

AuctionsInit ==
  /\ task_queue = <<>> /\ asked = 0 /\ announcing = None
  /\ active_auctions = {} /\ due = {}
  /\ bids = [n \in Auctions |-> <<>>]
  /\ taken_auctions = [n \in Auctions |-> None]
  /\ running = [c \in Clients |-> "waits"]
  /\ toClient = [c \in Clients |-> <<>>] /\ toServer = [c \in Clients |-> <<>>]
  /\ work_queue = [c \in Clients |-> <<>>]
  /\ begun = [n \in Auctions |-> 0]

\* do_auction, process_image, syncronize_img_info, download_snipped; with the
\* key 0 manual_request.
AskForAuction(key) ==
  /\ asked < MaxAuctions
  /\ asked' = asked + 1
  /\ task_queue' = Put(task_queue, Task(key, "auction", asked + 1))
  /\ UNCHANGED <<announcing, active_auctions, bids, due, taken_auctions,
                 toClient, toServer, clientVars>>

\* Tasks without an auction: records of images with the key 1, return_all_images
\* with 0, snip_img with 2.
AskForRecord(key) ==
  /\ Cardinality({i \in DOMAIN task_queue : task_queue[i].type = "record"})
       < MaxRecords
  /\ task_queue' = Put(task_queue, Task(key, "record", None))
  /\ UNCHANGED <<asked, announcing, active_auctions, bids, due, taken_auctions,
                 toClient, toServer, clientVars>>

\* A bid for an auction that is not listed raises a KeyError in its handler.
ReceiveBid(c) ==
  /\ toServer[c] # <<>>
  /\ toServer' = [toServer EXCEPT ![c] = Tail(@)]
  /\ LET bid == Head(toServer[c])
     IN  bids' = IF bid.auction \in active_auctions
                 THEN [bids EXCEPT ![bid.auction] = Append(@, bid)]
                 ELSE bids
  /\ UNCHANGED <<serverVars, asked, toClient, clientVars>>

-----------------------------------------------------------------------------
(* The worker thread.  A task that it puts back it puts back at once: what *)
(* handlers put in between moves it at most among tasks of its priority.   *)

NextTask(type) ==
  announcing = None /\ task_queue # <<>> /\ task_queue[1].type = type

\* emit to every client that is connected
Broadcast(message) ==
  toClient' = [c \in Clients |->
                 IF running[c] = "runs" THEN Append(toClient[c], message)
                 ELSE toClient[c]]

\* _auction: the auction is announced before it is listed.
AnnounceAuction ==
  /\ NextTask("auction")
  /\ announcing' = task_queue[1].auction
  /\ task_queue' = Rest(task_queue)
  /\ Broadcast([type |-> "auction", auction |-> task_queue[1].auction])
  /\ UNCHANGED <<asked, active_auctions, bids, due, taken_auctions, toServer,
                 clientVars>>

ListAuction ==
  /\ announcing # None
  /\ active_auctions' = active_auctions \union {announcing}
  /\ task_queue' = Put(task_queue, Task(2, "timeout", announcing))
  /\ announcing' = None
  /\ UNCHANGED <<asked, bids, due, taken_auctions, toClient, toServer,
                 clientVars>>

\* _add_record, _retrieve_records, and _filter_and_snip, whose auction is asked
\* for in a step of its own.
DoRecord ==
  /\ NextTask("record")
  /\ task_queue' = Rest(task_queue)
  /\ UNCHANGED <<asked, announcing, active_auctions, bids, due, taken_auctions,
                 toClient, toServer, clientVars>>

\* The first of the lowest bids.
LowestBid(received) ==
  LET Best(i) == \A j \in DOMAIN received :
                   /\ received[i].workload <= received[j].workload
                   /\ j < i => received[i].workload < received[j].workload
  IN  received[CHOOSE i \in DOMAIN received : Best(i)]

\* Mutant of SellAuction: the task is put back though the auction is over.
SellAuctionAndWait ==
  /\ NextTask("timeout")
  /\ LET n == task_queue[1].auction
     IN  /\ n \in due /\ bids[n] # <<>>
         /\ taken_auctions' =
              [taken_auctions EXCEPT ![n] = LowestBid(bids[n]).client]
         /\ active_auctions' = active_auctions \ {n}
         /\ due' = due \ {n}
  /\ task_queue' = Put(Rest(task_queue), task_queue[1])
  /\ UNCHANGED <<asked, announcing, bids, toClient, toServer, clientVars>>

\* _timeout of an auction that has bids and whose time is over.
SellAuction ==
  /\ NextTask("timeout")
  /\ LET n == task_queue[1].auction
     IN  /\ n \in due /\ bids[n] # <<>>
         /\ LET winner == LowestBid(bids[n]).client
            IN  /\ taken_auctions' = [taken_auctions EXCEPT ![n] = winner]
                /\ toClient' =
                     IF running[winner] = "runs"
                     THEN [toClient EXCEPT ![winner] =
                             Append(@, [type |-> "task", auction |-> n])]
                     ELSE toClient
         /\ active_auctions' = active_auctions \ {n}
         /\ due' = due \ {n}
  /\ task_queue' = Rest(task_queue)
  /\ UNCHANGED <<asked, announcing, bids, toServer, clientVars>>

\* _timeout otherwise: without a bid the time begins anew.
WaitForBids ==
  /\ NextTask("timeout")
  /\ LET n == task_queue[1].auction
     IN  /\ n \in due => bids[n] = <<>>
         /\ due' = due \ {n}
  /\ task_queue' = Put(Rest(task_queue), task_queue[1])
  /\ UNCHANGED <<asked, announcing, active_auctions, bids, taken_auctions,
                 toClient, toServer, clientVars>>

\* DEFAULT_AUCTION_TIMEOUT has passed since time_began.
TimePasses(n) ==
  /\ n \in active_auctions \ due
  /\ due' = due \union {n}
  /\ UNCHANGED <<task_queue, asked, announcing, active_auctions, bids,
                 taken_auctions, toClient, toServer, clientVars>>

-----------------------------------------------------------------------------
(* A client.                                                               *)

ClientConnects(c) ==
  /\ running[c] = "waits"
  /\ running' = [running EXCEPT ![c] = "runs"]
  /\ UNCHANGED <<serverVars, asked, bids, toClient, toServer, work_queue,
                 begun>>

\* Its process ends; bids that it sent may still arrive.
ClientEnds(c) ==
  /\ running[c] = "runs"
  /\ running' = [running EXCEPT ![c] = "ended"]
  /\ toClient' = [toClient EXCEPT ![c] = <<>>]
  /\ work_queue' = [work_queue EXCEPT ![c] = <<>>]
  /\ UNCHANGED <<serverVars, asked, bids, toServer, begun>>

\* _bid_for_task, or _add_task
ClientHandles(c) ==
  /\ toClient[c] # <<>>
  /\ toClient' = [toClient EXCEPT ![c] = Tail(@)]
  /\ LET message == Head(toClient[c])
     IN  \/ /\ message.type = "auction"
            /\ toServer' =
                 [toServer EXCEPT ![c] =
                    Append(@, [auction |-> message.auction, client |-> c,
                               workload |-> Len(work_queue[c])])]
            /\ UNCHANGED work_queue
         \/ /\ message.type = "task"
            /\ work_queue' =
                 [work_queue EXCEPT ![c] = Append(@, message.auction)]
            /\ UNCHANGED toServer
  /\ UNCHANGED <<serverVars, asked, bids, running, begun>>

\* A thread of the client takes a task from its queue.
BeginWork(c) ==
  /\ work_queue[c] # <<>>
  /\ work_queue' = [work_queue EXCEPT ![c] = Tail(@)]
  /\ begun' = [begun EXCEPT ![Head(work_queue[c])] = @ + 1]
  /\ UNCHANGED <<serverVars, asked, bids, running, toClient, toServer>>

-----------------------------------------------------------------------------

WorkerNext ==
  AnnounceAuction \/ ListAuction \/ DoRecord \/ SellAuction \/ WaitForBids

\* Exactly when the worker has something to do.
WorkerReady == announcing # None \/ task_queue # <<>>

AuctionsNext ==
  \/ \E key \in {0, 2} : AskForAuction(key)
  \/ \E key \in 0 .. 2 : AskForRecord(key)
  \/ WorkerNext \/ \E n \in Auctions : TimePasses(n)
  \/ \E c \in Clients :
       \/ ReceiveBid(c)
       \/ ClientConnects(c) \/ ClientEnds(c) \/ ClientHandles(c) \/ BeginWork(c)

\* The bound on auctions is reached, and the worker has nothing left to do.
Quiet == asked = MaxAuctions /\ ~WorkerReady

AuctionsSpec == AuctionsInit /\ [][AuctionsNext]_auctionsVars

-----------------------------------------------------------------------------

TaskType ==
  [key : 0 .. 2, type : {"auction", "timeout", "record"},
   auction : 0 .. MaxAuctions]
BidType == [auction : Auctions, client : Clients, workload : 0 .. MaxAuctions]

\* Types.
AuctionsTypeOK ==
  /\ task_queue \in Seq(TaskType)
  /\ asked \in 0 .. MaxAuctions /\ announcing \in 0 .. MaxAuctions
  /\ active_auctions \subseteq Auctions /\ due \subseteq active_auctions
  /\ bids \in [Auctions -> Seq(BidType)]
  /\ taken_auctions \in [Auctions -> Clients \union {None}]
  /\ running \in [Clients -> {"waits", "runs", "ended"}]
  /\ toServer \in [Clients -> Seq(BidType)]
  /\ work_queue \in [Clients -> Seq(Auctions)]
  /\ begun \in [Auctions -> Nat]

\* The tasks of a type for an auction.
Waiting(type, n) ==
  {i \in DOMAIN task_queue :
     task_queue[i].type = type /\ task_queue[i].auction = n}

\* A timeout looks an auction up unconditionally, and an exception would end
\* the only worker: the tasks in the queue are of auctions that are listed, and
\* every listed one is looked in on (server_worker.py:133).
TimeoutFindsItsAuction ==
  \A n \in Auctions :
    Cardinality(Waiting("timeout", n)) = IF n \in active_auctions THEN 1 ELSE 0

\* An auction that was asked for is to be announced, is being announced, is
\* listed or is taken, and is in one of these places only.
NoAuctionIsLost ==
  \A n \in 1 .. asked :
    Cardinality(Waiting("auction", n))
      + Cardinality({x \in {"announced", "listed", "taken"} :
                       CASE x = "announced" -> announcing = n
                         [] x = "listed"    -> n \in active_auctions
                         [] x = "taken"     -> taken_auctions[n] # None}) = 1

\* Only the client that got an auction works on it, and no one who was less
\* busy when asked had bid in time.
WorkIsTheWinners ==
  /\ \A c \in Clients : \A i \in DOMAIN work_queue[c] :
       taken_auctions[work_queue[c][i]] = c
  /\ \A n \in Auctions : taken_auctions[n] # None =>
       \E i \in DOMAIN bids[n] :
         /\ bids[n][i].client = taken_auctions[n]
         /\ \A j \in DOMAIN bids[n] : bids[n][i].workload <= bids[n][j].workload

\* The places of an auction's work in the messages to clients, and in their
\* queues.
OnItsWay(n) ==
  {p \in UNION {{c} \X DOMAIN toClient[c] : c \in Clients} :
     toClient[p[1]][p[2]] = [type |-> "task", auction |-> n]}
InQueue(n) ==
  {p \in UNION {{c} \X DOMAIN work_queue[c] : c \in Clients} :
     work_queue[p[1]][p[2]] = n}

\* The work of a taken auction is on its way to the winner, waits there or was
\* begun, once only, unless the winner has ended (server_worker.py:147).
TakenIsWorkedOnOnce ==
  \A n \in Auctions :
    LET places ==
          begun[n] + Cardinality(OnItsWay(n)) + Cardinality(InQueue(n))
    IN  IF taken_auctions[n] = None THEN places = 0
        ELSE places <= 1 /\ (running[taken_auctions[n]] = "runs" => places = 1)

\* An auction that has a bid is taken, unless there come to be more than three
\* tasks: of four or more of one priority that are put back, the heap can pass
\* over one for ever, though the worker is to "check in on this auction at a
\* later time" (server_worker.py:172).
BiddersWin ==
  \A n \in Auctions :
    n \in active_auctions /\ bids[n] # <<>>
      ~> n \notin active_auctions \/ Len(task_queue) > 3
=============================================================================
