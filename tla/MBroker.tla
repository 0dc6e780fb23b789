------------------------------ MODULE MBroker ------------------------------
(***************************************************************************)
(* The message broker of Exercise2/mbroker/mbroker.c and its clients.  The *)
(* main thread reads requests from the register pipe into a queue, and     *)
(* each worker serves one at a time: it creates, removes or lists boxes,   *)
(* or it runs the session of a publisher or of a subscriber.  A box is an  *)
(* entry of boxes and a file of GlobalFS.                                  *)
(*                                                                         *)
(* A step of a worker runs from the acquisition of a mutex, a call of the  *)
(* file system, or a write to shared memory, to the next.  A mutex that    *)
(* was destroyed is locked and unlocked with no effect, which is what      *)
(* glibc does: the broker does not look at the results.                    *)
(***************************************************************************)
EXTENDS GlobalFS

CONSTANTS
  Workers,         \* the threads of read_registrations
  NoThread,        \* owner of a mutex that is not held
  NoMutex,         \* a mutex that was destroyed
  Clients,         \* processes, each with one request
  NoClient,
  Request,         \* the code and the box of each client's request
  After,           \* the clients each one waits for before it asks
  NoName,          \* the name of a box never used
  Rank,            \* the place of each name in the order of strcmp
  MAX_BOX_NUMBER,
  Buffer,          \* MESSAGE_SIZE - 1, in cells
  MaxMessages,     \* bound on the messages a publisher sends
  Text             \* what each of them says, the first one first

Codes == {"publisher", "subscriber", "create", "remove", "list"}

ASSUME ClientsAssumption ==
  /\ NoClient \notin Clients
  /\ Request \in [Clients -> [code : Codes, box : Names]]
  /\ After \in [Clients -> SUBSET Clients]

\* A message is a line of text, nothing, or a text that begins with "ERROR:".
ASSUME TextAssumption ==
  Text \in [Clients -> [1 .. MaxMessages -> {"line", "empty", "error"}]]

ASSUME BrokerAssumption ==
  /\ Workers # {} /\ IsFiniteSet(Workers)
  /\ NoThread \notin Workers /\ NoMutex \notin Workers /\ NoMutex # NoThread
  /\ NoName \notin Names /\ Rank \in [Names \cup {NoName} -> Nat]
  /\ MAX_BOX_NUMBER \in Nat \ {0} /\ Buffer \in Nat \ {0} /\ MaxMessages \in Nat

\* strcmp finds no two names equal.
ASSUME RankAssumption ==
  \A p, q \in Names \cup {NoName} : Rank[p] = Rank[q] => p = q

Spots == 0 .. MAX_BOX_NUMBER - 1
MESSAGE_SIZE == Buffer + 1

VARIABLES
  queue, req,      \* the requests queued, and the one each worker took
  boxes,           \* taken, and the box_t, of each spot
  boxes_mutex, box_mutex, pub_box_mutex, sub_box_mutex,
                   \* the owners of the mutexes
  pc, loc,         \* where each worker is, and its locals
  client,          \* what each client has done
  pipe,            \* the messages in the pipe of each publisher
  sent,            \* how many each publisher has sent
  got,             \* what was written to the pipe of each subscriber
  heard,           \* how much of it each subscriber has read
  message_count,   \* how many messages it has counted
  shown,           \* the listing each manager printed
  failed           \* an assertion, a signal or undefined behaviour ended the broker

requestVars == <<queue, req>>
lockVars    == <<boxes_mutex, box_mutex, pub_box_mutex, sub_box_mutex>>
printVars   == <<heard, message_count, shown>>
clientVars  == <<client, pipe, sent, got, printVars>>
vars == <<fsVars, requestVars, boxes, lockVars, pc, loc, clientVars, failed>>

\* The producer-consumer queue, whose capacity is the number of workers.
Requests == INSTANCE BoundedQueue WITH
  Elems <- Clients, Consumers <- Workers, Capacity <- Cardinality(Workers),
  NoElem <- NoClient, taken <- req

\* The manager that asked for a list.
Manager == INSTANCE BoxListing

\* A reply to a manager that asks for a list: what its memory holds is unknown.
NoReply == [box_amount |-> 0,
            boxes |-> [s \in Spots |-> [box_name |-> NoName, box_size |-> 0,
                                        n_publishers |-> 0, n_subscribers |-> 0]]]

NoLoc == [free |-> -1, spot |-> -1, i |-> 0, fd |-> -1, buffer |-> <<>>, n |-> 0,
          reply |-> NoReply]

NewBox == [taken |-> FALSE, box_name |-> NoName, n_publishers |-> 0,
           n_subscribers |-> 0, box_size |-> 0]

\* The mutexes of a box that was never created are zero: unlocked.
Init ==
  /\ FSInit /\ Requests!Init
  /\ boxes = [s \in Spots |-> NewBox]
  /\ boxes_mutex = NoThread
  /\ box_mutex = [s \in Spots |-> NoThread]
  /\ pub_box_mutex = [s \in Spots |-> NoThread]
  /\ sub_box_mutex = [s \in Spots |-> NoThread]
  /\ pc = [w \in Workers |-> "idle"] /\ loc = [w \in Workers |-> NoLoc]
  /\ client = [c \in Clients |-> "new"]
  /\ pipe = [c \in Clients |-> <<>>]
  /\ sent = [c \in Clients |-> 0]
  /\ got = [c \in Clients |-> <<>>]
  /\ heard = [c \in Clients |-> 0] /\ message_count = [c \in Clients |-> 0]
  /\ shown = [c \in Clients |-> <<>>]
  /\ failed = FALSE

\* The end of the broker.
Crash == /\ failed' = TRUE
         /\ UNCHANGED <<fsVars, requestVars, boxes, lockVars, pc, loc, clientVars>>

-----------------------------------------------------------------------------
(* The clients: processes outside the broker.                              *)

\* The form goes through the register pipe into the queue.  One that is lost
\* when the main thread closes the pipe is a request that is never made.
Register(c) ==
  /\ ~failed /\ client[c] = "new"
  /\ \A d \in After[c] : client[d] = "done"
  /\ Requests!Put(c)
  /\ client' = [client EXCEPT ![c] = "sent"]
  /\ UNCHANGED <<fsVars, boxes, lockVars, pc, loc, pipe, sent, got, printVars, failed>>

\* The client closes the register pipe when the main thread has opened it again:
\* read returns 0, and an assertion ends the broker.
RegisterEnds(c) ==
  /\ ~failed /\ client[c] = "sent"
  /\ Crash

\* SIGINT: the handler destroys the file system and boxes_mutex under the workers,
\* and exits, or an assertion fails in it: the broker ends either way.
sig_handler ==
  /\ ~failed
  /\ Crash

\* A message ends in a zero; of an empty line nothing else is sent.
Publish(c) ==
  /\ ~failed /\ Request[c].code = "publisher" /\ client[c] = "open"
  /\ sent[c] < MaxMessages
  /\ sent' = [sent EXCEPT ![c] = @ + 1]
  /\ pipe' = [pipe EXCEPT ![c] = Append(@, [from |-> c, nr |-> sent[c] + 1, end |-> "nul"])]
  /\ UNCHANGED <<fsVars, requestVars, boxes, lockVars, pc, loc, client, got, printVars, failed>>

\* What printf shows of the messages read, into a buffer that was cleared: those
\* up to the first that still ends in a zero.
PrintedOf(messages) ==
  LET Zeros == {i \in DOMAIN messages : messages[i].end = "nul"}
  IN  IF Zeros = {} THEN Len(messages) ELSE Min(Zeros)

\* The lines with some text among the first n messages: strtok skips the others.
LinesIn(messages, n) ==
  Cardinality({i \in 1 .. n : Text[messages[i].from][messages[i].nr] # "empty"})

\* What a subscriber reads first is taken for the refusal of its request.
ErrorFirst(c) == heard[c] = 0 /\ Text[got[c][1].from][got[c][1].nr] = "error"

\* Mutant: a message with no text is counted too.
ReceiveEmpty(c) ==
  LET n == Min({Len(got[c]) - heard[c], MESSAGE_SIZE})
      message == SubSeq(got[c], heard[c] + 1, heard[c] + n)
  IN
  /\ ~failed /\ Request[c].code = "subscriber" /\ client[c] = "open" /\ n > 0 /\ ~ErrorFirst(c)
  /\ heard' = [heard EXCEPT ![c] = @ + n]
  /\ message_count' = [message_count EXCEPT ![c] = @ + PrintedOf(message)]
  /\ UNCHANGED <<fsVars, requestVars, boxes, lockVars, pc, loc, client, pipe, sent, got,
                 shown, failed>>

\* A subscriber prints what it has read and counts its lines.  When the messages
\* fill the buffer no zero ends them, and what follows in memory may be one more.
Receive(c) ==
  LET n == Min({Len(got[c]) - heard[c], MESSAGE_SIZE})
      message == SubSeq(got[c], heard[c] + 1, heard[c] + n)
      Unended == n = MESSAGE_SIZE /\ \A i \in 1 .. n : message[i].end # "nul"
  IN
  /\ ~failed /\ Request[c].code = "subscriber" /\ client[c] = "open" /\ n > 0 /\ ~ErrorFirst(c)
  /\ heard' = [heard EXCEPT ![c] = @ + n]
  /\ \E extra \in IF Unended THEN {0, 1} ELSE {0} :
       message_count' = [message_count EXCEPT ![c] =
                           @ + LinesIn(message, PrintedOf(message)) + extra]
  /\ UNCHANGED <<fsVars, requestVars, boxes, lockVars, pc, loc, client, pipe, sent, got,
                 shown, failed>>

\* The subscriber shows the text as an error, counts nothing and ends.
ReceiveError(c) ==
  /\ ~failed /\ Request[c].code = "subscriber" /\ client[c] = "open"
  /\ got[c] # <<>> /\ ErrorFirst(c)
  /\ client' = [client EXCEPT ![c] = "left"]
  /\ UNCHANGED <<fsVars, requestVars, boxes, lockVars, pc, loc, pipe, sent, got, printVars, failed>>

\* A client ends, and its end of its pipe is closed.
Leave(c) ==
  /\ ~failed /\ client[c] \in {"sent", "open"}
  /\ client' = [client EXCEPT ![c] = "left"]
  /\ UNCHANGED <<fsVars, requestVars, boxes, lockVars, pc, loc, pipe, sent, got, printVars, failed>>

-----------------------------------------------------------------------------
(* Workers.                                                                *)

At(w, label) == ~failed /\ pc[w] = label

Goto(w, label) == pc' = [pc EXCEPT ![w] = label]

Code(w) == Request[req[w]].code
Name(w) == Request[req[w]].box
Box(w)  == boxes[loc[w].spot]

Lockable(m) == m \in {NoThread, NoMutex}
Locked(m, w) == IF m = NoMutex THEN NoMutex ELSE w
Released(m) == IF m = NoMutex THEN NoMutex ELSE NoThread

LockBox(w) ==
  /\ Lockable(box_mutex[loc[w].spot])
  /\ box_mutex' = [box_mutex EXCEPT ![loc[w].spot] = Locked(@, w)]

UnlockBox(w) == box_mutex' = [box_mutex EXCEPT ![loc[w].spot] = Released(@)]

\* pthread_cond_broadcast on the box's condition variable.
Woken(labels, spot) ==
  [w \in Workers |-> IF labels[w] = "asleep" /\ loc[w].spot = spot
                     THEN "woken" ELSE labels[w]]

\* The switch of dequeue, and what follows find_box for each request.
FirstStep == [create |-> "empty", remove |-> "unlink", list |-> "list",
              publisher |-> "find", subscriber |-> "find"]
HitStep  == [create |-> "exists", remove |-> "remove",
             publisher |-> "publish", subscriber |-> "subscribe"]
MissStep == [create |-> "create", publisher |-> "idle", subscriber |-> "refuse"]

Begin(w) ==
  /\ At(w, "idle") /\ Requests!Take(w)
  /\ Goto(w, FirstStep[Request[Head(queue)].code])
  /\ loc' = [loc EXCEPT ![w] = NoLoc]
  /\ UNCHANGED <<fsVars, boxes, lockVars, clientVars, failed>>

\* A loop over boxes with boxes_mutex held from the first spot to the last;
\* create_box and remove_box write to boxes without it.
ScanNext(w) ==
  /\ boxes_mutex' = w /\ loc' = [loc EXCEPT ![w].i = @ + 1] /\ UNCHANGED pc

ScanTurn(w) == boxes_mutex = IF loc[w].i = 0 THEN NoThread ELSE w

LastSpot(w) == loc[w].i = MAX_BOX_NUMBER - 1

EmptySpot(w) ==
  /\ At(w, "empty") /\ ScanTurn(w)
  /\ \/ /\ boxes[loc[w].i].taken /\ ~LastSpot(w)
        /\ ScanNext(w)
     \/ /\ boxes[loc[w].i].taken => LastSpot(w)
        /\ boxes_mutex' = NoThread /\ Goto(w, "find")
        /\ loc' = [loc EXCEPT ![w].free = IF boxes[loc[w].i].taken THEN -1 ELSE loc[w].i,
                              ![w].i = 0]
  /\ UNCHANGED <<fsVars, requestVars, boxes, box_mutex, pub_box_mutex, sub_box_mutex,
                 clientVars, failed>>

IsNamed(w, s) == boxes[s].taken /\ boxes[s].box_name = Name(w)

FindBox(w) ==
  /\ At(w, "find") /\ ScanTurn(w)
  /\ \/ /\ IsNamed(w, loc[w].i)
        /\ boxes_mutex' = NoThread /\ Goto(w, "found")
        /\ loc' = [loc EXCEPT ![w].spot = loc[w].i]
     \/ /\ ~IsNamed(w, loc[w].i) /\ ~LastSpot(w)
        /\ ScanNext(w)
     \/ /\ ~IsNamed(w, loc[w].i) /\ LastSpot(w) /\ Code(w) # "remove"
        /\ boxes_mutex' = NoThread /\ Goto(w, MissStep[Code(w)])
        /\ UNCHANGED loc
  /\ UNCHANGED <<fsVars, requestVars, boxes, box_mutex, pub_box_mutex, sub_box_mutex,
                 clientVars, failed>>

\* remove_box does not test the index, and writes before the array.
FindNothing(w) ==
  /\ At(w, "find") /\ ScanTurn(w) /\ LastSpot(w)
  /\ ~IsNamed(w, loc[w].i) /\ Code(w) = "remove"
  /\ Crash

\* find_box locks the box when it has released boxes_mutex.
Found(w) ==
  /\ At(w, "found") /\ LockBox(w)
  /\ Goto(w, HitStep[Code(w)])
  /\ UNCHANGED <<fsVars, requestVars, boxes, boxes_mutex, pub_box_mutex, sub_box_mutex,
                 loc, clientVars, failed>>

-----------------------------------------------------------------------------
(* list_boxes                                                              *)

BoxOf(s) == [box_name |-> boxes[s].box_name, box_size |-> boxes[s].box_size,
             n_publishers |-> boxes[s].n_publishers,
             n_subscribers |-> boxes[s].n_subscribers]

\* Mutant: the last spot is not looked at.
ListSpotShort(w) ==
  LET s == loc[w].i
      reply == IF boxes[s].taken /\ ~LastSpot(w)
               THEN [box_amount |-> loc[w].reply.box_amount + 1,
                     boxes |-> [loc[w].reply.boxes EXCEPT ![s] = BoxOf(s)]]
               ELSE loc[w].reply
  IN
  /\ At(w, "list") /\ ScanTurn(w)
  /\ loc' = [loc EXCEPT ![w].reply = reply, ![w].i = IF LastSpot(w) THEN 0 ELSE s + 1]
  /\ boxes_mutex' = IF LastSpot(w) THEN NoThread ELSE w
  /\ Goto(w, IF LastSpot(w) THEN "list_reply" ELSE "list")
  /\ UNCHANGED <<fsVars, requestVars, boxes, box_mutex, pub_box_mutex, sub_box_mutex,
                 clientVars, failed>>

\* A box that is taken is copied to its own place in the reply.
ListSpot(w) ==
  LET s == loc[w].i
      reply == IF boxes[s].taken
               THEN [box_amount |-> loc[w].reply.box_amount + 1,
                     boxes |-> [loc[w].reply.boxes EXCEPT ![s] = BoxOf(s)]]
               ELSE loc[w].reply
  IN
  /\ At(w, "list") /\ ScanTurn(w)
  /\ loc' = [loc EXCEPT ![w].reply = reply, ![w].i = IF LastSpot(w) THEN 0 ELSE s + 1]
  /\ boxes_mutex' = IF LastSpot(w) THEN NoThread ELSE w
  /\ Goto(w, IF LastSpot(w) THEN "list_reply" ELSE "list")
  /\ UNCHANGED <<fsVars, requestVars, boxes, box_mutex, pub_box_mutex, sub_box_mutex,
                 clientVars, failed>>

\* The manager prints the first places, as many as there are boxes.
ListReply(w) ==
  /\ At(w, "list_reply") /\ client[req[w]] = "sent"
  /\ client' = [client EXCEPT ![req[w]] = "done"]
  /\ shown' = [shown EXCEPT ![req[w]] =
                 Manager!Listing(loc[w].reply.boxes, loc[w].reply.box_amount)]
  /\ Goto(w, "idle")
  /\ UNCHANGED <<fsVars, requestVars, boxes, lockVars, loc, pipe, sent, got, heard,
                 message_count, failed>>

-----------------------------------------------------------------------------
(* create_box and remove_box                                               *)

CreateExists(w) ==
  /\ At(w, "exists") /\ UnlockBox(w) /\ Goto(w, "reply")
  /\ UNCHANGED <<fsVars, requestVars, boxes, boxes_mutex, pub_box_mutex, sub_box_mutex,
                 loc, clientVars, failed>>

CreateFile(w) ==
  /\ At(w, "create")
  /\ \/ /\ loc[w].free = -1 /\ Goto(w, "reply")
        /\ UNCHANGED <<fsVars, loc>>
     \/ /\ loc[w].free # -1
        /\ \E fd \in Handles \cup {-1} :
             /\ tfs_open(Name(w), {"CREAT"}, fd)
             /\ Goto(w, IF fd = -1 THEN "reply" ELSE "create_taken")
             /\ loc' = [loc EXCEPT ![w].fd = fd, ![w].spot = loc[w].free]
  /\ UNCHANGED <<requestVars, boxes, lockVars, clientVars, failed>>

\* The spot is written with no lock, in three steps that others can see.
CreateTaken(w) ==
  /\ At(w, "create_taken") /\ Goto(w, "create_name")
  /\ boxes' = [boxes EXCEPT ![loc[w].spot].taken = TRUE]
  /\ UNCHANGED <<fsVars, requestVars, lockVars, loc, clientVars, failed>>

CreateName(w) ==
  /\ At(w, "create_name") /\ Goto(w, "create_box")
  /\ boxes' = [boxes EXCEPT ![loc[w].spot].box_name = Name(w)]
  /\ UNCHANGED <<fsVars, requestVars, lockVars, loc, clientVars, failed>>

\* The mutexes are initialised, held or not; a thread that sleeps on the
\* condition variable that is initialised is not woken by it again.
CreateBox(w) ==
  LET s == loc[w].spot IN
  /\ At(w, "create_box")
  /\ pc' = [u \in Workers |-> IF u = w THEN "create_close"
                              ELSE IF pc[u] = "asleep" /\ loc[u].spot = s THEN "stranded"
                              ELSE pc[u]]
  /\ boxes' = [boxes EXCEPT ![s].n_publishers = 0, ![s].n_subscribers = 0, ![s].box_size = 0]
  /\ box_mutex' = [box_mutex EXCEPT ![s] = NoThread]
  /\ pub_box_mutex' = [pub_box_mutex EXCEPT ![s] = NoThread]
  /\ sub_box_mutex' = [sub_box_mutex EXCEPT ![s] = NoThread]
  /\ UNCHANGED <<fsVars, requestVars, boxes_mutex, loc, clientVars, failed>>

CreateClose(w) ==
  /\ At(w, "create_close") /\ tfs_close(loc[w].fd) /\ Goto(w, "reply")
  /\ UNCHANGED <<requestVars, boxes, lockVars, loc, clientVars, failed>>

\* The manager reads the reply: the open waits for it.
Reply(w) ==
  /\ At(w, "reply") /\ client[req[w]] = "sent"
  /\ client' = [client EXCEPT ![req[w]] = "done"]
  /\ Goto(w, "idle")
  /\ UNCHANGED <<fsVars, requestVars, boxes, lockVars, loc, pipe, sent, got, printVars, failed>>

RemoveFile(w) ==
  /\ At(w, "unlink")
  /\ \/ /\ tfs_lookup(Name(w)) = -1 /\ Goto(w, "reply")
        /\ UNCHANGED fsVars
     \/ /\ tfs_lookup(Name(w)) # -1 /\ Goto(w, "find")
        /\ tfs_unlink(Name(w))
  /\ UNCHANGED <<requestVars, boxes, lockVars, loc, clientVars, failed>>

\* Mutant: the spot stays taken.
RemoveKeepsSpot(w) ==
  LET s == loc[w].spot IN
  /\ At(w, "remove") /\ Goto(w, "remove_wake")
  /\ UnlockBox(w)
  /\ pub_box_mutex' = [pub_box_mutex EXCEPT ![s] = Released(@)]
  /\ sub_box_mutex' = [sub_box_mutex EXCEPT ![s] = Released(@)]
  /\ UNCHANGED <<fsVars, requestVars, boxes, boxes_mutex, loc, clientVars, failed>>

\* All the mutexes are unlocked, those that a session of the box holds too.
RemoveUnlock(w) ==
  LET s == loc[w].spot IN
  /\ At(w, "remove") /\ Goto(w, "remove_wake")
  /\ boxes' = [boxes EXCEPT ![s].taken = FALSE]
  /\ UnlockBox(w)
  /\ pub_box_mutex' = [pub_box_mutex EXCEPT ![s] = Released(@)]
  /\ sub_box_mutex' = [sub_box_mutex EXCEPT ![s] = Released(@)]
  /\ UNCHANGED <<fsVars, requestVars, boxes_mutex, loc, clientVars, failed>>

\* The outcomes of destroying a mutex: one that is held is busy and stays, and
\* so may one that was unlocked when nobody held it.
Destroyed(m) == IF Lockable(m) THEN {m, NoMutex} ELSE {m}

\* The broadcast comes before the condition variable is destroyed.
RemoveWake(w) ==
  /\ At(w, "remove_wake")
  /\ pc' = [Woken(pc, loc[w].spot) EXCEPT ![w] = "remove_destroy"]
  /\ UNCHANGED <<fsVars, requestVars, boxes, lockVars, loc, clientVars, failed>>

RemoveDestroy(w) ==
  LET s == loc[w].spot IN
  /\ At(w, "remove_destroy") /\ Goto(w, "remove_cond")
  /\ \E m \in Destroyed(box_mutex[s]), p \in Destroyed(pub_box_mutex[s]),
        u \in Destroyed(sub_box_mutex[s]) :
       /\ box_mutex' = [box_mutex EXCEPT ![s] = m]
       /\ pub_box_mutex' = [pub_box_mutex EXCEPT ![s] = p]
       /\ sub_box_mutex' = [sub_box_mutex EXCEPT ![s] = u]
  /\ UNCHANGED <<fsVars, requestVars, boxes, boxes_mutex, loc, clientVars, failed>>

\* pthread_cond_destroy waits for those that sleep on the condition variable,
\* which began to after the broadcast.
RemoveCond(w) ==
  /\ At(w, "remove_cond")
  /\ ~ \E v \in Workers : pc[v] = "asleep" /\ loc[v].spot = loc[w].spot
  /\ Goto(w, "reply")
  /\ UNCHANGED <<fsVars, requestVars, boxes, lockVars, loc, clientVars, failed>>

-----------------------------------------------------------------------------
(* register_publisher                                                      *)

\* Mutant: the count is not tested.
PubCountAny(w) ==
  /\ At(w, "publish") /\ UnlockBox(w) /\ Goto(w, "pub_open")
  /\ boxes' = [boxes EXCEPT ![loc[w].spot].n_publishers = 1]
  /\ UNCHANGED <<fsVars, requestVars, boxes_mutex, pub_box_mutex, sub_box_mutex,
                 loc, clientVars, failed>>

\* When the box has a publisher the worker returns, and says nothing.
PubCount(w) ==
  /\ At(w, "publish") /\ UnlockBox(w)
  /\ \/ /\ Box(w).n_publishers = 0 /\ Goto(w, "pub_open")
        /\ boxes' = [boxes EXCEPT ![loc[w].spot].n_publishers = 1]
     \/ /\ Box(w).n_publishers # 0 /\ Goto(w, "idle")
        /\ UNCHANGED boxes
  /\ UNCHANGED <<fsVars, requestVars, boxes_mutex, pub_box_mutex, sub_box_mutex,
                 loc, clientVars, failed>>

\* Mutant: the file is opened at its beginning.
PubOpenFirst(w) ==
  /\ At(w, "pub_open") /\ client[req[w]] = "sent"
  /\ client' = [client EXCEPT ![req[w]] = "open"]
  /\ \E fd \in Handles \cup {-1} :
       /\ tfs_open(Name(w), {}, fd)
       /\ Goto(w, IF fd = -1 THEN "idle" ELSE "pub_lock")
       /\ loc' = [loc EXCEPT ![w].fd = fd]
  /\ UNCHANGED <<requestVars, boxes, lockVars, pipe, sent, got, printVars, failed>>

\* When the file cannot be opened the count stays.
PubOpen(w) ==
  /\ At(w, "pub_open") /\ client[req[w]] = "sent"
  /\ client' = [client EXCEPT ![req[w]] = "open"]
  /\ \E fd \in Handles \cup {-1} :
       /\ tfs_open(Name(w), {"APPEND"}, fd)
       /\ Goto(w, IF fd = -1 THEN "idle" ELSE "pub_lock")
       /\ loc' = [loc EXCEPT ![w].fd = fd]
  /\ UNCHANGED <<requestVars, boxes, lockVars, pipe, sent, got, printVars, failed>>

PubLock(w) ==
  LET s == loc[w].spot IN
  /\ At(w, "pub_lock") /\ Lockable(pub_box_mutex[s])
  /\ pub_box_mutex' = [pub_box_mutex EXCEPT ![s] = Locked(@, w)]
  /\ Goto(w, "pub_read")
  /\ UNCHANGED <<fsVars, requestVars, boxes, boxes_mutex, box_mutex, sub_box_mutex,
                 loc, clientVars, failed>>

\* The first zero in the buffer, and no other, becomes a newline.
Newline(messages) ==
  [i \in DOMAIN messages |-> IF i = 1 THEN [messages[i] EXCEPT !.end = "newline"]
                             ELSE messages[i]]

\* Mutant: the zeros stay.
PubReadZero(w) ==
  LET c == req[w]
      n == Min({Len(pipe[c]), Buffer})
  IN
  /\ At(w, "pub_read")
  /\ pipe[c] # <<>> \/ client[c] = "left"
  /\ loc' = [loc EXCEPT ![w].buffer = SubSeq(pipe[c], 1, n)]
  /\ pipe' = [pipe EXCEPT ![c] = SubSeq(@, n + 1, Len(@))]
  /\ Goto(w, "pub_write")
  /\ UNCHANGED <<fsVars, requestVars, boxes, lockVars, client, sent, got, printVars, failed>>

\* read returns what is in the pipe, up to the size of the buffer, or 0 once
\* the publisher has left.  The buffer then has no terminator where strlen
\* looks for one, and what it overwrites may end the broker.
PubRead(w) ==
  LET c == req[w]
      n == Min({Len(pipe[c]), Buffer})
  IN
  /\ At(w, "pub_read")
  /\ pipe[c] # <<>> \/ client[c] = "left"
  /\ \/ /\ loc' = [loc EXCEPT ![w].buffer = Newline(SubSeq(pipe[c], 1, n))]
        /\ pipe' = [pipe EXCEPT ![c] = SubSeq(@, n + 1, Len(@))]
        /\ Goto(w, "pub_write")
        /\ UNCHANGED <<fsVars, requestVars, boxes, lockVars, client, sent, got, printVars,
                       failed>>
     \/ /\ pipe[c] = <<>>
        /\ Crash

PubWrite(w) ==
  /\ At(w, "pub_write")
  /\ \E n \in -1 .. Len(loc[w].buffer) :
       /\ tfs_write(loc[w].fd, loc[w].buffer, n)
       /\ boxes' = [boxes EXCEPT ![loc[w].spot].box_size = (@ + n) % SizeT]
       /\ loc' = [loc EXCEPT ![w].n = n]
  /\ Goto(w, "pub_signal")
  /\ UNCHANGED <<requestVars, lockVars, clientVars, failed>>

\* Mutant: the session goes on when read has returned 0.
PubSignalAtEnd(w) ==
  LET next == IF loc[w].n # Len(loc[w].buffer) THEN "pub_short" ELSE "pub_read"
      awake == IF loc[w].n > 0 /\ Box(w).n_subscribers > 0
               THEN Woken(pc, loc[w].spot) ELSE pc
  IN
  /\ At(w, "pub_signal")
  /\ pc' = [awake EXCEPT ![w] = next]
  /\ UNCHANGED <<fsVars, requestVars, boxes, lockVars, loc, clientVars, failed>>

\* The broadcast, which does not take sub_box_mutex, and the tests after it.
PubSignal(w) ==
  LET next == IF loc[w].n # Len(loc[w].buffer) THEN "pub_short"
              ELSE IF loc[w].n = 0 THEN "pub_end" ELSE "pub_read"
      awake == IF loc[w].n > 0 /\ Box(w).n_subscribers > 0
               THEN Woken(pc, loc[w].spot) ELSE pc
  IN
  /\ At(w, "pub_signal")
  /\ pc' = [awake EXCEPT ![w] = next]
  /\ UNCHANGED <<fsVars, requestVars, boxes, lockVars, loc, clientVars, failed>>

PubClose(w, from, to) ==
  /\ At(w, from) /\ tfs_close(loc[w].fd)
  /\ pub_box_mutex' = [pub_box_mutex EXCEPT ![loc[w].spot] = Released(@)]
  /\ Goto(w, to)
  /\ UNCHANGED <<requestVars, boxes, boxes_mutex, box_mutex, sub_box_mutex, loc,
                 clientVars, failed>>

\* Mutant: the other count is decremented, as after a short write.
PubUncountOther(w) ==
  /\ At(w, "pub_uncount") /\ Lockable(box_mutex[loc[w].spot])
  /\ boxes' = [boxes EXCEPT ![loc[w].spot].n_subscribers = (@ - 1) % SizeT]
  /\ Goto(w, "idle")
  /\ UNCHANGED <<fsVars, requestVars, lockVars, loc, clientVars, failed>>

\* box_mutex is taken and released around the decrement.
PubUncount(w) ==
  /\ At(w, "pub_uncount") /\ Lockable(box_mutex[loc[w].spot])
  /\ boxes' = [boxes EXCEPT ![loc[w].spot].n_publishers = (@ - 1) % SizeT]
  /\ Goto(w, "idle")
  /\ UNCHANGED <<fsVars, requestVars, lockVars, loc, clientVars, failed>>

\* Mutant: the count goes below zero.
PubMiscountSigned(w) ==
  /\ At(w, "pub_miscount") /\ Lockable(box_mutex[loc[w].spot])
  /\ boxes' = [boxes EXCEPT ![loc[w].spot].n_subscribers = @ - 1]
  /\ Goto(w, "idle")
  /\ UNCHANGED <<fsVars, requestVars, lockVars, loc, clientVars, failed>>

\* After a short write it is the number of subscribers that is decremented.
PubMiscount(w) ==
  /\ At(w, "pub_miscount") /\ Lockable(box_mutex[loc[w].spot])
  /\ boxes' = [boxes EXCEPT ![loc[w].spot].n_subscribers = (@ - 1) % SizeT]
  /\ Goto(w, "idle")
  /\ UNCHANGED <<fsVars, requestVars, lockVars, loc, clientVars, failed>>

-----------------------------------------------------------------------------
(* register_subscriber.  The session has no end: a FIFO takes a write of   *)
(* MESSAGE_SIZE bytes whole, and tfs_read does not fail on a handle the    *)
(* session has open.                                                       *)

\* Mutant: box_mutex is not released.
SubCountLocked(w) ==
  /\ At(w, "subscribe") /\ Goto(w, "sub_open")
  /\ boxes' = [boxes EXCEPT ![loc[w].spot].n_subscribers = (@ + 1) % SizeT]
  /\ UNCHANGED <<fsVars, requestVars, lockVars, loc, clientVars, failed>>

SubCount(w) ==
  /\ At(w, "subscribe") /\ UnlockBox(w) /\ Goto(w, "sub_open")
  /\ boxes' = [boxes EXCEPT ![loc[w].spot].n_subscribers = (@ + 1) % SizeT]
  /\ UNCHANGED <<fsVars, requestVars, boxes_mutex, pub_box_mutex, sub_box_mutex,
                 loc, clientVars, failed>>

SubOpen(w) ==
  /\ At(w, "sub_open") /\ client[req[w]] = "sent"
  /\ client' = [client EXCEPT ![req[w]] = "open"]
  /\ \E fd \in Handles \cup {-1} :
       /\ tfs_open(Name(w), {}, fd)
       /\ Goto(w, IF fd = -1 THEN "refuse" ELSE "sub_lock")
       /\ loc' = [loc EXCEPT ![w].fd = fd]
  /\ UNCHANGED <<requestVars, boxes, lockVars, pipe, sent, got, printVars, failed>>

\* shutdown_subscriber
Refuse(w) ==
  /\ At(w, "refuse") /\ client[req[w]] \in {"sent", "open"}
  /\ client' = [client EXCEPT ![req[w]] = "done"]
  /\ Goto(w, "idle")
  /\ UNCHANGED <<fsVars, requestVars, boxes, lockVars, loc, pipe, sent, got, printVars, failed>>

\* The first lock, and the one that ends pthread_cond_wait.
SubLock(w) ==
  LET s == loc[w].spot IN
  /\ ~failed /\ pc[w] \in {"sub_lock", "woken"} /\ Lockable(sub_box_mutex[s])
  /\ sub_box_mutex' = [sub_box_mutex EXCEPT ![s] = Locked(@, w)]
  /\ Goto(w, "sub_read")
  /\ UNCHANGED <<fsVars, requestVars, boxes, boxes_mutex, box_mutex, pub_box_mutex,
                 loc, clientVars, failed>>

SubRead(w) ==
  /\ At(w, "sub_read")
  /\ IF ReadFails(loc[w].fd, Buffer) THEN Crash
     ELSE /\ tfs_read(loc[w].fd, Buffer)
          /\ loc' = [loc EXCEPT ![w].buffer = Contents(loc[w].fd, Buffer)]
          /\ Goto(w, IF ToRead(loc[w].fd, Buffer) = 0 THEN "sub_wait" ELSE "sub_send")
          /\ UNCHANGED <<requestVars, boxes, lockVars, clientVars, failed>>

\* pthread_cond_wait: with a destroyed mutex it returns at once.
SubWait(w) ==
  LET s == loc[w].spot IN
  /\ At(w, "sub_wait")
  /\ Goto(w, IF sub_box_mutex[s] = NoMutex THEN "sub_read" ELSE "asleep")
  /\ sub_box_mutex' = [sub_box_mutex EXCEPT ![s] = Released(@)]
  /\ UNCHANGED <<fsVars, requestVars, boxes, boxes_mutex, box_mutex, pub_box_mutex,
                 loc, clientVars, failed>>

\* Nobody reads the pipe of a subscriber that left: SIGPIPE ends the broker.
SubSend(w) ==
  /\ At(w, "sub_send")
  /\ \/ /\ client[req[w]] = "left"
        /\ Crash
     \/ /\ client[req[w]] = "open"
        /\ got' = [got EXCEPT ![req[w]] = @ \o loc[w].buffer]
        /\ Goto(w, "sub_read")
        /\ UNCHANGED <<fsVars, requestVars, boxes, lockVars, loc, client, pipe, sent, printVars,
                       failed>>

\* POSIX allows a wait to end with no signal.
WakeSpuriously(w) ==
  /\ ~failed /\ pc[w] \in {"asleep", "stranded"} /\ Goto(w, "woken")
  /\ UNCHANGED <<fsVars, requestVars, boxes, lockVars, loc, clientVars, failed>>

-----------------------------------------------------------------------------
\* What a worker does by itself, once it has been created.
Work(w) ==
  \/ Begin(w) \/ ListSpot(w) \/ ListReply(w) \/ EmptySpot(w) \/ FindBox(w) \/ FindNothing(w) \/ Found(w)
  \/ CreateExists(w) \/ CreateFile(w) \/ CreateTaken(w) \/ CreateName(w)
  \/ CreateBox(w) \/ CreateClose(w) \/ Reply(w)
  \/ RemoveFile(w) \/ RemoveUnlock(w) \/ RemoveWake(w) \/ RemoveDestroy(w)
  \/ RemoveCond(w)
  \/ PubCount(w) \/ PubOpen(w) \/ PubLock(w) \/ PubRead(w) \/ PubWrite(w) \/ PubSignal(w)
  \/ PubClose(w, "pub_end", "pub_uncount") \/ PubClose(w, "pub_short", "pub_miscount")
  \/ PubUncount(w) \/ PubMiscount(w)
  \/ SubCount(w) \/ SubOpen(w) \/ Refuse(w) \/ SubLock(w) \/ SubRead(w)
  \/ SubWait(w) \/ SubSend(w)

Next ==
  \/ \E w \in Workers : Work(w) \/ WakeSpuriously(w)
  \/ \E c \in Clients : Register(c) \/ RegisterEnds(c) \/ Publish(c) \/ Receive(c)
                       \/ ReceiveError(c) \/ Leave(c)
  \/ sig_handler

Spec == Init /\ [][Next]_vars
FairSpec == Spec /\ \A w \in Workers : WF_vars(Work(w))

\* While a box is removed nobody else creates or removes one, and it has no sessions:
\* a removal deletes a file that is open.  No answer tells a client when a publisher's
\* session has ended, so that this is about the behaviour and not about the requests.
RemovesApart ==
  \A v, w \in Workers :
    v # w /\ pc[v] # "idle" /\ pc[w] # "idle" /\ Code(w) = "remove" =>
      \/ Code(v) = "list"
      \/ Code(v) \in {"publisher", "subscriber"} /\ Name(v) # Name(w)

-----------------------------------------------------------------------------
(* Properties.                                                             *)

PubFile == {"pub_lock", "pub_read", "pub_write", "pub_signal", "pub_short", "pub_end"}
PubSection == PubFile \cup {"pub_open", "pub_uncount", "pub_miscount"}
SubFile == {"sub_lock", "sub_read", "sub_wait", "sub_send", "asleep", "woken", "stranded"}
ManagerSteps == {"empty", "exists", "create", "reply", "unlink", "remove", "remove_wake",
                 "remove_destroy", "remove_cond", "list", "list_reply"}
CreateSection == {"create_taken", "create_name", "create_box", "create_close"}
Labels == {"idle", "find", "found", "publish", "subscribe", "sub_open", "refuse"}
  \cup PubSection \cup SubFile \cup ManagerSteps \cup CreateSection

Message == [from : Clients, nr : 1 .. MaxMessages, end : {"nul", "newline"}]
ListedBox == [box_name : Names \cup {NoName}, box_size : 0 .. SizeT - 1,
              n_publishers : 0 .. SizeT - 1, n_subscribers : 0 .. SizeT - 1]
Owner == Workers \cup {NoThread, NoMutex}

\* The types of what the broker keeps.
BrokerTypeOK ==
  /\ FSTypeOK(Message)
  /\ queue \in Seq(Clients) /\ req \in [Workers -> Clients \cup {NoClient}]
  /\ boxes \in [Spots -> [taken : BOOLEAN, box_name : Names \cup {NoName},
       n_publishers : 0 .. SizeT - 1, n_subscribers : 0 .. SizeT - 1, box_size : 0 .. SizeT - 1]]
  /\ boxes_mutex \in Workers \cup {NoThread}
  /\ box_mutex \in [Spots -> Owner] /\ pub_box_mutex \in [Spots -> Owner]
  /\ sub_box_mutex \in [Spots -> Owner]
  /\ pc \in [Workers -> Labels]
  /\ loc \in [Workers -> [free : Spots \cup {-1}, spot : Spots \cup {-1}, i : Spots,
       fd : Handles \cup {-1}, buffer : Seq(Message \cup {NoCell}), n : -1 .. Buffer,
       reply : [box_amount : 0 .. MAX_BOX_NUMBER, boxes : [Spots -> ListedBox]]]]
  /\ failed \in BOOLEAN

\* Type correctness, of the broker and of its clients.
TypeOK ==
  /\ BrokerTypeOK
  /\ client \in [Clients -> {"new", "sent", "open", "done", "left"}]
  /\ pipe \in [Clients -> Seq(Message)] /\ sent \in [Clients -> 0 .. MaxMessages]
  /\ got \in [Clients -> Seq(Message \cup {NoCell})]
  /\ heard \in [Clients -> Nat] /\ message_count \in [Clients -> Nat]
  /\ shown \in [Clients -> Seq(ListedBox)]

\* A box that has a publisher's session counts one, and no box has two sessions of
\* publishers, although the worker has given box_mutex up when its session begins.
OnePublisher ==
  \A w \in Workers : pc[w] \in PubSection =>
    /\ Box(w).n_publishers > 0
    /\ \A v \in Workers \ {w} : pc[v] \in PubSection => loc[v].spot # loc[w].spot

\* Every session, and every creation, has an open file of its own, and it is the
\* file of the box it was asked for.
SessionsApart ==
  \A w \in Workers : pc[w] \in PubFile \cup SubFile \cup CreateSection =>
    /\ loc[w].fd \in Handles \ free_open_file_entries
    /\ open_file_table[loc[w].fd].of_inumber = tfs_lookup(Name(w))
    /\ \A v \in Workers \ {w} :
         pc[v] \in PubFile \cup SubFile \cup CreateSection => loc[v].fd # loc[w].fd

\* The removal of a box (remove_box, tfs_unlink) leaves the files and the handles of the
\* sessions and creations of the other boxes alone, until one is removed that is in use.
OthersUndisturbed == []RemovesApart => []SessionsApart

\* A file's messages: of each publisher the first ones, in the order it sent them.
InOrder(cells) ==
  \A i \in DOMAIN cells :
    cells[i].nr = 1 + Cardinality({j \in 1 .. i - 1 : cells[j].from = cells[i].from})

\* What a subscriber was sent is the beginning of the box's file, nothing left out
\* and nothing twice, and the file has what each publisher sent in its order.
StreamKept ==
  \A w \in Workers : pc[w] \in SubFile =>
    LET inode == InodeOf(loc[w].fd)
        Cells(n) == [c \in 1 .. n |-> fs_data[inode.i_data_block][c]]
        pending == IF pc[w] = "sub_send" THEN loc[w].buffer ELSE <<>>
    IN  /\ got[req[w]] \o pending = Cells(OffsetOf(loc[w].fd))
        /\ InOrder(Cells(inode.i_size))

\* The messages in the file of a box.
FileCells(p) ==
  LET inode == inode_table[tfs_lookup(p)] IN
  IF tfs_lookup(p) = -1 THEN <<>>
  ELSE [c \in 1 .. inode.i_size |-> fs_data[inode.i_data_block][c]]

Log == INSTANCE BoxLog WITH
  Boxes <- Names, Readers <- Clients, Source <- [c \in Clients |-> Request[c].box],
  Capacity <- BLOCK_SIZE, log <- [p \in Names |-> FileCells(p)], feed <- got

\* While no box is removed, the boxes, with their sessions, files and handles, are
\* the append-only logs of BoxLog: no step takes a message of a box away, changes it
\* or sends a subscriber anything but the next messages of its box.
BoxLogged == Log!Spec

\* A message that is not the end of a line is one that the broker read together with
\* another of the same publisher before it: the texts of two publishers, or of two
\* reads, never run into one line.
LinesKept ==
  \A p \in Names : LET cells == FileCells(p) IN
    \A i \in DOMAIN cells :
      cells[i].end = "nul" => i > 1 /\ cells[i - 1].from = cells[i].from

\* A subscriber counts the messages with a text it has read, all of them if the broker
\* has made each a line, and no others, until a read may have filled its buffer.
AllCounted ==
  \A c \in Clients : heard[c] < MESSAGE_SIZE =>
    /\ message_count[c] <= LinesIn(got[c], heard[c])
    /\ (\A i \in 1 .. heard[c] : got[c][i].end = "newline")
         => message_count[c] = LinesIn(got[c], heard[c])

\* n_publishers is the number of publishers' sessions of the box and n_subscribers
\* never more than those of subscribers, although sessions come and go without a
\* common lock and the creation sets both to 0 when they may have begun.  Once the
\* box is full a session has decremented the wrong one.
CountsKept ==
  LET Creating(s) == \E w \in Workers : pc[w] \in CreateSection /\ loc[w].spot = s
      In(labels, s) == Cardinality({w \in Workers : pc[w] \in labels /\ loc[w].spot = s})
  IN
  \A s \in Spots :
    boxes[s].taken /\ ~Creating(s) /\ Len(FileCells(boxes[s].box_name)) < BLOCK_SIZE =>
      /\ boxes[s].n_publishers = In(PubSection, s)
      /\ boxes[s].n_subscribers <= In(SubFile \cup {"sub_open"}, s)

\* When no box is being created or removed and those there are take the first spots
\* of the array, the manager prints them all, once each and in the order of names.
PrintsAll ==
  LET Taken == {boxes[s].box_name : s \in {r \in Spots : boxes[r].taken}}
      Idle == \A w \in Workers : pc[w] # "idle" => Code(w) \notin {"create", "remove"}
      InFront == \A r, s \in Spots : boxes[s].taken /\ r < s => boxes[r].taken
  IN
  \A c \in Clients : shown'[c] # shown[c] /\ Idle /\ InFront =>
    /\ {shown'[c][i].box_name : i \in DOMAIN shown'[c]} = Taken
    /\ Len(shown'[c]) = Cardinality(Taken)
    /\ \A i, j \in DOMAIN shown'[c] :
         i < j => Rank[shown'[c][i].box_name] < Rank[shown'[c][j].box_name]

\* A manager prints no other listing, though the boxes are copied spot by spot.
ListingComplete == [][PrintsAll]_vars

\* What the manager prints of any reply of up to three boxes: the same boxes, each as
\* often and with its own size, in an order in which the names do not descend.
PrintsRight ==
  LET Listed == [box_name : Names \cup {NoName}, box_size : {0, 1},
                 n_publishers : {0}, n_subscribers : {0}]
      Copies(list, box) == Cardinality({i \in DOMAIN list : list[i] = box})
  IN
  \A n \in 1 .. 3 : \A reply \in [0 .. n - 1 -> Listed] :
    LET listing == Manager!Listing(reply, n) IN
    /\ \A box \in Listed : Copies(listing, box) = Copies(reply, box)
    /\ \A i \in 1 .. n - 1 : Rank[listing[i].box_name] <= Rank[listing[i + 1].box_name]

\* A manager that prints would have printed any such reply right, also when boxes have
\* the same name.
ListingSorted == [][shown' # shown => PrintsRight]_vars

\* A spot that is taken, and whose name has been written.
Made(s) == /\ boxes[s].taken
           /\ \A w \in Workers : ~(pc[w] = "create_name" /\ loc[w].spot = s)

\* The boxes that are taken have different names and each has its file, except while
\* the worker that creates or removes it is between the two.
BoxesBacked ==
  LET Removing(p) == \E w \in Workers : /\ pc[w] \in {"find", "found", "remove"}
                                        /\ Code(w) = "remove" /\ Name(w) = p
  IN  /\ \A s \in Spots : Made(s) =>
           tfs_lookup(boxes[s].box_name) # -1 \/ Removing(boxes[s].box_name)
      /\ \A r, s \in Spots :
           Made(r) /\ Made(s) /\ boxes[r].box_name = boxes[s].box_name => r = s

\* When the publisher has left, its session ends and the worker is free again.
PublisherLeaves ==
  \A w \in Workers :
    (pc[w] \in PubFile /\ client[req[w]] = "left") ~> (pc[w] = "idle" \/ failed)

\* A manager's request that a worker has taken is answered, unless the manager does
\* not wait for the answer: no mutex, of boxes or of a box, is kept from the worker.
\* A removal may be kept by a subscriber that sleeps on the box's condition variable.
ManagersAnswered ==
  \A w \in Workers :
    (pc[w] # "idle" /\ Code(w) \in {"create", "remove", "list"})
      ~> \/ pc[w] = "idle" \/ client[req[w]] = "left" \/ failed
         \/ /\ pc[w] = "remove_cond"
            /\ \E v \in Workers : pc[v] = "asleep" /\ loc[v].spot = loc[w].spot

\* "Box already exists.": no two boxes, each with its name written, have the same one.
UniqueBoxes ==
  \A r, s \in Spots : Made(r) /\ Made(s) /\ boxes[r].box_name = boxes[s].box_name => r = s

\* "must wait for a publisher to write, then reads again": a subscriber that waits
\* while there is a message for it is woken, unless it leaves.
MessageHeard ==
  \A w \in Workers :
    (pc[w] = "asleep" /\ client[req[w]] = "open"
       /\ OffsetOf(loc[w].fd) < InodeOf(loc[w].fd).i_size)
      ~> (pc[w] # "asleep" \/ client[req[w]] # "open" \/ failed)
=============================================================================
