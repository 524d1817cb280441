# A verification development for KDC

The repository is a set of C exercises that grow into one system: `src/Messenger_v2`, a chat
server and its client with delayed messages, accounts and a small file database. This directory has
TLA+ modules of the server, the client, the event loop, the database, the containers they are built
on and of the first messenger they grew from; TLC configurations that check them on small instances;
and theorems about them that TLAPS checks for every value of the constants.

    tlc -workers 2 -config MCServer_sessions.cfg MCServer    # one run
    tlapm Server_proof.tla                                   # one proof module

## 1. The system

### Components

| part | code | state | operations |
|---|---|---|---|
| Server | `Messenger_v2/server.c`, `server_main.c` | `client_list` (descriptor, read state, buffer, history cursor), `online_list` (account id, user id, descriptor), the two databases | accept, disconnect, ten request types, the timer callback of a delayed message |
| Looper | `looper.c` | `watcher_list`, `timer_list`, next watcher id | add and remove watchers and timers, `looper_run` (expired timers, then `poll`, then ready descriptors) |
| DataBase | `database.c`, `index_file.c`, `data_file.c`, `entry_point.c` | the index file and the append-only data file; in memory the list of (id, offset), `last_id`, one keyword tree per keyword column | open, close, add, update, delete, delete all, get, search |
| Message db | `message_db.c`, `message.c` | a DataBase with the columns of a message | add, get a range, count, delete all |
| Account db, keyword index | `account_db.c`, `account.c`, parts of `index_file.c` | a DataBase with the keyword columns user id and password | add, delete, identify, search |
| AVL tree | `src/AVL_Tree/tree.c` | nodes with a key, one value (an id) and a height | insert, delete, find, update, print |
| Packet framing | `stream_buf.c`, `packet.c`, `converter.c`, `utils.c` | a buffer with a position, a packet under construction | copy in and out, check sum, short reads and writes |
| Client | `client.c`, `client_main.c` | connection, read state, input buffers, ids of two watchers | commands of the user, replies, pushed messages, the end of either side |
| Doubly linked list | `src/chapter3/DBLinkedList` | nodes with two pointers | append, insert, remove, two sorts, find; a queue and a stack on top |
| B-tree | `src/btree2/btree.c` | nodes of up to M - 1 keys | insert, delete, find |
| First messenger | `src/chapter3/Messanger` | an array of descriptors, a list of clients with their place in the message file, a list of messages, the file | accept, remove a client, four requests; the ancestor of Messenger_v2 without accounts and timers |
| Exercises | `chapter1`, `chapter3/ArrayList`, `chapter3/Point` | one array each | insert, delete, search |

### How they interact

One thread runs everything. `looper_run` calls the callbacks of expired timers, polls all watched
descriptors and calls, for each ready one, the callback of *every* watcher with that descriptor
(`looper.c:79-111`); a hang-up excludes the other events. The server finds its record of a
connection by the watcher's id, but everything that lasts longer than a connection (a session, a
delayed message) names the connection by descriptor. A request is read with blocking `read()`s,
handled, stored in a database if need be, and answered with one blocking `write()`. A database
operation changes the lists in memory, appends to the data file, and unlinks and writes the whole
index file again. The client has the same loop with two watchers, standard input and its socket, and
the same code for cutting a stream into packets. The first messenger has a loop of its own over an
array, in which slots are removed and added while it is walked, and keeps its messages in one file
that all clients read through one descriptor.

### What is hard

* *Reused descriptors.* The kernel gives a closed connection's number to the next one. Watchers are
  never removed, sessions survive a disconnect, and a timer knows only a number.
* *Failure that forgets.* `d_list_remove_with_user_data` returns NULL when nothing matches, and the
  server keeps that as its list of clients: everyone is forgotten with their sockets open.
* *Freed memory that stays linked.* Logging out and deleting an account free a node of
  `online_list` without unlinking it.
* *A thread that waits.* A partial packet sends the only thread into a second `read()`; client and
  server write without looking at what the other has written.
* *Lists changed while they are walked.* Callbacks add timers, add watchers, remove all watchers, or
  remove a slot of an array, in the middle of the loop that called them.
* *Writes that are short.* `write_n_byte` starts again with the first byte.
* *A process that dies.* Writing to a closed connection raises SIGPIPE. Between any two system calls
  of a database operation the files are in an intermediate state.
* *Boundaries.* The history cursor is 1 after accept, 0 after most replies, and moved by page lengths;
  ids of entries are given out again after the highest was deleted.

Which part is correct when: the server, when no packet reaches a connection it was not meant for
unless the intended one has closed, a message is pushed at most once and a broadcast never to its
sender, sessions belong to registered accounts, paging through the history skips and repeats nothing
it should not, and neither timers nor hang-ups wait for ever; the database, when a later open finds
a state that the operations allow and nothing else; the looper, when every watched descriptor is in
the poll set, every watcher is called for its own descriptor and once, and no timer is slept past;
the client, when a line is a request and a reply is read; the trees, when they are balanced and have
exactly the keys added and not deleted; framing, when the stream of packets handled is the stream of
packets sent; the linked list, when its links in both directions agree with the sequence of its
operations; the first messenger, when a client's pages join and nobody falls out of the array.
`PROJECT.json` lists the hazards of each at their lines.

## 2. The modules

### Server.tla

`server.c` as `looper.c` runs it, over the databases' in-memory lists. A connection is its watcher's
id, which grows by one at each accept; a descriptor is what the kernel gives out. `owner` is the
kernel's table, `fdOf` the `fd` field of each watcher, `watchers`/`clients`/`online`/`timers` the
four lists, `pos` is `last_read_pos`, `mid` are the clients in `START_TO_READ_REQ`, `mesgs` and
`accounts` the entries of the two databases, `index` whether the account database has its keyword
tree and whether that is sound, and `tree` the table it stands for (`KeywordTree`). `srv` says where
the thread is: in the loop, in the second `read()` of one connection, before the `write()` of a
reply, or gone. `peer` is the other end of each socket; `got` and `seen` count what was pushed to
and read by each connection. `goal` and `conn` are history fields that no action reads.

| action | code |
|---|---|
| `HandleAcceptEvent` | `server_handle_accept_event`, `looper_add_watcher`, `server_add_client` |
| `HandleDisconnectEvent` | `looper_watcher_dispatch` of a hang-up, `server_handle_disconnect_event`, `server_remove_client`, for every watcher with the descriptor |
| `ReadPart`, `ReadMore`, `DropPacket` | `server_handle_req_event`: an incomplete packet, more bytes of it, a damaged packet |
| `ReqAllMsg`, `ReqFirstOrLastMsg`, `NoMessage` | the history requests in `server_create_res_packet` and `message_db_get_messages` |
| `ReqMakeAccount`, `ReqDeleteAccount`, `ReqLogIn`, `ReqLogOut`, `ReqLogInList` | the account requests, `account_db_*`, `server_login`, `server_logout`, `server_delete_account` |
| `SndMsgToAll`, `SndMsgToOne` | `server_handle_snd_msg_event`: store, then start a timer |
| `IntervalSendPacket` | `looper_timer_dispatch` and `server_interval_send_packet` |
| `SendPacketToClient` | `server_send_packet_to_client`: the reply, or SIGPIPE |
| `PeerClose`, `Restart` | the peer closes its end (external); `main` again |

A request action is the handler from the complete packet to the point where the reply is ready; the
reply is a step of its own because the peer may close before it. Undefined behaviour is a choice: a
freed session node may match a search or not and has any descriptor; freeing it again aborts or goes
on; deleting a key may cost the tree other keys or leave a node with a freed key; a search in such a
tree finds any listed account or none, and an insertion or deletion in it may end the process
(`Lookup`, `AddAccount`, `DeleteAccount`); the uninitialised size of a reply may drop it or end the
process (`SizeGarbage`).

What is abstracted, and which way it errs:

* Ready descriptors and expired timers are handled in any order, not in the order of a poll round:
  the model has more behaviours than the code.
* A request carries a user name and whether the password is right; replies carry message ids.
* A store is one step here and takes one descriptor, because `index_file_update` leaves the old one
  open. A store without a free descriptor does not happen in this module; its failure, and a process
  that ends within a store, are in `DataBase`.
* A request is complete, partial or damaged; how bytes become requests is `Framing`.

### Delivery.tla

What a delayed message is promised: accepted once, pending, then handed out in one go, to nobody
twice, never to the barred connection; everything pending is lost with the process. `Server` maps
`status` to whether a timer exists, `copies` to `got`, and implements it (`DeliverySpec`).

### DataBase.tla

`database.c` and the files below it, one action per system call: `AddEntry`, `UpdateEntry`,
`DeleteEntry` and `DeleteAll` are the effects in memory; `AppendId` and `WriteValue` append the two
parts of a record; `Unlink`, `Create`, `WriteWord` (one per 4-byte word) and `Updated` are
`index_file_update`; `Wipe` empties the data file. `UnlinkFails`, `CreateFails`, `WriteWordFails` and
`AppendFails` are the error paths, `Exit` ends the process anywhere and `Open` is
`index_file_open` and `index_file_load`. The index file is the list it is a copy of and the number of
words written; fewer words than the header announces make `Open` loop for ever in
`utils_read_n_byte`.

Abstracted: a word is written whole or not at all; a full disk stays full; files keep what was
written when the process ends (the machine goes on); the value of an entry is an element of `Val`;
keyword columns are left to a later module. In mode `"undef"`, where the error path of
`database_add_entry` has used freed memory and gone on, only the end of the process is modelled.

### Store.tla

The promise of a database: one operation at a time changes one entry or empties the table. If the
process ends between operations the table survives; within one, the next open finds the table
before, the table after, an empty table, or does not return. It finds no other. `DataBase`
implements it (`StoreSpec`); "empty" and "does not return" are what the code really does, since the
index file is rewritten in place.

### Framing.tla

How packets become a stream of bytes and packets again, by `write_n_byte` on one side and
`server_handle_req_event` and `client_handle_res_events` on the other: the same code twice, so one
module stands for both directions. A byte is its place in the stream; a piece is what one `write()`
put there, `ends` and `full` its end and the length of the packet it begins, and `rd` what `read()`
has returned. `stream_buf_list` always holds a contiguous part of the stream, from `start` to `rd`,
with `room` bytes free in its last buffer. `at` is `"read"` in the second, blocking `read()` that a
call does when it has found a header. `handled` lists the pieces that reached the handler.

| action | code |
|---|---|
| `Write` | `send_packet_to_server`, `server_send_packet_to_client`; a `write()` may be short, and `write_n_byte` (`loops`) then writes the packet's beginning again |
| `ReadHeader` | one call in `READY_TO_READ_*`: too few bytes for a header, bytes that are no header, a packet, or a header and the start of its packet |
| `ReadRest` | `START_TO_READ_*`: the second `read()` of that call, and one `read()` per later call |
| `Finish` | `FINISH_TO_READ_*`: end mark, check sum, overread bytes |

`waits` chooses, once, whether the sender waits for the effect of one packet before the next.
Nothing in the code makes it wait: a user may type two commands, and the server pushes a message
between two replies. Bytes read beyond a packet are copied into a new buffer whose position stays 0,
so that the next bytes are put over them. The model shows exactly this, and `LossHasACause` says that
nothing but this and a short write loses a byte. Abstracted: `SOP` (0xAA) is assumed to occur only at
the start of a packet, though a length or a check sum may contain it; a header that was damaged by a
loss announces any length of `Garbage`; the stream may arrive in more pieces than a local socket
makes of it.

### Client.tla

`client.c`: one thread that reads commands from standard input, sends each as a request and reads
what the server sends, until the server closes. Standard input is a terminal, a pipe or a file, which
differ in what one `read()` returns and in what `poll()` reports at the end. A line is what
`client_create_req_packet` can tell of it (`op`, the number of its `words`, its length), its bytes are
places in the input, and `start`, `rd`, `room` are `stdin_stream_buf_list` as in `Framing`.

| action | code |
|---|---|
| `Poll`, `HandleSocket` | one round of the looper: `client_handle_events` for standard input, then for the socket; a hang-up of the socket ends the program (`client_handle_disconnect`), one of standard input is passed over |
| `HandleStdin` | `client_handle_stdin_event`: keep bytes, or, where the bytes end in a newline, `client_handle_req_input_str` with everything that is there |
| `SendRequest` | `send_packet_to_server`, which waits while the socket is full |
| `TakeRequest`, `WritePiece`, `CloseConnection` | the server (external here): it handles one request at a time and waits in `write()` too |
| `Type`, `StopTyping` | the user (external) |

How replies are cut out of their stream is `Framing`; here a reply is a number of pieces, each read
by one call. Printing is left out.

### Looper.tla

`looper.c` with the callbacks of all three programs that run it: the server's (accept, close, read,
add a timer), the client's (read, remove all watchers) and the timers of `test_timer_looper.c`.
`chain` and `head` are `watcher_list`, which the sort rearranges without storing the new head;
`walk` and `node` are the saved pointers of the two `d_list_foreach` loops; `fds`, `slot` the poll
set and the index into it. `open` and `ready` are the kernel's.

| action | code |
|---|---|
| `StartRound`, `Expired`, `NotExpired` | `looper_timer_callback`, `looper_timer_dispatch` |
| `StartPoll` | `looper_get_fds`: the sort says where each node goes (`Before`, `Place`), and every node of the sorted list fills a slot or, as a repetition, leaves one to `memset` and gives it events if another follows (`Repeats`, `PollSet`) |
| `PollTimesOut`, `PollReturns`, `TimePasses` | `poll()` |
| `NextSlot`, `PassBy`, `EndRound` | `looper_handle_event`, `looper_watcher_dispatch` |
| `ServerHangUp`, `Accept`, `Request`, `ClientHangUp`, `ClientReads` | the watchers' callbacks, called by `looper_watcher_dispatch` |

Of a timer the time left is kept, not its expiration, so that the clock need not be a variable. The
programs never call `looper_remove_watcher` or `looper_remove_timer_with_id`. Descriptors below the
first socket are open: `socket()` gives out the lowest number that is free.

### Messanger.tla

`chapter3/Messanger`: the server that `Messenger_v2` grew from and what its clients ask of it. `array`
and `numfds` are `pollfd_array` with the events that `poll()` reported and the round has still to look
at; `clients` is `client_list` with the place of each in the message file; `list` and `file` are the
messages in memory and on disk. `told` and `pages` in a client's record, `author` and `hungUp` are
history.

| action | code |
|---|---|
| `Poll`, `EndRound` | one round of `run()`, which goes on to the end that the array had at `poll()` |
| `Accept` | `server_handle_accept_event`, `server_add_client`, `add_and_set_fd_event`, also when `accept()` fails and when the array is full |
| `RemoveClientFd` | `remove_client_fd`, `server_remove_client`: the last slot takes the place of the one removed |
| `ReqAllMsg`, `SndMsg`, `ReqFirstMsg`, `ReqLastMsg` | `server_handle_event` with the function that makes the packet |
| `Restart` | `main` again: the list is empty, the file is not |
| `Connect`, `Ask`, `PeerClose` | `client_looper` (a request is one `write()`); the user |

Descriptors are never closed by this server, so that a process has each number once and a connection
can stand for its descriptor. Writing to a closed connection ends the process (SIGPIPE). After a write
beyond the array (`mode = "undef"`) nothing more is modelled. Left out: partial packets, part of a
message in the file, and writes to a client that block.

### AvlTree.tla

`src/AVL_Tree/tree.c` with its recursion, rotations and heights, keys being numbers. `Delete` follows
the code where it is unusual: a node with two children is replaced by the *pointer* to its successor,
which loses its left subtree and most of its right one; a node with one child takes over the child's
contents and then frees the key it has taken over (`FreesKey`). In a tree with a freed key any
comparison may go either way, so that after it the module only keeps the fact. `tree_update` returns
at once for any tree it is given and has no action.

A node is a record that holds its subtrees, and the recursive C functions are recursive functions:
`Insert` and `Delete` on the subtrees of a node (`Subtrees`, found level by level as deep as the node is
high), `Find` and `MinValueNode` on the steps of their way down. An insertion that rotates up a child
that is not there dereferences NULL: its value is `Crashed`, and `TreeInsert` is not taken; the process
ends, and `NewTree` is what follows.

### KeywordTree.tla

What a keyword tree promises to the server: a table from names to ids in which insertion never
changes a key that is there, and a deletion may cost other keys or the soundness of the tree. A
deletion that finds nothing costs nothing, and one frees a key only of a tree that holds another.
`AvlTree` implements it, and `Server` uses its `Insert` and `Delete` for the account database.

### DBLinkedList.tla, LinkedList.tla

The list of `src/chapter3/DBLinkedList` on a heap of nodes with two pointers. A function is one
action, a walk to an end of the list included (`Walk`): `DAppend`, `InsertFirst`, `InsertNth`, the
removals, `QueuePop` and `StackPop`, `Free`. The two sorts, whose loops change the list, are a step for
each iteration: `BubbleSort` starts one, `BubbleCompare` is the inner loop with `d_list_switch_node`,
`BubbleAtEnd` its `break`, `BubblePassEnds` the outer loop; `InsertSort`, `InsertNode` (with the loop back
and `d_list_prepend_node`) and `InsertEnds` are the other. `unsorted` and `leaked` are history.
`d_list_remove_nth`, which frees its node twice and which nobody calls, is left out.
`LinkedList` is the sequence the list stands for (`Held`: while a sort runs, what the sort found), with
stable sorts as one step, that of the sort's return; removing what is not there returns NULL,
and a caller that stores it has an empty list, which is part of the promise because the server does
store it.

### BTree.tla

`src/btree2/btree.c`: insertion with splits, deletion with borrowing and merging, and search. Where it
borrows from the left, the code decrements the count of the left node twice, so that keys are lost
(`BorrowLeft`); `lossy` remembers that, and `BTreeKeeps` allows a loss there only. Keys are numbers,
ordered as `strcmp` orders names. `btree_get_del_result` looks at `ptr == root` in a way that holds in
every call, so that nodes may shrink to one key (`Shrunk`).

### The other modules

`MCServer`, `MCDataBase`, `MCClient`, `MCLibraries`: instances for TLC; the last one puts the three
containers, which share no state, side by side: it extends `Containers`, which extends `DBLinkedList`
and takes `AvlTree` as an instance, and adds `BTree` as another. `Containers` is also what
`Containers_proof` is about. `SequenceLemmas`: what removing from and replacing in
a sequence does to its elements, that a set of numbers has a least element, and where a sort puts what
it sorts. The modules whose names end in `_proof`: theorems.

How they compose: `Server` uses `KeywordTree` for its accounts and implements `Delivery`; `AvlTree`
implements `KeywordTree`; `DataBase` implements `Store`; `DBLinkedList` implements `LinkedList`. The
other modules meet at what one takes for granted of another: `Server` that ready descriptors and
expired timers are served in some order (`Looper`: `RoundIsExact`, `TimersRun`) and that a request is
complete, half there or thrown away (`Framing`); `Client` that a reply is cut into pieces (`Framing`);
`Server` that removing a record that is not there forgets all (`LinkedList`).

## 3. The runs

| run | what it asks | bounds |
|---|---|---|
| `sessions` | Whom do records, sessions and messages belong to, and is `Delivery` implemented? `ClientTable`, `SessionOwner`, `DirectDelivery`, `NoEcho`, `AtMostOnce`, `DisconnectIsLocal` | 3 connections on 4 descriptors of which each store takes one, so that a number is used three times; 2 sessions, 2 messages. `MessagesOrSessions` cuts off what combines two messages with several or freed sessions |
| `history` | Does paging skip or stall? `NoGap`, `NextPageAdvances` | 2 clients, 4 messages, pages of 3 (10 in the code): a full page, a short one, and a list that grows between |
| `accounts` | `SessionAccount` over reused account ids | 2 names, 2 ids, 2 connections, 5 descriptors, 2 sessions, restarts |
| `liveness` | `TimersExpire`, `HangUpsHandled` under `FairSpec` | 3 connections, 3 descriptors, 1 message: a connection that was forgotten, one that is open, one more |
| `fresh` | a taken name is refused (violated) | 1 user |
| `database_files` | `DurableRefs`, `IdsAscending`, `Store` is implemented, with the process ending anywhere and every call failing | 4 records, 2 values, 5 descriptors: an add, an update and a delete of the highest id, then an add that takes the id again |
| `tree_delete` | deleting a key keeps the others (violated) | 7 keys |
| `libraries` | `Shape` and `KeywordTree` of the AVL tree; `Links` and `LinkedList` of the list; `BTreeKeeps` | any sequence of operations on 6 keys (a double rotation and a deletion after it); on 4 nodes and 5 data, two of which compare equal to two others; on 11 keys at order 5 (7 in the code): two levels, every split, borrowing and merge of leaves |
| `framing` | `InOrder`, `LossHasACause`, `WaitsForTheRest`, `WaitingSenderIsServed` | the real sizes of buffer and header; 3 pieces of packets of 14 bytes (the least) or 33 (more than three buffers), every cut of the stream, writes that stop within the header, at its end and later |
| `looper` | `PollCovers`, `SleepBound`, `NoStaleCursor`, `RoundIsExact`, `TimersRun`, `ConnectionsServed` | 3 connections on 2 numbers, a client, 2 timers; `INT_MAX` is 3 and intervals lie on both sides of it; a callback takes up to 1 unit of time |
| `client` | `OneLineOneRequest`, `OutlivesInput`, `CommandIsSent`, `ReplyIsRead` | 3 lines of 4 kinds (whole, two fields, a field missing, no code); the real buffer; a socket with room for one request and one piece, so that both sides block at once |
| `messanger` | `NothingMissed`, `StaysPolled`, `PolledIsServed` | 3 descriptors, an array for 3 (30 in the code): one hang-up before, one behind a live connection, a full array, a failed `accept()`; up to 3 messages, pages of 1 (10), connections and messages up to 4 together, 2 requests unread |

`CHECK_DEADLOCK FALSE` is there because the system may really stop: all connections of the bound are
used up, a peer never completes its packet, or `Open` does not return. The bounds count histories
(connections ever accepted, messages ever stored), not what is live at once: a hazard here needs a
number to be used by two connections, or a list that has one entry freed and one live, and the
bounds are the least that allow these together with one more actor. The theorems of section 4 do
not depend on them. `MessagesOrSessions` is the only state constraint, and no liveness property is
checked under it.

Two conditions are worth knowing. `PollCovers` holds because the listening socket is opened first and
standard input is 0: the head of the watcher list has the least descriptor, and sorting cannot move
anything before it. (With an accepted connection below the listening socket, TLC finds the head, and
all that is below it, unpolled; the programs here never get there.) `StaysPolled` excepts rounds in
which two connections hang up: then the last slot is moved and, still being in its old place, handled
again, and a third connection leaves the array while a removed one stays in it and reports its hang-up
in every round. `PolledIsServed` says that even this does not keep the others waiting.

**Fairness.** *Server:* `looper_run` calls every expired timer and every ready descriptor in each
round (which is what `RoundIsExact` and `TimersRun` say of `Looper`), so a step that is possible again
and again is taken: strong fairness for hang-ups and timers, weak fairness for the reply, after which
the thread returns to the loop. Strong fairness is needed because a step is only possible while the
thread is in the loop. The properties are conditional on the loop being reached again and again, since
the code does block for ever in a second `read()` when a peer sends half a packet: `[]<>(srv.at =
"loop")` is that condition, not an assumption of `FairSpec`. Nothing is assumed of peers but that they
leave room in their socket buffers, so that `write()` returns. *Looper, Client, Messanger:* weak
fairness of the thread's own next step (`Round`), that is, the process runs, callbacks return and time
passes. In `Client` the server process runs too (`Serve`), but need not take or send anything it has
not begun; the two properties except the state in which both block in `write()` (`MutualWait`),
which TLC reaches, and `ReplyIsRead` a pipe that is closed early (`StdinHungUp`).
*Framing:* the reader goes on reading what has arrived.

**Findings.** `fresh`: a test adds an account under a taken name and expects a refusal; a database
whose index file was just created has no keyword tree, so the second account is added. `tree_delete`:
a comment says that the successor's data is copied into a node with two children; the code takes the
successor's pointer, and other keys are lost. (`Shape` claims balance only of trees that lost
nothing: a loss may shrink a subtree by two levels at once, and one rotation need not repair that. It
takes more keys than the run has: 11 still do not show it, 14 do. With 15 it may end the process. Insert
15, 4, 11, 13, 5, 8, 12, 10, 6, 2, 1, 14, 9, 3 and 7, delete 13 and then 14: the node of 11 leans to the
left by two, and its left child has no right child. Inserting 11 once more is refused, but it is the
left-right case of that node, `tree.c:161-163`, and `tree_leftRotate` reads through NULL, `tree.c:91-92`;
`Insert` is `Crashed` there. `Server` does not take such an insertion for the end of the process: its
`KeywordTree` knows nothing of balance.) Without a run of its own:
`test_message_db.c:53` asserts that the first id is above 0, and `DataBase` gives out 0.

## 4. The proofs

The theorems say `Spec => []P`, or that `Spec` implements an abstract specification, and hold for every
bound, every set of users and requests and, in `DataBase`, every set of failing calls. They assume
`BoundsAssumption`, `NamesAssumption`, `DataBaseAssumption`, `FramingAssumption`, `LooperAssumption`,
`ClientAssumption`, `MessangerAssumption`, `DBLinkedListAssumption` and `TreeAssumption` only, which TLC
evaluates in each run. The library's induction theorems take an operator as a parameter, which no
installed prover can instantiate; where a proof needs induction it takes the least element of the set
of counterexamples (`LeastElement` in `SequenceLemmas`, from the well-foundedness of `<` on the
natural numbers).

**Server_proof.** `TypeOK`, `ClientTable`, `SessionOwner`, `DirectDelivery`, `AtMostOnce` and
`NoEcho`. None but the first is inductive. The invariant `IInv` is the conjunction of `TypeOK`;
*Sockets* (every client record has a watcher, and `ClientTable`); *Sessions* (a live session or a
timer's goal names a connection that was accepted, and its descriptor while it is open); *Pending*
(a timer's message is stored, has been handed to nobody, and agrees with the timer on its kind and
goal); *History* (what has been handed out). The argument for `ClientTable`, which everything else
rests on: a descriptor gets an owner only when it is free and loses it only in a hang-up, a hang-up
of `f` removes every record with descriptor `f`, and where `RemoveClients` forgets more, it forgets
all. `NoEcho` needs that a broadcast's timer keeps the sender's descriptor: if the sender is still
open the record found is the sender's, and if it is not it cannot be written to.

The second half of the module is what the clients see, each from an invariant on top of `IInv`:

- `NoGap` from *ReplyContinues*: a reply that is being written begins within what its client has read
  or just behind it. A page is `pos - 1` to at most `pos + read_count - 2`, and the cursor stored
  with it points to its last message: the pages overlap by one and no message is left out.
- `NextPageAdvances` only for `ReadBatch >= 2` (the code has 10), which the theorem assumes: as the
  pages overlap by one, a page of one message would repeat it for ever.
- `DisconnectIsLocal` from *Owners*: the connection behind a descriptor is watched under it, and is a
  client unless two watchers have the same descriptor. Watchers are never removed, so the exception,
  once true, stays true until the process dies.
- `SessionAccount` is inductive with `IInv`: `server_add_online` refuses an id that a live session
  has, an account found by its name is in the list, and `server_delete_account` frees the live
  session of the id, or stops at a freed node before it, the exception the property makes.

`DeliverySpec`: the initial states map to `Delivery`'s, and every step is an
`Accept` (a store with its timer), a `Deliver` (a timer that expires; to nobody if its descriptor has
no client), an `End` (the process dies, in the middle of a `Deliver` or not) or leaves `Delivery`'s
variables alone. Who is handed a message is read off the state after the step; that nobody gets it
twice, nor its sender, is `AtMostOnce` and `NoEcho`, from `IInv`.

**DataBase_proof.** `TypeOK`, `DurableRefs` and `IdsAscending`. The invariant adds *InFlight* (what
the pending system call knows of the entry being added: its record is the last of the data file),
*IndexCopy* (the index file being written is a copy of the list in memory) and *IndexLast* (the
file's `last_id` is the id of its last entry) to the two properties. `DurableRefs` needs the order
of the code: the record is appended before the index file is unlinked, and the index file is emptied
before the data file is.

`StoreSpec`, that the files keep what `Store` promises wherever the process
ends and whichever calls fail. The invariant adds to `IInv` what the files have at each point of an
operation: *AtRest* (between operations the table in memory, or, once a call failed, nothing or too
little to be opened), *Recoverable* (within one, what is there is torn, or it is the table before, the
table after or the empty one), *Prepared* (from `unlink()` on the list in memory is the table after)
and *Adding* (until then it differs from the table before in the new id only). An operation is a
`Begin` of `Store` when it starts and a `Finish` or `Fail` when it returns; its system calls
are stutters. That each of them may be the last is *Recoverable*, and it holds because
`index_file_update` unlinks the file before it writes it anew, with the number of entries in front: a
prefix of the file is nothing, or torn, and only the last word makes it the new table.

**Framing_proof.** `TypeOK` (not among the run's properties, because it is proved), `InOrder`,
`LossHasACause` and `WaitsForTheRest`, for every size of buffers, every set of packet lengths above
the header's, every place where a write may stop and every length a damaged header may announce. The
invariant adds *Layout* (pieces lie one after the other and none is longer than its packet), *Behind*
(what was handled lies before the list) and *Short* (the list holds less than a header, or a header
and less than it announces). *Short* bounds an overread by the buffer just read, and *Layout* makes
the piece at a place unique: without it the packet handled need not be the next one.

**Messanger_proof.** `StaysPolled`, `NothingMissed`, and two facts that no run has a property for: the connection whose request is about to be
handled has a record (`HandledHasRecord`: `server_find_client` answers nothing in
`get_packet_for_res_first_msg`, and the record is used all the same), and records are unique and
complete (`OneRecordEach`). The invariant adds *Numbered* (`accept()` gives out descriptors in order),
*Reports* (equal descriptors in the array report the same, a reported hang-up is one, and who has a
request has a record) and *Places*: what is still to look at lies in a window of the array that is
passed by at the front at least as fast as `numfds` shrinks, and a slot beyond `numfds` means that a
client was removed in this round. The argument for `StaysPolled`: a removal moves the last slot to the
one removed, so that a client can be lost only if that one lies beyond the end; then another hang-up
of the round has shortened the array before. The half of
`NothingMissed` that says what a client has been told needs one invariant more, *Counted* (the file has
numbers of messages sent, and `since` of a client is such a number): a new message is then later than
all in the file and than the arrival of every client, so that it is due to each but its sender; and
`send_message_to_clients` reaches all of those or ends the process.

**Looper_proof.** `TypeOK`, `PollCovers`, `SleepBound`, `NoStaleCursor` and `RoundIsExact`, for any
number of watchers, timers and descriptors, any intervals and any width of `int`; and `NoNodeBefore`, that
the node `watcher_list` points to is the first although `looper_get_fds` drops the one that
`d_list_insert_sort` returns. The invariant adds *Resting* (what is empty between rounds), *Programs*
(what each program watches: its first node has the least descriptor), *Ids* (they are different, and
given out in order), *Walking* (the timeout so far is no longer than the time left of the timers passed,
and the cursor is one that was not), *Slots* (only slots that a repetition left hold the same descriptor), *Reports*
(what `poll()` reported of a slot still to be handled stays true, and concerns nobody accepted since) and
*Visiting*: `called` has exactly those watchers that lie before the place the walk has reached. The sort
is a permutation by rank; that ranks are a permutation, and that one with the least descriptor has rank
1, are lemmas (`Ranks`), and so is that every run of equal descriptors begins with a slot of its own.

**Client_proof.** `OneLineOneRequest`, `OutlivesInput`, and two facts that no run has a property for:
`TypeOK` and `RequestsInOrder` (for every kind of input, requests are of lines in the order typed, and no
line is in two). The invariant adds *Layout* (lines follow one another, and a list that holds everything
up to the end has been destroyed), *NoneWaiting* (at a terminal no newline lies in the list: a `read()`
ends behind the first), *OneTyped* (who waits has one line at most that is not handled), *SentBefore*
(what was sent lies before the list) and *Reports*.

**Containers_proof: the list.** `TypeOK` (not among the run's properties, because it is proved), `Links` and
`LinkedListSpec`, for every number of nodes and data. `Walk` is a recursive function, and what it returns
is found without induction over data: a sequence of nodes that follow one another to NULL is the only one
from its first node (`StepsAre`, by a least counterexample), so that the invariant names the sequence and
the walk has to agree. The invariant `IInv` says that there is a sequence `s` of different nodes with
*Chain* (its nodes follow one another in both directions, and both ends have NULL), and of all allocated
nodes, those of forgotten lists included, *Agree* (where one link leads, the other leads back). *Agree* is
what makes `d_list_first` and `Unlink` safe from any node. What an operation does to `s` is a lemma on
heaps for each way the code changes links: `Linked` (a node comes between two), `Unlinked`, and `Relinked`
(one node moves), which `d_list_switch_node` and `d_list_prepend_node` both are.

For the sorts the invariant adds *Stable* (the nodes have the data that the sort found, and of equal keys
none has passed another) and for each loop where it is. Bubble sort (*Passing*): no key before `node` is
greater than its own, without a switch they ascend, and what lies behind `last_node` is *Placed*. This is
not inductive as it stands: `last_node` is a node and not a place, and a switch that moves it forward lets
`node` pass it, so that the loop does not meet it any more and runs to the end of the list, where
`last_node` is set anew. *Passing* has this as its second case; there only what is behind the moved node
and its successor is known to be placed, and that the pass has switched, so that another one follows.
Insertion sort (*Inserting*): what lies before `remember_node` ascends, and `front` is the first node.
`comp` says "greater" of unequal keys only, so that the walk back stops at an equal key, which is stability.

**Containers_proof: the tree.** `Shape` and `KeywordTreeSpec`, for every number of keys and every set of
values (entry ids, so natural numbers: -1 is "not found"); and `InsertNeverCrashes`, which no run has a
property for: an insertion dereferences NULL only in a tree that lost keys before. The invariant
`TreeInv` says that the tree is *Sound* (every node is made of a key, a value and two subtrees with its
height measured from them, and the keys on its left and right are below and above its own) and, until a
deletion loses keys, *Even* (no node leans by more than one). *Sound* alone is what survives a deletion
that takes the successor's pointer, because every rotation keeps the pairs, the order and the heights of
what it gets, however far that leans.

That the recursive functions have values at all, and what these are, is found without induction over
data, at a least counterexample. A function is there if what it is at a place depends on what it is at
places of smaller measure only (`RecursionExists`; the measure is the height, or the step); the subtrees
of a tree are the least set that holds it and what it holds hold (`SubtreesLeast`), so that each of them
is lower than the tree; and of the subtrees for which an operation went wrong one would be the lowest
(`LowestTree`). At that one the operation does one step with results that are right below it: *Inserts*
and *Deletes* say what is right. An insertion into an even tree makes it at most one higher, and if it
does, the new key's side is the taller one (*Leans*): with it the four cases of `tree_insert_internal`
see the key on the side that leans, and rotate what is there. A deletion makes it at most one lower, if
it lost nothing. `FindIs` has the search meet the one node that has the key, so that a tree stands for a
table (`Table`), and `InsertTable`, `DeleteTable` and `FreedKey` are the steps of the refinement.

**Only model-checked:** liveness (fairness is beyond the prover), and `BTree`, an exercise that no
program of the repository uses, whose recursive operators are beyond the prover.

## 5. What is not modelled, and the plan

1. `AccountDB.tla`: keyword columns over `DataBase` and `KeywordTree` (user id and password as keys, the
   list of ids per key, `index_file_load`), refining what `Server` takes for granted in `AddAccount`,
   `Identify` and `DeleteAccount`.
2. Proofs: `BTreeKeeps`, with the recursion of `BTree` put into the form that that of `AvlTree` has.

Not modelled: the bytes of packets, entries and messages (`converter.c`, `packet.c`, `message.c`,
`account.c`: field after field in the host's byte order); what a client prints; what the first
messenger's client does with a reply, which is to append it to a list it never reads; allocation
failures; the array, point and search exercises of `chapter1` and `chapter3` (sequential, one array);
and the test programs, but for the timers of `test_timer_looper.c`.
