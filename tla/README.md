# Verification of the encrypted chat

This directory holds TLA+ modules for the programs and libraries of this
repository, the TLC runs that check them on small instances, and TLAPS proofs
of theorems about them. `PROJECT.json` lists components, runs, mutants, the map
from definitions to source lines, hazards, the finding and the theorems.

    tlc -workers 2 -config ChatRoom.cfg MCChatRoom.tla    (a run)
    tlapm ChatRoomProofs.tla                              (a proof module)

## 1. Inventory

`src/CMakeLists.txt` builds two programs: `encryptedChatServer` from
`example/chat_server.cpp` and `encryptedChatClient` from
`example/chat_client.cpp`. They link the libraries AES, RSA and chatSocket.
Of these only `RSA::get_public_key` is called, by the client. `Chat/` is a
second server and client, on chatSocket, which the build does not mention;
`Bignum/` is a copy of the RSA arithmetic with a command line of its own.

| component | state | operations | interacts with |
|---|---|---|---|
| Chat room server, `example/chat_server.cpp` | `participants_`, `name_table_`, `recent_msgs_`; per connection `write_msgs_`, `nickname_`, `read_msg_`, outstanding reads and writes | `onAccept`, `nicknameHandler`, `readHandler`, `writeHandler`, `onMessage`, `enter`, `leave`, `broadcast`, `getNickname` | clients, by frames of fixed size; handlers run one at a time on the single worker thread and through a strand |
| Chat client, `example/chat_client.cpp` | `socket_`, `read_msg_`, `write_msgs_`, `nickname_` | `onConnect`, `readHandler`, `writeImpl`, `writeHandler`, `closeImpl`; `write` from main's thread | the server; main posts lines to the worker's io_service; RSA for the key |
| Message and nickname buffers, in both | `nickname_`, `read_msg_`, arrays of `MAX_IP_PACK_SIZE` and `MAX_NICKNAME` bytes | `client::client`, `getline`, `nicknameHandler`, `broadcast` | the two programs above |
| Thread-per-connection server, `lib/chatSocket/src/chatServer.cpp`, `chatNode.cpp`, `Chat/encryptedChatServer.cpp` | `v_client`, `v_thread`, `m_nodeSize`, `m_mu`, `m_state` | `handleRequest`, each client's thread, `sendMessageAll`, `closeServer`, `signalHandler` | clients by recv and send; threads share `v_client` without a lock |
| Blocking client, `chatClient.cpp`, `Chat/encryptedChatClient.cpp` | `m_state`, `m_thread`, the descriptor | `connectServer`, `receiveMessage`, `writeMessage`, `closeConnection`, `signalHandler` | the thread server |
| Messages as a byte stream, `chatNode.cpp`, `chatClient.cpp`, `chatServer.cpp` | receive buffers, what is on the way | `sendMessage`, `recv`, `showMessage` | TCP, which keeps no boundaries |
| Bignum arithmetic, `lib/RSA/src/bignum.cpp`, `normal_bignum.cpp` | vectors of limbs, in two byte orders | `+ - * / % <`, `purge`, `expmod`, `gcd`, text conversions, `encrypt`, `decrypt` | `RSA::handle_bignum` |
| RSA wrapper, `lib/RSA/src/RSA.cpp` | `rsa_n`, `rsa_d`, `keyBits` | `readPemFile`, `to_numeric`, `rsa_encrypt`, `rsa_decrypt`, `handle_bignum` | Bignum, the key files |
| Bignum command line, `Bignum/main.cpp` | the end of the input, a counter | `e`, `d`, the operators | a pipe between two of them (`todo.txt`) |
| Key files and scripts, `generate_keys.sh`, `cleanup_keys.sh`, `rsa_keys_generate` | the directory `keys/` | remove, make, read, remove | `ssh-keygen`; every program started in the same directory |
| AES, `lib/AES/src/AES.cpp` | none between calls | ECB, CBC, CFB, padding, key expansion, rounds | nothing in the repository calls it |
| Build files and generated files | none | none | not modelled |

What is hard about them, and what makes each correct:

* **Chat room server.** Handlers of many connections interleave, and on one
  connection a read and a write are outstanding at once and can fail in either
  order. Correct: one write at a time on a socket and one whenever a
  participant has something queued; nobody misses or repeats a message,
  newcomers included; names are right; a dead connection is removed for good.
* **Chat client.** Two threads, and two writes can be outstanding because the
  user may type before the nickname was sent. Correct: frames stay whole and in
  order, nothing is left queued on an open socket, the client never stops
  listening, and it winds up when the connection is lost.
* **Client and server together.** Each waits for the other to read; the server
  cuts the stream by sizes only. Correct: small buffers never stop both, and
  what was typed is heard.
* **Buffers.** Three constants of two files have to leave room for the time, the
  key, the name and the text. Correct: no byte behind an array, lines of any
  length arrive whole.
* **Thread server.** Data races on `v_client`, a counter that only grows, a
  lock held while a signal handler closes the server, blocking recv and join.
  Correct: the limit, the membership of `v_client`, each message once to each
  client, threads that end, closing that returns.
* **Blocking client.** `m_state` is written by one thread and read by the other
  around calls that block; a signal handler deletes the client under both.
  Correct: at most one late line, nothing closed twice, an end that comes.
* **Byte stream.** Lines without ends, reads that cut, sends that wait or are
  interrupted and whose result nobody looks at. Correct: every byte once, in
  order, and under the right name.
* **Bignum.** Carries, borrows, sizes and leading zeros at the edges. Correct:
  equal to arithmetic on natural numbers, and loops that end.
* **RSA wrapper and command line.** Edges of lengths, padding, leading zeros and
  missing files. Correct: what was encrypted comes back.
* **Key files.** Two programs in one directory, interrupts, kills. Correct: each
  reads its own pair, and no private key is left.
* **AES.** Chaining, round keys in reverse, tables. Correct: the standard's
  answers, round trips, and damage that stays where the mode says.

## 2. Modules

| module | what it is |
|---|---|
| `RoomLog` | abstract: what a chat room promises (a log, and slices of it) |
| `ChatRoom` | `example/chat_server.cpp`; `KeepsPromise` is its refinement of `RoomLog` |
| `MCChatRoom` | symmetry of persons and nicknames for TLC |
| `ChatRoomProofs` | theorems about `ChatRoom`, and the refinement |
| `ChatClient` | `example/chat_client.cpp`, with an environment that is assumed |
| `ChatLink` | `ChatClient` composed with one personInRoom and a connection of bounded buffers |
| `ChatLinkProofs` | theorems about `ChatClient` and `ChatLink` |
| `TextBuffers`, `TextBuffersProofs` | the char arrays of the two programs |
| `ThreadServer` | `chatServer.cpp`, `chatNode.cpp` and `Chat/encryptedChatServer.cpp` |
| `MCThreadServer` | symmetry of connections, and the constraint of one run |
| `ThreadServerProofs` | theorems about `ThreadServer` |
| `SocketClient` | `chatClient.cpp` and `Chat/encryptedChatClient.cpp` |
| `LineStream` | bytes from several clients through the server's threads to one |
| `SocketClientProofs` | theorems about `SocketClient` and `LineStream` |
| `MCSocketClient` | one run of both |
| `KeyFiles`, `KeyFilesProofs` | `rsa_keys_generate` and the two scripts, in several programs |
| `Bignum` | the operators of the two Bignum classes, for any `BASE` |
| `BignumCalc` | `RSA::handle_bignum` calling them; `expmod` and `gcd` step by step |
| `BignumProofs` | theorems about `Bignum`, `BignumCalc`, `RsaText`, `RsaWrapper` and `BignumTool` |
| `RsaText` | conversions between text, digits and limbs; a turn of `expmod`; `decrypt` |
| `RsaWrapper` | class `RSA`: key files, `rsa_encrypt`, `rsa_decrypt` |
| `BignumTool` | `Bignum/main.cpp`'s `e` piped into `d` |
| `MCTexts` | one run of `TextBuffers`, `RsaWrapper` and `BignumTool` |
| `AesCipher` | AES's tables, its functions of bytes, blocks and words |
| `AesByte` | `mul_bytes` turn by turn, with GF(2^8) beside it |
| `AesBlock` | key expansion, `EncryptBlock`, `DecryptBlock`, a step per round |
| `AesModes` | padding and the three modes over any permutation of blocks |
| `AesProofs` | theorems about `AesModes` and `AesBlock` |
| `MCAes` | one run of `AesModes`, `AesByte` and `AesBlock` |

`MCSocketClient`, `MCTexts` and `MCAes` put programs that have nothing to do
with each other side by side. A variable `which` says which of them runs, the
others stay as they begin. Only the programs' own actions occur, and each
property is the one of the program's module.

Each module of the code also holds wrong variants of some of its definitions,
marked as such. The properties are tested against them (`mutants` in
`PROJECT.json`); nothing else uses them.

### ChatRoom

A handler is one action: the strand and the single worker thread run them one
at a time. The action takes the error code as a parameter `ok`; what may
complete, and how, depends on `link`, `said` and `nread`, which stand for the
network. Frames have a fixed size and `async_read` completes on a whole one.

| state | code |
|---|---|
| `phase[p]` | which operation's handler will be called next on p's socket: accept, the nickname's read, a message's read |
| `participants`, `names`, `recent`, `wq[p]` | `participants_`, `name_table_` (`NoEntry`: no such key), `recent_msgs_`, `write_msgs_` |
| `writing[p]` | number of async_writes outstanding (the code means it to be 0 or 1) |
| `hello`, `said`, `nread`, `link` | frames in flight and the state of the connection |
| `log`, `base`, `sent` | history: what was broadcast, and what was written to whom |

The whole handler is one action: `ReadHandler` includes `broadcast` with its
`getNickname` (which makes an entry for a missing key, as `operator[]` does),
the trimming of `recent_msgs_` and `onMessage` on every participant.
`nicknameHandler` ignores its error: a connection that died enters the room
under what `nickname_` happens to hold (`Junk`, or a nickname cut short that
equals another). A personInRoom is kept alive by its handlers and the room's
tables; `Released` says that nothing refers to it any more. Timestamps and the
text of messages are left out: a message is its sender, the nickname it was
given, and its number.

### ChatClient

main is `Type` (getline and `io_service::post`); the worker is one action per
handler, with `RunReturns` for the end of `io_service::run`. `Handshake`,
`Send`, `SendFails`, `Arrive` and `Lose` are asio and TCP. An `async_write` is
a series of partial sends, because asio says that two of them on a socket may
mix: a frame is `HelloParts` or `FrameParts` parts, and `wire` is the sequence
of parts that reached the stream. The handler of the nickname's write is
`readHandler`, in the code and in `HelloHandler`. The nickname's text, the key
in front of it and `closeImpl` called by main (after an endless loop) are left
out; `TextBuffers` has the first two.

### ChatLink

`ChatClient` assumes that its sends go on because the server reads; `ChatRoom`
assumes that writes complete because the client reads. `ChatLink` assumes
neither. A connection holds `Buffer` parts in each direction; a send or a read
takes any number of parts that fit. `session`, `part` and `heard` are the
server's outstanding read and what its reads returned, cut at `HelloParts` and
`FrameParts` whatever is in the stream; `replies` and `answer` are
`write_msgs_` and the write of its front. Other participants are a number of
messages (`OtherSays`). The client's actions are those of `ChatClient`,
conjoined with what they do to the connection. After a nickname's read that
failed there is nothing more to take (`Take`), since asio's error stays.

### TextBuffers

A text is its length: what matters is where its terminator is. The constants
are the code's, 4096, 2066 and 24; the key has 1080 digits (3 for each of the
360 characters that a 2048-bit key has between the lines of its file) and the
time 22 characters. `Construct` is `client::client` (strcpy, strcat),
`NicknameHandler` the server's test and its two characters more, `Getline` and
`GetlineAtEnd` main's loop, `Broadcast` the three strcats. `behind` is what an
uninitialized `read_msg_` holds behind a `nickname_` without terminator.
`spilled` remembers a write behind one of the two `nickname_`.

### ThreadServer

`main`, `new`, `nodeSize` and `mutex` are the accept loop, its `new_client`,
`m_nodeSize` and `m_mu`. `thread[c]` says where c's thread is: waiting in recv,
in the loop of `sendMessageAll` (one `SendOn` per turn), erasing, printing its
last line, over. Main's step after accept is cut where other threads can see
it: thread started, `m_mu` taken, released, push_back begun, push_back done.

`v_client` is modelled with its memory, because threads walk through it while
others change it. `slots` is the memory and `size` how much of it counts;
`erase` shifts elements and leaves the last behind; a loop keeps the end it
began with (`loop[c].end`) and reads whatever is in the slot when it gets
there; `push_back` may move everything, and a loop under way then reads freed
memory (`moved`). A change of `v_client` takes two steps. If two overlap, or a
thread erases what is not there (`erase(end())`), the behaviour is undefined:
the process is killed, or the vector has one element more, one less or as many,
and any pointers that were stored. `calm` remembers whether that has happened.
`send` to a client that has gone may raise SIGPIPE, which kills the process.
`Interrupt` is SIGINT answered with Y: the handler runs on main's stack,
wherever main is, and deletes the server. An answer of N is a pause of main. The
kernel is assumed to deliver the signal to the main thread, as Linux does while
that thread does not block it. In `closeServer` the clients' notice, the
deletion of the nodes and the closing of the listening socket are one step.
`MaxSay` bounds the messages of all clients together (`Messages`).

### SocketClient and LineStream

`main` says where main is, from `createSocket` to the end of the destructors;
`thread` where the receiving thread is. They share `state` (`m_state`, which no
constructor sets: `"unset"`) and `fd`. `Interrupt` is SIGINT answered with Y;
the handler deletes the client wherever main is, and a second one meets members
that are half destroyed, which ends in `terminate` or goes well by chance.
A recv that waits is not woken by a close of its own descriptor, and holds the
socket: the peer sees no end before it returns. This is Linux's behaviour, and
it is what the joins of both ends depend on. `ServerCloses` is `closeServer`
with its notice; the server's last recv may have been waiting or not (`woken`).
`ReadLine` and `ReadEnd` are `std::getline`, which empties the string when it
meets the end of the input and leaves it alone when it had met it before. The
server's messages are only counted.

`LineStream` has what becomes of the bytes. A byte is its sender and its
position, 0 for one of the prefix `ip:port> `. `SendLine`, `Recv`, `SendMessage`
and `Show` take as much as there is and as there is room for; `InterruptSend` is
SIGINT answered with N, which makes a waiting `send` return early. The instance has
messages of 2 bytes, a prefix of 1 and connections that hold 2, so that reads
cut lines and sends have to wait.

### KeyFiles

A step is one command of a script, and where one command does several things
one after the other (`rm -rf` lists, unlinks each, removes the directory; the
shell makes the file that `ssh-keygen -e` then fills), each of them. A file is
whose key it holds. `open` says which `ssh-keygen -e` still writes to the file
that has the name, and not to one unlinked since. `Interrupt` is Ctrl-C during
`system()`, which ends the script and not the program; `Kill` ends both.
`ssh-keygen` asks before it overwrites, and either answer is possible. `cp` is
one step. `overlapped` and `faulty` remember who was not alone, and who was
interrupted or killed.

### Bignum and BignumCalc

A number is a sequence of limbs, lowest first; where the class `normal` keeps
the highest first the operators turn it round. Every operator follows the
code's loops: carries, borrows, `purge`, the binary search for a digit, and the
two representations of zero, one limb 0 in `reverse` (`BZero`) and no limb at
all in `normal` (`NormalZero`). `BASE` is a parameter: 10^9 in the code, 4 in
the runs. As a test of the model, the repository's own code, compiled for base
4, gave limb for limb the same results for `+ - * / %` and half on all 16,384
pairs of small operands that were compared. `expmod` and `gcd` are state machines,
a step per turn of the loop or per call. `lost` remembers whether one of the `%` so far had an input on
which `%` is wrong (section 4). Division by zero is what the code does: `/` and
`%` return `Exit` or never end. A modulus of 0 or 1 is left out of `expmod`'s
runs. Integers are not given a width: on the 64-bit Linux the repository
is built for, limbs, products and carries are `int_fast32_t` of
64 bits, and no intermediate value exceeds 10^18 + 2 * 10^9.

### RsaText, RsaWrapper and BignumTool

Text is a sequence of bytes, a decimal string one of digits. A limb has
`LimbDigits` digits, 9 in the code and 3 in the run. `RsaWrapper` follows a call:
`Encrypt` and `DecryptCall` up to `expmod`, `Turn` for each turn of its loop,
`Return` for the way back through `handle_bignum`. What does not return is
`"hangs"`; `exit(1)` of a division by zero is `"exit"`; an exception out of a `noexcept` constructor is `"killed"`.
The members are what `readPemFile` makes of the file: three decimal digits for
each character between the lines, not the number that the base64 text encodes.
In `DecryptCall` the exponent is empty, because `handle_bignum` sets `num3` when
there are five arguments and `rsa_decrypt` passes six.

`BignumTool` is `Bignum/main.cpp` twice, the output of `e` being the input of
`d`. `num1`, `num2` and `num3` are main's arguments, `rsa_n`, `rsa_e` and `rsa_d`;
in the run they are a real key of ten digits (97001 * 99013), so that every line is
encrypted and decrypted by the model. A line too long for the modulus is cut in
two; a missing second part is a number of `counter` zero limbs. Two variables are
history: `refused` has the lines with a part that `decrypt` does not compute with,
`dropped` those for which a `%` of one of the two programs lost a limb (section 4).

### AES

`AesCipher` has the functions in the order of the code, on a block of 16 bytes
in the order of the input (byte i + 4j is `state[i][j]`), with the tables of
`AES.h`. `AesByte` and `AesBlock` give them steps: a turn of `mul_bytes`' loop,
a word of the key, a round. `AesModes` leaves the block function open (`Enc` and
`Dec`, any permutation and its inverse, as `BlocksRight` says they are) and has
what the modes add: padding with nulls and its length modulo `UintSize`, the
chain, and a way from the encrypting to the decrypting function on which blocks
and the iv may be changed (`Deliver`).

## 3. Runs

| run | instance | states | shows |
|---|---|---|---|
| `chat_room` | 3 connections, 2 nicknames, recent window 1, one message each | 197,182 | `TypeOK`, `WriteDiscipline`, `NoGap`, `StillRead`, `HonestNames`, `RecentIsWindow` |
| `chat_room_live` | 2 connections, 1 nickname, window 2, 3 messages each | 258,287 | `KeepsPromise`, `Reaped`, `Delivered` |
| `chat_link` | nickname in 2 parts, frames in 3, 3 lines, 2 frames, buffers of 2 parts, 1 message of others | 2,329,200 | `HeardAsTyped`, `Outstanding` |
| `chat_link_live` | 2 parts each, 2 lines, 3 frames, buffers of 1 part, 1 message of others | 97,971 | `EndToEnd`, `ClientIsFair`, `WindsUp` |
| `thread_server` | 3 connections, limit 3, 2 messages in all, up to the first undefined behaviour | 1,958,146 | `Registered`, `ExactlyOnce` |
| `thread_server_live` | 3 connections, limit 2, 1 message | 380,919 | `Limit`, `Sound`, `Exits` |
| `socket_client` | 3 lines, 2 messages, 2 times Y; streams of 3 bytes from each of 2 users | 126,333 | `OneLateLine`, `SentAsTyped`, `DiesOnlyOf`, `Ends`; `StreamRight`, `AllShown` |
| `key_files` | 2 programs, each with a key size the scripts know or not | 290,359 | `OwnPair`, `NothingLeft`, `GetsThrough` |
| `texts` | the code's constants, lengths around every limit; base 1000, 2 calls of the wrapper; inputs of up to 4 lines through the tool | 64,308 | `FormattedFits`, `SpillsOnly`, `LinesWhole`; `TextRight`, `BadKeys`; `ToolRight` |
| `numbers` | base 4, up to 4 limbs by up to 3, exponents of up to 2 | 316,969 | `CalcRight`, `PowersRight` |
| `aes` | modes over 2-bit blocks, messages of up to 7 bytes; all bytes; 3 keys, 3 blocks, 4 key lengths | 60,444 | `ModesRight`, `RoundTrip`; `BlocksRight`; `StandardRight` |
| `bignum_mod` | base 4, 3 limbs by 1 | violation | `ModRight` |

Deadlock is not checked in any run, because each system may stop: the bounds
on messages run out, a process exits, a computation is done. That nothing stops
too early is what the liveness properties say. A property whose name ends in
`Right`, and some others, is a conjunction of named parts that belong to one
question; the parts are defined and explained beside it.

What the properties mean:

* `WriteDiscipline`: `onMessage` starts a write only on an empty queue, and
  `writeHandler` goes on only while something is left. Between them there are
  never two writes on a socket, and a participant with a message queued always
  has one, whatever completes in between.
* `NoGap`: the messages written to somebody and those queued are a slice of the
  log; for a participant it reaches the log's end.
* `StillRead`: everybody in either table has a read outstanding, whose failure
  will remove it. This holds even for the entry that `getNickname` makes again
  after somebody left by a failed write.
* `HonestNames`: a broadcast carries its sender's nickname, or none, and then
  the sender had been removed before its last frames were read.
* `Reaped`, `Delivered`: a dead connection is eventually removed from everything
  and for good; what is broadcast reaches those who stay connected.
* `KeepsPromise`: `ChatRoom` implements `RoomLog`, in which a participant is
  given a starting point in one log and then reads on from it.
* `HeardAsTyped` (`Framed`, `LinesIntact`, `LinesHeard`, `NamedRight`): lines are
  whole and in order among themselves in the stream. If none was written before
  the nickname was sent, the server has the right name; and a line typed too soon
  spoils no line that comes after the nickname's last part.
* `Outstanding` (`LinkTypeOK`, `QueueServed`, `Listens` and the server's half):
  nothing waits in a queue of an open socket without a write under way, and from
  the connection on the client has the nickname's write or a read outstanding.
* `EndToEnd` (`SentOrClosed`, `HeardAtLast`, `Echoed`): a line is sent, heard by
  the server and shown again, unless the client gives up or the connection is
  lost. With buffers smaller than a frame this needs both sides to read while
  they write.
* `ClientIsFair`: the client in this composition satisfies `ChatClient`'s
  `FairSpec`: what that module assumes of its environment follows from what the
  server does. `WindsUp`: a client that gives up comes to rest.
* `FormattedFits`, `SpillsOnly`, `LinesWhole`: `broadcast` stays in its array for
  every nickname that fits; exactly which nicknames do not; and a line of any
  length arrives in pieces, none lost and none empty.
* `Limit`: `m_nodeSize` counts the clients ever taken, never above the limit.
* `Registered`: while `v_client` is undamaged it holds each client that is being
  served once, and nobody else.
* `ExactlyOnce`: a message sent on while no element was erased and no memory
  moved has reached all others once. The premises are needed: an `erase` by
  another thread makes the loop skip a client, and send twice to another.
* `Sound` (`TypeOK`, `SoundWhileAllStay`): damage to `v_client`, and death of the
  process, need somebody to leave or the server to be closed, except for a loop
  whose memory a push_back has freed.
* `Exits` (`Notices`, `Closes`): the end of a connection ends its thread, and
  closing ends once all peers are gone. Both except the deadlock the code has:
  the signal handler interrupts main while it prints with `m_mu` held, then joins
  threads that wait for `m_mu`.
* `OneLateLine`: once the connection was found to have ended, main takes one more
  line at most. `SentAsTyped`: lines are sent in order and once, save that a last
  line without newline is sent again and again. `DiesOnlyOf`: the three ways the
  process is killed.
* `Ends` (`EndsAtEnd`, `ClosesBeforeServer`): at the end of its input the client
  ends when the connection does; and a client closed while the server serves ends
  when the server is closed. Closed in the other order the two can wait for each
  other for ever: each joins a thread whose recv only the other can end.
* `StreamRight` (`Kept`, `Attributed` and types), `AllShown`: what was typed is
  on its way or shown, each byte once and in order, except the rest of a line
  whose send was interrupted; it stands under its sender's prefix as long as every
  message fitted into the connection; and all of it is shown in the end.
* `OwnPair`: a program that was alone has both halves of its own key, whatever
  those that were killed before it left. `NothingLeft`: however programs overlap,
  when all are through no key is on the disk. `GetsThrough`: a program that is
  alone gets through its constructor or is killed. One that is not may loop in
  `until` for ever.
* `CalcRight` (`LessRight`, `ArithmeticRight`, `DivisionRight`, `NoLeadingZero`),
  `PowersRight` (`ExpmodRight`, `GcdRight`, `ExpmodCloser`): results equal those
  on natural numbers; for `/` and `%` unless a limb is lost, on exactly the
  dividends that have a proper leading part divisible by the divisor and a limb
  other than 0 to bring down. Comparisons look at sizes first, so leading zeros
  would break them and with them the ends of the loops.
* `TextRight` (`TextComesBack`, `CipherBelow`): a text, its digits, its number and
  back; a ciphertext is below its modulus. `BadKeys`: with an empty key, the one a
  missing file gives, encryption does not end, and with no other; decryption
  gives a text of 1 or nothing, whatever the private key.
* `ToolRight` (`LinesSurvive`, `InStep`): both parts of a line come back from
  `e | d`, but for null bytes in front of them. The exceptions are a line that is
  too long for two parts, a part whose number is not below `rsa_n`, a second part
  not above `Bbig`, which `d` takes for a missing one, a number that `decrypt`
  refuses and a lost limb. The second program keeps step with the first.
* `RoundTrip`, `ModesRight` (`ChangeShows`, `PaddingRight`): a block that comes
  through unchanged, and with chaining the one before it too, is decrypted to the
  message's; a changed one is not; the padded length.
* `BlocksRight` (`RoundsUndo`): each round of decryption undoes one of encryption.
  `StandardRight` (`MulRight`, `TablesRight`, `ColumnsRight`, `KnownAnswer`):
  `mul_bytes`, both tables for all 256 bytes and the mixing of columns are those of
  GF(2^8), and the examples of FIPS 197, appendix C, come out.

Bounds. Three connections in `chat_room` are a sender, a receiver and a
newcomer or a failing third, and one message each against a window of 1 already
makes the window slide. `chat_room_live` has a window of 2 and up to 6
messages, so that a newcomer gets part of a longer log. Three lines of three
parts in `chat_link` let a write end, go on and fail with a queue behind it, two
parts are the least in which a nickname can be cut, and a buffer of two parts is
smaller than a frame. In `ThreadServer` three clients are one that sends, one
that is sent to and one that comes, goes or is refused; two messages allow two
loops over `v_client` at once. Two Y in `socket_client` are the handler that
interrupts itself, three lines an order. Two programs in `key_files` make every
race between two commands; the theorems say the rest. In base 4 with operands of
up to four limbs every carry, borrow, correction of a digit and lost limb occurs.
`texts` has messages of up to five bytes against limbs of three digits, with
null bytes at both ends; the tool's lines are within one part, two, and more.
`UintSize` 8 with blocks of two makes the padded length overflow at seven bytes.
A bound is always a guard of the environment's actions (`MaxSay`, `MaxLines`,
`MaxFrames`, `MaxNews`, `MaxAsked`, `MaxMsgs`, `MaxCalls`, `MaxHits`, ...) or the
size of a constant set; the one exception is the constraint `Intact` of
`thread_server`. Behaviour after damage is explored by `thread_server_live`.

Symmetry is used in `chat_room` and `thread_server`, over persons, nicknames and
connections, which the modules treat alike; neither checks a temporal property.

Fairness.

* `ChatRoom`: the worker thread runs handlers as they complete; a read completes
  when there is a frame or TCP reports the end; a write completes because a
  client that is alive always has a read outstanding, which is `Listens` of
  `ChatClient`. Nothing is assumed of what clients do, nor that accepts succeed.
  A peer that vanishes without TCP noticing stays `"up"`; nothing in the code
  times it out, and nothing is claimed about it.
* `ChatClient`: the worker runs; a handshake ends, by a timeout at the latest;
  sends on a live connection go on because the server keeps reading.
* `ChatLink`: both workers run, and TCP moves what there is room for. Nothing is
  assumed of the other side's reading; `ClientIsFair` derives it. Nothing is
  assumed of the user or of losing the connection.
* `ThreadServer`: main and each thread go on; a thread that waits for `m_mu`
  gets it in the end, since main takes it once per client. An unanswered
  question of the signal handler would stop main; it is assumed to be answered.
* `SocketClient`: main goes on wherever it does not wait for the user, the thread
  goes on, and so does the closing server's last thread.
* `LineStream`: weak fairness of send, recv and show. `SendMessage` has strong
  fairness: the kernel lets every waiting sender have room in the end, though
  another may take it each time it appears.
* `KeyFiles`: a program's constructor goes on, its user's answer to `ssh-keygen`
  included. Fairness is of the constructor as a whole, one command at a time.

## 4. Findings

* `normal_bignum.cpp:247`, and 217 alike (`bignum_mod`): `tmp[0] = d` on an empty
  vector does not store the limb. `42000000000000000002 % 42`, three limbs by
  one, is 0 in the program, not 2. The usage text of `handle_bignum` promises
  positive integers of arbitrary length.

The properties that hold say these things of the code as well, each stated as it
is and not as one might wish:

* `Limit`: `m_nodeSize` (`chatServer.cpp:69`) is never decremented, so the limit is
  one on all connections in the server's lifetime.
* `GcdRight`: `gcd` (`bignum.cpp:235`) compares with the zero of one class and gets
  the zero of the other, then computes `%` by it, whose loop does not end.
* `SpillsOnly`: a nickname that makes 2064 characters with the key, or 2066 and
  more, is written past `nickname_` (`chat_server.cpp:146`, `chat_client.cpp:39`).
* `BadKeys`: `rsa_decrypt`'s exponent is empty (`RSA.cpp:150`), and a missing key
  file makes an empty key with which encryption does not return.
* `LinesHeard`, `NamedRight`: a line typed during the connect can stand before the
  nickname or cut it in two (`chat_client.cpp:84`).
* `ClosesBeforeServer`, `Notices`: closing a blocking client after its server, and
  the thread server with `m_mu` held, can wait for ever (`chatClient.cpp:71`,
  `chatServer.cpp:11`).

## 5. Proofs

Every theorem is for all values of the constants, under the assumption named in
the module that declares them: `RoomAssumption` (bounds are naturals, the special
names are not nicknames), `ServerAssumption` (finitely many connections, natural
bounds), `BuffersAssumption` (the arrays leave `PADDING` for the time, and the key
fits), `ClientAssumption` of each client, `LinkAssumption`, `KeyFilesAssumption`,
`ModesAssumption` (`Dec` undoes `Enc`, `xor` undoes itself, finitely many bytes, a
block is no longer than `size_t` can count), `BlockAssumption` (keys and blocks
consist of bytes), `StreamAssumption` (sizes are
positive), `TextAssumption` (a limb is a number of `LimbDigits` digits),
`WrapperAssumption` (files and texts consist of bytes), `ToolAssumption` (the three
arguments are decimal strings, `rsa_n` is at least 2 and has no zero in front; an
input has a line, be it empty, and consists of bytes), `BaseAssumption` (`BASE` is
at least 2) and `CalcAssumption` (it is even and 2 is a limb, as for 10^9; the bounds
are positive and in order). TLC evaluates each of them in a run.

One theorem, `ToolHolds`, has a hypothesis besides: `KeyWorks`, that raising to `num2`
and then to `num3` gives back every number below `num1`. That is what it means for
the arguments to be a key. It holds of a product of two primes and exponents with
`num2 * num3 = 1` modulo `lcm(p - 1, q - 1)`, as in the run, by Fermat's little
theorem, which is not proved here; nor can TLC go through the ten digits' numbers.

* `ChatRoomProofs`: `TypeCorrect`, `WritesDisciplined`, `KnownAreRead`,
  `RecentCorrect`, `QueueCorrect`. The properties are not inductive one by one:
  `onMessage` keeps `WriteDiscipline` only if the queue of a newcomer is empty,
  and `NoGap` after `enter` only if `recent` is the end of the log. The
  invariant is `RoomInv`: `TypeOK`, `WriteDiscipline`, `StillRead`, `Untouched`
  (who has not entered has left no trace), `Window` and `Slices`, which are
  `RecentIsWindow` and `NoGap` element by element, the form the solvers reason
  in. There is one lemma per helper (`OnMessage`, `Enter`, `Leave`, `Trim`,
  `Broadcast`) and one step per handler.
  `NamesHonest` relates `name_table_` to what the client sent, and a participant
  to the entry it has. `ServerKeepsPromise` is `Spec => Promise!Spec`: the mapping
  takes `seen` from `sent`, `limit` from the starting point and the lengths of
  `sent` and the queue, and `place` from the tables and `phase`; each handler is
  shown to be a `Join`, `Post`, `Deliver` or `Leave`, or to stutter.
* `ChatLinkProofs` is about the client and its connection. `ClientHolds` is for
  `ChatClient`'s own specification, with any server and network; its invariant
  `ClientInv` adds to `QueueServed` and `Listens` what each operation under way
  has to do with the queue (`Queued`, `Operations`) and `StreamInv`: there is a
  count of the nickname's parts, `c[n]` of the first n parts of the stream, and
  each part is the next one of the nickname or the next one of the lines
  (`Counts`); how many of either there are follows from the state of the two
  writes and the queue (`Amount`), and with nothing written early the nickname is
  in front (`InFront`). `Framed` and `LinesIntact` are read off the count, and
  where the nickname falls between lines is no concern of the steps' proofs.
  `ClientInLink` shows `LinkSpec => Spec`, so all of this holds in the connection.
  `OutstandingHolds` and `HeardAsTypedHolds` are for the composition, from
  `LinkInv`: `HeardInv` says that `heard` is cut out of the stream piece by piece
  (`Slices`), `AnswerInv` that what the server has queued was said in the room and
  has a write. In `LinesHeard` the nickname is complete before a place, so that
  from there on the count is `HelloParts` and places are those of the lines.
* `ThreadServerProofs`: `LimitHolds`, since only `Accept` changes who is served or
  counted, and every other step `Continues`. `SoundHolds` from `TypeInv`, in which
  a loop's end is within the memory `v_client` has had unless it moved
  (`InMemory`), and `StayInv`. `RegisteredHolds` from `RegInv`, which says it
  without counting: the elements are distinct and are the served clients but for
  main's newest. `ExactlyOnceHolds` from `OnceInv`: what a steady loop has passed
  has one copy of the message (`PassedOnce`), what it has not has none, and that
  it has none when the loop begins rests on `NotBefore`, no message is anywhere
  that has not been received. Both halves are needed, and that a thread that ends
  or a second message of the same client does not disturb another's loop.
* `AesProofs`: `ModesTyped`, `RoundTripHolds`, `ModesRightHolds`, for any
  cipher, block length and message. `ModesInv` has what the two loops have done
  so far (`Encrypting`: each block of `out` from the one before it; `Decrypting`:
  `block` is the last that was received, and what was not hit is what was sent).
  `ModesRightHolds` needs the other direction too: `Dec` maps different blocks to
  different ones because `Enc` undoes it as well, which follows from the
  assumption as there are finitely many blocks.
  `BlocksRightHolds`: the block function is such a cipher, for every key of 128, 192
  or 256 bits and every block. `BlockIInv` has the round keys' number and range and
  EncryptBlock's states, each from the one before; DecryptBlock's state is one of
  them after its substitution and shift. Each layer has a lemma that its inverse
  undoes it. For the tables (`Tables`, `Places`) that is 256 and 16 cases. For
  `MixColumns` it is an argument: a byte is the set of its binary places, in each of
  which `XorOf` adds modulo 2 (`XorOn`) and `xtime` shifts (`XtimeOn`), so that both
  keep sums (`XtimeAdds`); the loop of `mul_bytes` with the factors 9, 11, 13, 14 is
  a sum of doubled bytes (`Product9` to `Product14`); doubling goes through
  `MixSingleColumn` (`MixedDoubles`), and in the sum of the four products each
  byte but the column's own is there an even number of times (`ByteBack`).
* `TextBuffersProofs`: `BroadcastFits`, `SpillsExactly`, `NamesWhole`,
  `LinesGoWhole`, for all sizes. `IInv` gives the length of the nickname in each
  case of the server's test and bounds what has been formatted. `LinesInv` says of
  the line that is being read that its pieces so far are full and what is left
  of it is the difference.
* `SocketClientProofs`: `AtMostOneLate` from `LateInv` (a late line leaves main past
  its reading), `DeathsKnown` from `OwnedInv` (an open state is an open descriptor),
  `LinesInOrder` from `SendsInv` (how far the lines sent are behind those typed).
  Of `LineStream`: `StreamRightHolds`, for any number of senders, buffers and
  prefixes of any size. `StreamInv` adds to the property whose bytes are in which
  buffer (`Own`), that a message begins with its prefix until some of it was sent
  or something did not fit (`Named`), and that only typed bytes were lost
  (`LostTyped`). `Kept` is about the stream of one sender as a whole, and every
  step but `Type` and `Interrupt` moves bytes within it; the proof goes through
  the set of a sender's bytes in a sequence and whether they are in order, since
  both carry over to concatenations, and a prefix between them changes neither.
* `KeyFilesProofs`: `NoKeyLeft` from `ListedInv`: when everybody who runs is
  unlinking, each file is on somebody's list; and `AloneIsSafe` from `AloneInv`,
  which says at each command what a program that is alone finds in `keys/`.

* `BignumProofs`: the arithmetic, for numbers of any length. `PlusRight`,
  `DifferenceRight`, `TimesRight`, `DivideRight`, `SearchRight`,
  `LongDivisionRight`, `QuotientRight` and `RemainderRight` say what the operators
  return, `CalcHolds` and `PowersHold` are `CalcRight` and `PowersRight` for every
  even base and every number of limbs. It needs induction over data, which the
  library's theorems offer only with an operator as parameter. Here what is to be
  proved of all numbers is a set, and `Induction` says of sets what it says of
  operators; it follows from the library's theorem that `<` on the natural numbers
  is well-founded. The loops of the code are recursive functions; that there are
  such functions, and only one, is proved for all of them at once (`Defined`,
  `Unique`, on a function `next` of steps), and each loop is shown to be an
  instance. `Value` adds from the highest limb down; `Low`, which adds from the
  lowest up with powers of `BASE`, is what sums of digits and carries are about
  (`CarrySum`, `BorrowSum`), and `ValueLow` says that both are the same.
  - Comparison: `LessIs` needs no leading zero in the longer number. So all that is
    compared later has to be `Trimmed`, the results of `purge`, of the
    multiplication by a limb and of the search for a digit.
  - Long division: `LongDivisionRight` says that what is left is less than the
    divisor and that quotient and rest have no leading zero, lost limbs or not, and
    that without a lost limb dividend = quotient * divisor + rest; a round keeps
    this for the leading limbs brought down so far. A limb
    other than zero is lost only behind leading limbs that are a multiple of the
    divisor, which is what `LosesLimb` says.
  - `expmod`: `ExpInv` says that `res` times `tmp` to the power of `exp` is, to the
    modulus, the power asked for, until a limb is lost, and that `res` is below the
    modulus. The lowest limb has the parity of the number because `BASE` is even.
  - `gcd`: `GcdInv` says that the two numbers decrease after the first call and
    have the divisors of the operands, and that a zero with a limb, which ends the
    recursion, comes only of equal numbers or of an operand that is zero: what a
    long division leaves is `Trimmed` and so never `BZero`.
  - Text: `TextHolds` and `BadKeysHold` are `TextRight` and `BadKeys` of
    `RsaWrapper`, for all texts, keys and key files. The conversions cut strings and
    numbers at different widths, limbs of `LimbDigits` from the right and characters
    of 3, so that an argument limb by limb would not carry over. Instead `Place` and
    `LimbPlace` name the digit at each place, without end, and each conversion has a
    lemma that says what it does to that (`FromStringIs`, `ToStringIs`, `NumericIs`,
    `CharsIs`); numbers with the same digits are the same (`SameDigits`).
  - The wrapper's `RsaInv` follows the loop: with an empty modulus the only turn
    that ends is the first, of a square that is zero (`EmptyKey`), `res` is below
    any other (`BelowModulus`, from `RemainderRight`), and a decryption never makes
    a turn (`CallIs`). A key may have zeros in front and be longer than the numbers
    compared with it: `RemainderIn` says that what comes out still consists of limbs.
  - The tool: `ToolHolds`. The invariant `ToolInv` says where each of the programs is
    (`EncryptPlace`, `DecryptPlace`, `OverPlace`: what is left of the input, how many
    lines are printed, which line the numbers under way are of) and what the lines
    contain (`EncryptContent`, `DecryptContent`). A printed line stands for the
    enciphered number of its part, and a number under way `Computes` it: `res` times
    `tmp` to the power of `exp`, to the modulus, is the number that it will be
    (`JobTurn`, `JobEnds`). `RemainderKept` is that a `%` of numbers
    that lose no limb is the remainder, and `LostShows` that `LimbLost`, which
    is about limbs, is then `LosesLimb`, which is about values. `CharsBack` and
    `LineBack` go back from a number to the text: what comes out of `to_chars` of
    `to_numeric`'s number is the text but for null bytes in front, whatever the
    limbs. In front of a part of `d`'s line they may come from `changeToBase10`,
    so that `SameText` compares characters from the right.

Proved and in no run of their own: `TypeOK` of `SocketClient`, `KeyFiles` and
`TextBuffers`, on which the proofs above rest, `NameWhole`, and that the client of
`ChatLink` takes `ChatClient`'s steps.

Model-checked only:

* `Reaped`, `Delivered`, `EndToEnd`, `WindsUp`, `ClientIsFair`, `Exits`, `Ends`,
  `AllShown`, `GetsThrough`: liveness and fairness need `ENABLED`, which this
  prover does not reach. The safety they rest on is proved.
* `StandardRight`: values of tables and examples of the standard, which an
  evaluation settles and a proof would only repeat.

## 6. What is not modelled

* `Bignum/main.cpp`'s operators other than `e` and `d`, which are those of
  `handle_bignum`; its checks of arguments; printing of key files. `bignum.cpp` and
  `normal_bignum.cpp` beside it are copies.
* Socket setup and, on Windows, the calls of Winsock: no state that is used later.
  The thread server's notices as texts; the client's address and port.
* The terminator that a recv of a full buffer writes one byte behind
  `message_buffer` (`chatServer.cpp:90`, `chatClient.cpp:29`): what it changes
  depends on the layout of the stack. Nicknames that spill are counted, not what
  they overwrite, for the same reason.
* Timeouts and slow readers: the code has none and no limit on a queue, so that
  there is nothing to state beyond the models' bounds.
* Timestamps and the text of messages, except as lengths; texts with a null byte
  in `LineStream`; what `stoi` accepts behind a number; `printHexArray`.
* The build's files and what CMake generated (`CMakeFiles/`, of which the two
  compiler checks are the longest files of the repository): not this program.

## 7. Plan

The order put the program that is built first, then what it shares with others,
then libraries that nothing calls. All components of the program are modelled, but
for what section 6 names, and every invariant that a run checks is proved, except
`StandardRight` for the reason given in section 5. What is left:

1. An abstract `Broadcast` (each message to each that stays, once, in order) that
   `ThreadServer` implements while it is calm and nobody is erased.
