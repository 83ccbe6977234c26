------------------------------- MODULE PrimeServer -----------------------------
(* 01_primes: a task per connection answers whether numbers are prime, from one *)
(* table of primes that all connections share and extend (primes.rs, main.rs).  *)
EXTENDS Integers, SequencesExt

CONSTANTS
  PrimeClients,  \* the connections
  Lines,         \* the lines that they may send: [kind, n]
  MaxAsked       \* bound: how many lines each of them sends

ASSUME PrimeAssumption ==
  /\ MaxAsked \in Nat
  /\ \A line \in Lines : line.kind \in {"malformed", "fraction", "integer"} /\ line.n \in Int

VARIABLES
  known,    \* Primes::known
  buff,     \* of each connection: the lines in its buffer
  reply,    \* of each connection: the response it is writing, if any
  open,     \* the connections that go on
  asked,    \* history: the lines read from each connection
  answered  \* history: the responses written to each connection

primeVars == <<known, buff, reply, open, asked, answered>>

None == <<>>

--------------------------------------------------------------------------------
(* primes.rs *)

(* An upper bound of the square root; f64 is exact enough for 64 bits.          *)
SqrtSup(n) == CHOOSE x \in 0 .. n : x * x >= n /\ (x = 0 \/ (x - 1) * (x - 1) < n)

\* A mutant: whether p is large enough is looked at before it divides.
Guessed_swapped(n, table) ==
  LET i == SelectInSeq(table, LAMBDA p : p >= SqrtSup(n) \/ n % p = 0)
  IN i > 0 /\ table[i] >= SqrtSup(n)

(* push_next takes n for a prime: the first entry of the table that settles it  *)
(* does not divide it.                                                          *)
Guessed(n, table) ==
  LET i == SelectInSeq(table, LAMBDA p : n % p = 0 \/ p >= SqrtSup(n))
  IN i > 0 /\ n % table[i] # 0

(* There is one below twice the last entry.                                     *)
NextPrime(table) ==
  CHOOSE n \in Last(table) + 1 .. 2 * Last(table) :
    /\ Guessed(n, table)
    /\ \A m \in Last(table) + 1 .. n - 1 : ~ Guessed(m, table)

(* The first entry of the table that tells whether n is prime, or 0.            *)
Settles(n, table) ==
  SelectInSeq(table, LAMBDA p : n = p \/ n % p = 0 \/ p >= SqrtSup(n))

(* The table is extended until its last entry tells.                            *)
Grown(n, table) ==
  FoldLeft(LAMBDA t, i : IF n % Last(t) = 0 \/ Last(t) >= SqrtSup(n) THEN t
                         ELSE Append(t, NextPrime(t)),
           table, [i \in 1 .. SqrtSup(n) |-> i])

(* is_prime: the answer, and the table that it leaves behind.                   *)
Verdict(n, table) ==
  LET i == Settles(n, table) IN
  IF i > 0 THEN n = table[i] \/ n % table[i] # 0
  ELSE n % Last(Grown(n, table)) # 0

TableAfter(n, table) == IF Settles(n, table) > 0 THEN table ELSE Grown(n, table)

--------------------------------------------------------------------------------
(* main.rs *)

(* Two lines in the buffer are no JSON value.                                   *)
RequestIn(lines) == IF Len(lines) = 1 THEN lines[1] ELSE [kind |-> "malformed", n |-> 0]

(* process_request, up to the call of is_prime                                  *)
IsAsked(line) == line.kind = "integer" /\ line.n >= 2

Response(line, table) ==
  IF line.kind = "malformed" THEN "error"
  ELSE IF IsAsked(line) /\ Verdict(line.n, table) THEN "true" ELSE "false"

(* A line is read, at the end of the input maybe without its newline, and       *)
(* answered at once from the table.                                             *)
Read(c) ==
  /\ c \in open
  /\ reply[c] = None
  /\ Len(asked[c]) < MaxAsked
  /\ \E line \in Lines :
       LET buffer == Append(buff[c], line)
           request == RequestIn(buffer) IN
       /\ buff' = [buff EXCEPT ![c] = buffer]
       /\ reply' = [reply EXCEPT ![c] = <<Response(request, known)>>]
       /\ known' = IF IsAsked(request) THEN TableAfter(request.n, known) ELSE known
       /\ asked' = [asked EXCEPT ![c] = Append(@, line)]
  /\ UNCHANGED <<open, answered>>

\* A mutant: the buffer is cleared only once it has been malformed.
Write_uncleared(c) ==
  /\ reply[c] # None
  /\ answered' = [answered EXCEPT ![c] = @ \o reply[c]]
  /\ reply' = [reply EXCEPT ![c] = None]
  /\ open' = IF reply[c] = <<"error">> THEN open \ {c} ELSE open
  /\ UNCHANGED <<known, buff, asked>>

(* The response is written; a malformed request ends the connection.            *)
Write(c) ==
  /\ reply[c] # None
  /\ answered' = [answered EXCEPT ![c] = @ \o reply[c]]
  /\ reply' = [reply EXCEPT ![c] = None]
  /\ IF reply[c] = <<"error">>
     THEN open' = open \ {c} /\ UNCHANGED buff
     ELSE buff' = [buff EXCEPT ![c] = <<>>] /\ UNCHANGED open
  /\ UNCHANGED <<known, asked>>

(* The input has ended, or a read or a write fails.                             *)
Close(c) ==
  /\ c \in open
  /\ open' = open \ {c}
  /\ reply' = [reply EXCEPT ![c] = None]
  /\ UNCHANGED <<known, buff, asked, answered>>

PrimeInit ==
  /\ known = <<2>>
  /\ buff = [c \in PrimeClients |-> <<>>]
  /\ reply = [c \in PrimeClients |-> None]
  /\ open = PrimeClients
  /\ asked = [c \in PrimeClients |-> <<>>]
  /\ answered = [c \in PrimeClients |-> <<>>]

PrimeNext == \E c \in PrimeClients : Read(c) \/ Write(c) \/ Close(c)

PrimeSpec == PrimeInit /\ [][PrimeNext]_primeVars

--------------------------------------------------------------------------------
(* Properties *)

IsAPrime(n) == n >= 2 /\ \A d \in 2 .. n - 1 : n % d # 0

(* The table that all connections share has every prime up to its last entry,   *)
(* in order, and nothing else, whatever requests made it grow: an entry that is *)
(* not prime or is left out would spoil the answers of all connections that     *)
(* follow (primes.rs:24-44).                                                    *)
TableIsPrimes ==
  /\ ToSet(known) = {n \in 2 .. Last(known) : IsAPrime(n)}
  /\ \A i \in 1 .. Len(known) - 1 : known[i] < known[i + 1]

(* A "fraction" is a number that is no i64.  That the answer is also "false" for *)
(* an integer above i64::MAX is taken from the code; nothing else settles it.   *)
Expected(line) ==
  CASE line.kind = "malformed" -> "error"
    [] line.kind = "fraction" -> "false"
    [] line.kind = "integer" -> IF IsAPrime(line.n) THEN "true" ELSE "false"

(* Every line of a connection gets the right response, in order, whatever       *)
(* others asked before and however far the table has grown by then; and nothing *)
(* is answered after a malformed one (main.rs:79-129).                          *)
AnswersRight ==
  \A c \in PrimeClients :
    /\ Len(answered[c]) <= Len(asked[c])
    /\ \A i \in 1 .. Len(answered[c]) :
         /\ answered[c][i] = Expected(asked[c][i])
         /\ answered[c][i] = "error" => i = Len(asked[c])
================================================================================
