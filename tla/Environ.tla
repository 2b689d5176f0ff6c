------------------------------- MODULE Environ ------------------------------
(***************************************************************************)
(* How arguments and bindings reach the guest: wasi-libc asks the host for *)
(* their number and size, reserves so much, and has the host write them    *)
(* there (index.js:50, 72-91, 100-119).  The host counts UTF-16 units, and *)
(* writes UTF-8.                                                           *)
(***************************************************************************)
EXTENDS Integers, Sequences

CONSTANTS
  Args,         \* the arguments: atomvm, app.avm
  Environments  \* sets of bindings, each a sequence of "key=value" strings

\* A string is a sequence of kinds of characters.
Char == {"ascii", "latin", "emoji"}

ASSUME StringsAssumption == Args \in Seq(Seq(Char)) /\ Environments \subseteq Seq(Seq(Char))

VARIABLES
  strings,   \* the strings passed: [args |-> ..., environ |-> ...]
  size,      \* what args_sizes_get and environ_sizes_get answer
  pointers,  \* the offsets they were given
  written    \* how many bytes were written

evars == <<strings, size, pointers, written>>

\* The UTF-16 units and the UTF-8 bytes of a character.
Units(char) == CASE char = "ascii" -> 1 [] char = "latin" -> 1 [] char = "emoji" -> 2
Utf8(char)  == CASE char = "ascii" -> 1 [] char = "latin" -> 2 [] char = "emoji" -> 4

\* The sums a loop over the numbers w goes through: SumUpTo(w)[k] of the first k.
SumUpTo(w) ==
  LET sum[k \in 0 .. Len(w)] == IF k = 0 THEN 0 ELSE sum[k - 1] + w[k]
  IN  sum
Sum(w) == SumUpTo(w)[Len(w)]

length(string) == Sum([i \in DOMAIN string |-> Units(string[i])])
encode(string) == Sum([i \in DOMAIN string |-> Utf8(string[i])])

NUL == "ascii"

\* Mutant: the bindings are taken to be without their NUL.
environ_sizes_get_no_nul(entries) == Sum([i \in DOMAIN entries |-> length(entries[i]) - 1])

args_sizes_get(args) == Sum([i \in DOMAIN args |-> length(args[i]) + 1])

\* A binding has its NUL from the start, an argument gets it here.
Terminated(texts) == [i \in DOMAIN texts |-> Append(texts[i], NUL)]
envEntries(env) == Terminated(env)
environ_sizes_get(entries) == Sum([i \in DOMAIN entries |-> length(entries[i])])

\* Where args_get and environ_get put the strings, and the offset behind the last.
Placed(entries) ==
  LET sizes == [i \in DOMAIN entries |-> encode(entries[i])]
  IN  [at |-> [i \in DOMAIN entries |-> SumUpTo(sizes)[i - 1]], next |-> Sum(sizes)]

args_get(args) == Placed(Terminated(args))
environ_get(entries) == Placed(entries)

EInit ==
  /\ strings \in [args : {Args}, environ : {envEntries(env) : env \in Environments}]
  /\ size = [args |-> 0, environ |-> 0]
  /\ pointers = [args |-> <<>>, environ |-> <<>>]
  /\ written = [args |-> 0, environ |-> 0]

\* wasi-libc before main.
PassStrings ==
  LET args == args_get(strings.args)
      environ == environ_get(strings.environ)
  IN  /\ size' = [args |-> args_sizes_get(strings.args),
                  environ |-> environ_sizes_get(strings.environ)]
      /\ pointers' = [args |-> args.at, environ |-> environ.at]
      /\ written' = [args |-> args.next, environ |-> environ.next]
      /\ UNCHANGED strings

-----------------------------------------------------------------------------
Ascii(texts) == \A i \in DOMAIN texts : \A k \in DOMAIN texts[i] : texts[i][k] = "ascii"

\* What is written is exactly what room was made for, and every pointer lies within it,
\* although the two are computed in two functions and the NUL is counted in another place
\* for arguments than for bindings (index.js:50, 78, 87, 115).  Only for ASCII: a
\* binding with other characters is given too little room.
StringsFit ==
  \A kind \in {"args", "environ"} :
    Ascii(strings[kind]) =>
      /\ written[kind] = size[kind]
      /\ \A i \in DOMAIN pointers[kind] : pointers[kind][i] < size[kind]
=============================================================================
