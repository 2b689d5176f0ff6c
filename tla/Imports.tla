------------------------------ MODULE Imports ------------------------------
(***************************************************************************)
(* What a call of another module's function runs in the guest.  AtomVM     *)
(* looks an imported function up by its name, "module:function/arity":     *)
(* first among the BIFs, then among its NIFs, then among this platform's   *)
(* (platform_nifs.c:159-191), and only then among the modules of the       *)
(* application's pack.  The two tables are perfect hashes made elsewhere,  *)
(* the platform's list is kept by hand, and so is the list of modules the  *)
(* build ships (build-glowvm.sh:306-317); nothing but a call at run time   *)
(* tells whether they fit the Erlang code that relies on them.             *)
(***************************************************************************)
EXTENDS CString, FiniteSets, TLC

CONSTANTS
  Names,    \* the names looked up
  Calls,    \* those that glowvm's Erlang modules call in other modules
  Builds    \* the macros AtomVM may be configured with

N == INSTANCE NifsHash
B == INSTANCE BifsHash

\* The tables are here in full.
ASSUME TablesAssumption ==
  Cardinality(N!words) = N!TOTAL_KEYWORDS /\ Cardinality(B!words) = B!TOTAL_KEYWORDS
ASSUME BuildsAssumption == Builds \subseteq SUBSET DOMAIN N!conditional

VARIABLES mfa, macros

vars == <<mfa, macros>>

Init == mfa \in Names /\ macros \in Builds

\* A lookup changes nothing.
Next == UNCHANGED vars

Spec == Init /\ [][Next]_vars

-----------------------------------------------------------------------------
\* Mutant: write_stdout is listed with the arity of read_stdin.
platform_nifs_misspelt ==
     "atomvm:platform/0"          :> "nif_atomvm_platform"
  @@ "host_io:read_stdin/0"       :> "nif_wasi_read_stdin"
  @@ "host_io:write_stdout/0"     :> "nif_wasi_write_stdout"
  @@ "crypto:strong_rand_bytes/1" :> "nif_crypto_strong_rand_bytes"
  @@ "os:type/0"                  :> "nif_os_type"

platform_nifs ==
     "atomvm:platform/0"          :> "nif_atomvm_platform"
  @@ "host_io:read_stdin/0"       :> "nif_wasi_read_stdin"
  @@ "host_io:write_stdout/1"     :> "nif_wasi_write_stdout"
  @@ "crypto:strong_rand_bytes/1" :> "nif_crypto_strong_rand_bytes"
  @@ "os:type/0"                  :> "nif_os_type"

Missing == "missing"

platform_nifs_get_nif(name) ==
  IF name \in DOMAIN platform_nifs THEN platform_nifs[name] ELSE Missing

\* An entry of AtomVM's table hides the platform's function of that name, even when the
\* NIF of the entry is NULL.
nifs_get(name, built) ==
  IF ~N!nif_in_word_set(name) THEN platform_nifs_get_nif(name)
  ELSE IF \E m \in DOMAIN N!conditional \ built : name \in N!conditional[m] THEN Missing
  ELSE "nif"

\* Mutant: an Erlang module taken from the list for one that is only made of NIFs.
ShippedWithoutLists ==
  {"binary", "erlang", "file", "filename", "io", "io_lib", "logger", "os", "unicode"}

\* The modules of Erlang's library that the build puts into every pack.
Shipped ==
  {"binary", "erlang", "file", "filename", "io", "io_lib", "lists", "logger", "os", "unicode"}

\* The modules of glowvm itself, the shims among them.
Own == {"base64", "glowvm_bridge_ffi", "host_io", "io_lib_format", "json", "maps", "rand",
        "string", "uri_string"}

Of(name, module) ==
  Len(name) > Len(module) /\ SubSeq(name, 1, Len(module) + 1) = module \o ":"

\* What a call of that name runs; a module that is there is taken to have the function.
Link(name, built) ==
  IF B!in_word_set(name) THEN "bif"
  ELSE IF nifs_get(name, built) # Missing THEN nifs_get(name, built)
  ELSE IF \E module \in Shipped \union Own : Of(name, module) THEN "beam"
  ELSE Missing

-----------------------------------------------------------------------------
\* The tables find every name they hold, and no other: not one that hashes to the same entry,
\* nor one of a length none of them has (nifs_hash.h:645-658, bifs_hash.h:291-304).
LookupIsExact ==
  /\ N!nif_in_word_set(mfa) <=> \E w \in N!words : w[2] = mfa
  /\ B!in_word_set(mfa) <=> \E w \in B!words : w[2] = mfa

\* The bridge reaches the C functions written for it, and never the Erlang function of the
\* same name, however AtomVM is configured: "The BEAM bodies are never executed there"
\* (host_io.erl:4-7).  So do strong_rand_bytes, os:type and the iteration of maps
\* ("on AtomVM this is a NIF, bound at every call site", maps.erl:218-219).
NativeFunctions == {"host_io:read_stdin/0", "host_io:write_stdout/1", "os:type/0",
                    "crypto:strong_rand_bytes/1", "maps:next/1"}
BridgeReachesItsNifs == mfa \in NativeFunctions => Link(mfa, macros) \notin {"beam", Missing}

\* Every call that glowvm's Erlang modules make of another module runs something, although
\* the build ships ten modules of Erlang's library and no more (build-glowvm.sh:284-317).
CallsResolve == mfa \in Calls /\ ~Of(mfa, "math") => Link(mfa, macros) # Missing

\* "every function is a NIF (see vendor/AtomVM's nifs.gperf) and resolves without a beam"
\* (build-glowvm.sh:301-302), so math is left out of the pack.
MathNeedsNoBeam == mfa \in Calls /\ Of(mfa, "math") => Link(mfa, macros) # Missing
=============================================================================
