----------------------------- MODULE MCImports -----------------------------
(* Every name of the tables, names that differ from one of them in a character, or in      *)
(* length, and every call that glowvm's Erlang modules make of another module, but for     *)
(* io_lib_format, which is OTP's own, and the body of maps:next/1, which the NIF replaces. *)
EXTENDS Imports

BridgeCalls == {"erlang:binary_to_term/1", "lists:all/2", "crypto:strong_rand_bytes/1",
  "host_io:read_stdin/0", "host_io:write_stdout/1", "glowvm_bridge_ffi:decode_request/1"}

RandCalls == {"erlang:get/1", "erlang:put/2", "erlang:error/2", "erlang:system_time/1",
  "erlang:unique_integer/0", "math:sqrt/1", "math:log/1", "math:cos/1", "math:pi/0"}

Base64Calls == {"binary:at/2", "binary:copy/2", "binary:last/1", "binary:match/2",
  "binary:part/3", "maps:get/3", "erlang:binary_to_list/1", "erlang:byte_size/1",
  "erlang:error/2", "erlang:iolist_to_binary/1"}

JsonCalls == {"binary:at/2", "binary:part/3", "lists:reverse/1", "maps:put/3",
  "erlang:binary_to_float/1", "erlang:binary_to_integer/1", "erlang:byte_size/1",
  "erlang:error/1", "erlang:exit/1", "erlang:float_to_binary/2",
  "erlang:integer_to_binary/1", "erlang:integer_to_binary/2", "erlang:list_to_binary/1"}

UriStringCalls == {"binary:match/2", "binary:split/2", "binary:split/3", "lists:all/2",
  "lists:filtermap/2", "lists:foldl/3", "erlang:binary_to_integer/1", "erlang:binary_to_list/1"}

MapsCalls == {"erlang:is_map_key/2", "erlang:map_get/2", "erlang:map_size/1", "erlang:error/1",
  "erlang:error/2", "lists:reverse/1", "lists:sort/1", "lists:sort/2", "maps:next/1"}

StringCalls == {"erlang:length/1", "erlang:max/2", "erlang:min/2", "erlang:hd/1",
  "erlang:float/1", "erlang:error/2", "erlang:list_to_float/1", "erlang:list_to_integer/1",
  "lists:append/1", "lists:duplicate/2", "lists:flatmap/2", "lists:flatten/1", "lists:join/2",
  "lists:keysort/2", "lists:member/2", "lists:reverse/1", "lists:zip/2",
  "unicode:characters_to_binary/1", "unicode:characters_to_list/1"}

MCCalls == BridgeCalls \union RandCalls \union Base64Calls \union JsonCalls
             \union UriStringCalls \union MapsCalls \union StringCalls

Words == {w[2] : w \in N!words \union B!words}

\* Names beside those of the tables: with another first character, which is not hashed but
\* compared first, with another third one, and with one character less or more.
Strangers ==
  {Replaced(w, 0, "~") : w \in Words} \union {Replaced(w, 2, "~") : w \in Words}
    \union {SubSeq(w, 1, Len(w) - 1) : w \in Words} \union {w \o "0" : w \in Words}
    \union {SubSeq(w, 1, 5) : w \in Words} \union {w \o w : w \in Words}

MCNames == Words \union Strangers \union MCCalls \union NativeFunctions \union {"atomvm:platform/0"}

MCBuilds == {{}, DOMAIN N!conditional}
=============================================================================
