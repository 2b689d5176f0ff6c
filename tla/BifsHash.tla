------------------------------ MODULE BifsHash ------------------------------
(***************************************************************************)
(* bifs_hash.h: the perfect hash table of AtomVM's BIFs, like NifsHash.    *)
(***************************************************************************)
EXTENDS CString

TOTAL_KEYWORDS  == 71
MIN_WORD_LENGTH == 10
MAX_WORD_LENGTH == 32
MAX_HASH_VALUE  == 148

listed_values == <<
    10, 70, 149, 5, 149, 0, 0, 5, 0, 0, 149, 149, 149, 149, 149, 149, 20, 149, 30, 40, 20, 149,
    149, 149, 149, 149, 149, 149, 149, 149, 149, 149, 149, 149, 149, 149, 149, 149, 149, 149, 149,
    149, 149, 149, 149, 149, 149, 149, 149, 149, 149, 149, 149, 10, 149, 25, 0, 40, 40, 45, 10,
    40, 25, 5, 149, 149, 0, 30, 10, 40, 35, 55, 10, 5, 0, 0, 50, 149, 15, 35, 10 >>
asso_values == [b \in 0 .. 255 |-> IF b \in 42 .. 122 THEN listed_values[b - 41] ELSE 149]

hash(str, len) ==
  LET At(i) == asso_values[Byte(str, i)] IN
    len + (IF len >= 11 THEN At(10) ELSE 0)
        + (IF len >= 10 THEN At(9) ELSE 0)
        + (IF len >= 9 THEN At(8) ELSE 0)
        + (IF len >= 8 THEN At(7) ELSE 0)
        + At(len - 1)

words == {
    <<10, "erlang://2">>, <<15, "erlang:-/2">>, <<17, "erlang:bsl/2">>, <<20, "erlang:*/2">>,
    <<21, "erlang:tl/1">>, <<25, "erlang:-/1">>, <<27, "erlang:bsr/2">>, <<30, "erlang:>/2">>,
    <<36, "erlang:list_to_atom/1">>, <<37, "erlang:bit_size/1">>, <<39, "erlang:trunc/1">>,
    <<40, "erlang:</2">>, <<41, "erlang:is_list/1">>, <<42, "erlang:is_tuple/1">>,
    <<43, "erlang:is_binary/1">>, <<44, "erlang:is_boolean/1">>,
    <<45, "erlang:list_to_existing_atom/1">>, <<46, "erlang:is_bitstring/1">>,
    <<47, "erlang:abs/1">>, <<48, "erlang:is_record/2">>, <<49, "erlang:is_integer/1">>,
    <<50, "erlang:is_function/2">>, <<51, "erlang:/=/2">>, <<52, "erlang:is_float/1">>,
    <<53, "erlang:is_number/1">>, <<55, "erlang:is_function/1">>, <<56, "erlang:is_reference/1">>,
    <<57, "erlang:min/2">>, <<59, "erlang:tuple_size/1">>, <<60, "erlang:binary_part/3">>,
    <<61, "erlang:or/2">>, <<62, "erlang:bor/2">>, <<63, "erlang:binary_to_atom/2">>,
    <<66, "erlang:is_atom/1">>, <<67, "erlang:not/1">>, <<68, "erlang:bnot/1">>,
    <<69, "erlang:is_map_key/2">>, <<70, "erlang:is_map/1">>, <<71, "erlang:>=/2">>,
    <<72, "erlang:binary_to_existing_atom/2">>, <<73, "erlang:self/0">>,
    <<75, "erlang:is_pid/1">>, <<76, "erlang:is_port/1">>, <<77, "erlang:xor/2">>,
    <<78, "erlang:bxor/2">>, <<79, "erlang:round/1">>, <<80, "erlang:+/2">>,
    <<81, "erlang:=</2">>, <<82, "erlang:max/2">>, <<83, "erlang:size/1">>, <<86, "erlang:hd/1">>,
    <<87, "erlang:and/2">>, <<88, "erlang:band/2">>, <<90, "erlang:+/1">>, <<91, "erlang:==/2">>,
    <<92, "erlang:=/=/2">>, <<93, "erlang:unique_integer/0">>, <<94, "erlang:float/1">>,
    <<97, "erlang:rem/2">>, <<98, "erlang:unique_integer/1">>, <<102, "erlang:get/1">>,
    <<103, "erlang:byte_size/1">>, <<107, "erlang:div/2">>, <<108, "erlang:ceil/1">>,
    <<109, "erlang:floor/1">>, <<112, "erlang:=:=/2">>, <<115, "erlang:length/1">>,
    <<116, "erlang:map_get/2">>, <<122, "erlang:map_size/1">>, <<136, "erlang:element/2">>,
    <<148, "erlang:node/0">> }
wordlist ==
  [k \in 0 .. MAX_HASH_VALUE |-> IF \E w \in words : w[1] = k THEN (CHOOSE w \in words : w[1] = k)[2] ELSE ""]

in_word_set(str) ==
  LET len == Len(str) IN
    /\ len <= MAX_WORD_LENGTH /\ len >= MIN_WORD_LENGTH
    /\ hash(str, len) <= MAX_HASH_VALUE
    /\ wordlist[hash(str, len)] = str
=============================================================================
