------------------------------ MODULE NifsHash ------------------------------
(***************************************************************************)
(* nifs_hash.h: the perfect hash table of AtomVM's NIFs, generated by      *)
(* gperf in another checkout and committed; the build does not generate it *)
(* again.  Names are "module:function/arity".                              *)
(***************************************************************************)
EXTENDS CString

TOTAL_KEYWORDS  == 196
MIN_WORD_LENGTH == 9
MAX_WORD_LENGTH == 40
MAX_HASH_VALUE  == 715

\* By byte; a byte in none of the names at these places takes the hash beyond the table.
listed_values == <<
    0, 716, 716, 716, 716, 716, 716, 716, 716, 716, 30, 716, 20, 716, 70, 90, 5, 0, 25, 10, 50,
    716, 716, 716, 716, 10, 716, 716, 716, 716, 716, 716, 716, 716, 716, 716, 716, 716, 716, 716,
    716, 716, 716, 716, 716, 716, 716, 716, 716, 716, 716, 716, 716, 716, 716, 716, 716, 716, 716,
    716, 716, 716, 5, 135, 45, 25, 215, 20, 5, 90, 85, 15, 155, 155, 90, 0, 45, 100, 30, 20, 65,
    0, 0, 15, 110, 35, 20, 15, 5 >>
asso_values == [b \in 0 .. 256 |-> IF b \in 33 .. 121 THEN listed_values[b - 32] ELSE 716]

\* Mutant: a break between the cases 16 and 15.
hash_no_fallthrough(str, len) ==
  LET At(i) == asso_values[Byte(str, i)] IN
    len + (IF len >= 18 THEN asso_values[Byte(str, 17) + 1] ELSE 0)
        + (IF len >= 16 THEN At(15) ELSE 0)
        + (IF len \in 10 .. 15 THEN At(9) ELSE 0)
        + (IF len \in 8 .. 15 THEN At(7) ELSE 0)
        + (IF len \in 7 .. 15 THEN At(6) ELSE 0)
        + At(len - 1)

\* The cases of the switch fall through, so a longer name adds up more of its bytes.
hash(str, len) ==
  LET At(i) == asso_values[Byte(str, i)] IN
    len + (IF len >= 18 THEN asso_values[Byte(str, 17) + 1] ELSE 0)
        + (IF len >= 16 THEN At(15) ELSE 0)
        + (IF len >= 10 THEN At(9) ELSE 0)
        + (IF len >= 8 THEN At(7) ELSE 0)
        + (IF len >= 7 THEN At(6) ELSE 0)
        + At(len - 1)

\* The entries of wordlist that are not "", with their index.
words == {
    <<20, "erlang:!/2">>, <<22, "ets:delete/2">>, <<24, "binary:split/2">>,
    <<25, "lists:reverse/2">>, <<27, "ets:delete/1">>, <<28, "binary:last/1">>,
    <<29, "erlang:error/2">>, <<30, "lists:reverse/1">>, <<32, "ets:insert/2">>,
    <<34, "erlang:error/1">>, <<35, "console:print/1">>, <<41, "erlang:setnode/2">>,
    <<42, "code_server:type_resolver/2">>, <<44, "erlang:throw/1">>,
    <<45, "erlang:system_flag/2">>, <<47, "math:floor/1">>, <<49, "binary:split/3">>,
    <<50, "math:cos/1">>, <<51, "maps:from_keys/2">>, <<54, "erlang:error/3">>,
    <<55, "math:exp/1">>, <<56, "erlang:display/1">>, <<57, "erlang:put/2">>,
    <<60, "math:pow/2">>, <<61, "erlang:whereis/1">>, <<63, "code_server:is_loaded/1">>,
    <<64, "code_server:code_chunk/1">>, <<66, "binary:replace/4">>,
    <<67, "atomvm:posix_opendir/1">>, <<68, "binary:part/3">>,
    <<70, "code_server:literal_resolver/2">>, <<71, "erlang:port_to_list/1">>,
    <<72, "math:atan2/2">>, <<77, "erlang:dist_ctrl_get_data/1">>,
    <<78, "unicode:characters_to_list/2">>, <<79, "erlang:erase/1">>,
    <<80, "unicode:characters_to_binary/2">>, <<81, "atomvm:posix_select_stop/1">>,
    <<82, "code_server:atom_resolver/2">>, <<83, "unicode:characters_to_list/1">>,
    <<84, "binary:match/2">>, <<85, "unicode:characters_to_binary/1">>,
    <<86, "atomvm:posix_unlink/1">>, <<88, "atomvm:posix_clock_settime/2">>,
    <<89, "lists:member/2">>, <<90, "erlang:dist_ctrl_get_data_notification/1">>,
    <<91, "erlang:setnode/3">>, <<92, "math:atanh/1">>, <<93, "erlang:list_to_binary/1">>,
    <<94, "code_server:set_native_code/3">>, <<95, "zlib:compress/1">>,
    <<96, "binary:replace/3">>, <<98, "erlang:demonitor/1">>, <<99, "ets:new/2">>,
    <<100, "code:load_abs/1">>, <<101, "atomvm:posix_select_read/3">>,
    <<102, "atomvm:posix_select_write/3">>, <<103, "erlang:open_port/2">>,
    <<105, "unicode:characters_to_binary/3">>, <<106, "maps:next/1">>,
    <<107, "atomvm:posix_readdir/1">>, <<108, "erlang:term_to_binary/1">>,
    <<109, "binary:match/3">>, <<111, "erlang:--/2">>, <<113, "erlang:spawn_opt/2">>,
    <<115, "ets:update_counter/4">>, <<116, "math:cosh/1">>, <<117, "erlang:list_to_tuple/1">>,
    <<118, "erlang:demonitor/2">>, <<119, "binary:first/1">>, <<120, "erlang:memory/1">>,
    <<121, "erlang:++/2">>, <<122, "erlang:dist_ctrl_put_data/2">>, <<123, "erlang:send/2">>,
    <<125, "lists:flatten/1">>, <<126, "erlang:atom_to_list/1">>, <<128, "erlang:link/1">>,
    <<130, "ets:update_counter/3">>, <<131, "erlang:split_binary/2">>,
    <<133, "atomvm:read_priv/2">>, <<135, "math:log/1">>, <<136, "binary:at/2">>,
    <<137, "erlang:module_loaded/1">>, <<138, "code:load_binary/3">>, <<140, "erlang:unlink/1">>,
    <<141, "atomvm:add_avm_pack_file/2">>, <<143, "atomvm:add_avm_pack_binary/2">>,
    <<144, "atomvm:posix_open/2">>, <<146, "math:atan/1">>, <<147, "erlang:list_to_float/1">>,
    <<148, "erlang:spawn_opt/4">>, <<150, "code:ensure_loaded/1">>, <<151, "math:sqrt/1">>,
    <<152, "ets:lookup/2">>, <<153, "erlang:delete_element/2">>, <<154, "atomvm:subprocess/4">>,
    <<155, "erlang:system_info/1">>, <<156, "math:fmod/2">>, <<163, "erlang:atom_to_binary/2">>,
    <<164, "erlang:erase/0">>, <<165, "math:tan/1">>, <<168, "erlang:atom_to_binary/1">>,
    <<169, "atomvm:posix_open/3">>, <<171, "erlang:monitor/2">>, <<173, "erlang:processes/0">>,
    <<175, "atomvm:posix_close/1">>, <<176, "erlang:list_to_bitstring/1">>,
    <<177, "code:all_loaded/0">>, <<178, "atomvm:posix_closedir/1">>,
    <<182, "erlang:register/2">>, <<183, "erlang:exit/2">>, <<184, "atomvm:posix_read/2">>,
    <<187, "math:asinh/1">>, <<188, "erlang:exit/1">>, <<191, "os:getenv/1">>,
    <<196, "erlang:process_flag/2">>, <<201, "math:log2/1">>, <<203, "erlang:timestamp/0">>,
    <<204, "erlang:raise/3">>, <<212, "erlang:get/0">>, <<218, "erlang:binary_to_atom/1">>,
    <<221, "erlang:process_flag/3">>, <<222, "math:log10/1">>, <<223, "erlang:nif_error/1">>,
    <<225, "lists:keyfind/3">>, <<226, "atomvm:posix_mkfifo/2">>, <<230, "code_server:resume/2">>,
    <<231, "math:tanh/1">>, <<232, "erlang:tuple_to_list/1">>, <<238, "erlang:binary_to_list/1">>,
    <<239, "erlang:unregister/1">>, <<241, "math:asin/1">>,
    <<245, "calendar:system_time_to_universal_time/2">>, <<246, "math:ceil/1">>,
    <<250, "base64:encode/1">>, <<252, "lists:keymember/3">>, <<253, "erlang:localtime/1">>,
    <<254, "erlang:make_tuple/2">>, <<256, "atomvm:get_creation/0">>,
    <<257, "erlang:make_fun/3">>, <<258, "binary:copy/2">>, <<259, "erlang:setelement/3">>,
    <<261, "erlang:function_exported/3">>, <<263, "binary:copy/1">>, <<265, "base64:decode/1">>,
    <<269, "erlang:get_module_info/2">>, <<270, "code:all_available/0">>,
    <<274, "erlang:get_module_info/1">>, <<275, "math:sin/1">>, <<277, "math:acosh/1">>,
    <<279, "erlang:binary_to_float/1">>, <<280, "erlang:system_time/1">>,
    <<281, "erlang:group_leader/2">>, <<287, "erlang:fun_info/2">>,
    <<292, "erlang:binary_to_existing_atom/1">>, <<295, "atomvm:posix_write/2">>,
    <<298, "erlang:binary_to_term/2">>, <<299, "erlang:list_to_integer/2">>,
    <<300, "ets:lookup_element/3">>, <<302, "erts_debug:flat_size/1">>,
    <<303, "erlang:binary_to_term/1">>, <<304, "erlang:list_to_integer/1">>,
    <<305, "base64:encode_to_string/1">>, <<312, "erlang:float_to_list/2">>,
    <<313, "erlang:insert_element/3">>, <<314, "erlang:float_to_binary/2">>,
    <<317, "erlang:float_to_list/1">>, <<319, "erlang:float_to_binary/1">>,
    <<320, "base64:decode_to_string/1">>, <<321, "erlang:process_info/2">>,
    <<322, "erlang:make_ref/0">>, <<331, "math:acos/1">>, <<335, "erlang:is_process_alive/1">>,
    <<339, "file:get_cwd/0">>, <<340, "erlang:pid_to_list/1">>, <<341, "math:sinh/1">>,
    <<343, "erlang:localtime/0">>, <<346, "erlang:binary_to_integer/2">>,
    <<351, "erlang:binary_to_integer/1">>, <<354, "erlang:integer_to_list/2">>,
    <<356, "erlang:integer_to_binary/2">>, <<358, "jit:variant/0">>,
    <<359, "erlang:integer_to_list/1">>, <<361, "erlang:integer_to_binary/1">>,
    <<368, "atomvm:get_start_beam/1">>, <<371, "erlang:group_leader/0">>,
    <<384, "erlang:garbage_collect/1">>, <<388, "atomvm:close_avm_pack/2">>,
    <<390, "erlang:ref_to_list/1">>, <<435, "erlang:iolist_size/1">>,
    <<440, "erlang:iolist_to_binary/1">>, <<469, "erlang:garbage_collect/0">>,
    <<490, "erlang:fun_to_list/1">>, <<508, "erlang:monotonic_time/1">>,
    <<542, "erlang:universaltime/0">>, <<715, "jit:backend_module/0">> }
wordlist ==
  [k \in 0 .. MAX_HASH_VALUE |-> IF \E w \in words : w[1] = k THEN (CHOOSE w \in words : w[1] = k)[2] ELSE ""]

\* The entries whose NIF is NULL unless AtomVM was configured with what the macro stands for.
conditional ==
  [IF_HAVE_JIT |->
     {"code_server:type_resolver/2", "code_server:code_chunk/1", "code_server:literal_resolver/2",
      "code_server:atom_resolver/2", "code_server:set_native_code/3", "jit:variant/0",
      "jit:backend_module/0"},
   IF_HAVE_OPENDIR_READDIR_CLOSEDIR |->
     {"atomvm:posix_opendir/1", "atomvm:posix_readdir/1", "atomvm:posix_closedir/1"},
   IF_HAVE_OPEN_CLOSE |->
     {"atomvm:posix_select_stop/1", "atomvm:posix_select_read/3", "atomvm:posix_select_write/3",
      "atomvm:posix_open/2", "atomvm:posix_open/3", "atomvm:posix_close/1",
      "atomvm:posix_read/2", "atomvm:posix_write/2"},
   IF_HAVE_UNLINK |-> {"atomvm:posix_unlink/1"},
   IF_HAVE_CLOCK_SETTIME_OR_SETTIMEOFDAY |-> {"atomvm:posix_clock_settime/2"},
   IF_HAVE_EXECVE |-> {"atomvm:subprocess/4"},
   IF_HAVE_MKFIFO |-> {"atomvm:posix_mkfifo/2"},
   IF_HAVE_GETCWD_PATHMAX |-> {"file:get_cwd/0"}]

\* Whether the table has an entry of this name.
nif_in_word_set(str) ==
  LET len == Len(str) IN
    /\ len <= MAX_WORD_LENGTH /\ len >= MIN_WORD_LENGTH
    /\ hash(str, len) <= MAX_HASH_VALUE
    /\ wordlist[hash(str, len)] = str
=============================================================================
