----------------------------- MODULE FlagsParse -----------------------------
(***************************************************************************)
(* iree_flags_parse (src/iree/base/internal/flags.c): the argv loop that   *)
(* looks every `--name=value` argument up in the flag registry, parses it  *)
(* into the flag's storage and splices it out of argv, together with the   *)
(* two built-in callback flags: --help and --flagfile, whose callback      *)
(* iree_flags_parse_file parses a file line by line and may itself meet    *)
(* --flagfile (a recursive call, modelled by an explicit stack of frames). *)
(*                                                                         *)
(* Data abstraction: an argument or a file line is a record that is        *)
(* already trimmed and split at the first '=' (kind, name, value); the     *)
(* values are a few strings.  The typed conversions keep their effect on   *)
(* the stored value: a bool flag stores TRUE for "", "true" and "1" and    *)
(* FALSE for anything else; a string flag stores the value itself (the     *)
(* quote stripping of flags.c:210-218 only rewrites the text).  The        *)
(* registry is fixed before main() runs (static registration) and has no   *)
(* two flags of one name, so the sort before parsing does not change which *)
(* flag a lookup finds.                                                    *)
(***************************************************************************)
EXTENDS Integers, Sequences, SequencesExt

CONSTANTS
    BoolFlags,      \* registered IREE_FLAG(bool, ...) names
    StringFlags,    \* registered IREE_FLAG(string, ...) names
    Unregistered,   \* names that appear in the input but are not registered
    Values,         \* the value strings that appear in the input
    FileContents,   \* file path -> sequence of lines; a path outside the
                    \* domain does not exist
    Argvs,          \* the argv vectors the program may be started with
    MaxDepth        \* bound on --flagfile nesting; reaching it stands for
                    \* the unbounded recursion running out of stack

\* The two callback flags that flags.c itself registers (lines 310, 548).
Help == "help"
Flagfile == "flagfile"
ValueFlags == BoolFlags \cup StringFlags
Registered == ValueFlags \cup {Help, Flagfile}
Names == Registered \cup Unregistered

ASSUME /\ BoolFlags \cap StringFlags = {}
       /\ Unregistered \cap Registered = {}
       /\ MaxDepth \in Nat \ {0}

\* The defaults given at registration: false for a bool, and a string that
\* no input spells for a string flag.
Unset == "unset"
Defaults == [f \in ValueFlags |-> IF f \in BoolFlags THEN "false" ELSE Unset]
Statuses == {"running", "ok", "invalid_argument", "not_found", "exited",
             "stack_overflow"}
Modes == [undefined_ok : BOOLEAN, continue_after_help : BOOLEAN]

VARIABLES
    mode,       \* iree_flags_parse_mode_t
    argv0,      \* the argv the call started with (never changes)
    argv,       \* *argv_ptr, spliced in place; Len(argv) is argc
    ord,        \* arg_ordinal + 1 (TLA+ sequences start at 1)
    stack,      \* active iree_flags_parse_file calls: [file, line]
    storage,    \* flag name -> stored value
    help_shown, \* iree_flags_parse_help has printed the usage text
    status

vars == <<mode, argv0, argv, ord, stack, storage, help_shown, status>>

Init ==
    /\ mode \in Modes
    /\ argv0 \in Argvs
    /\ argv = argv0
    /\ ord = 2
    /\ stack = <<>>
    /\ storage = Defaults
    /\ help_shown = FALSE
    /\ status = "running"

\* Mutant: the value is stored without the bool conversion.
ParseValueRaw(f, v) == v

(* iree_flag_parse for the two typed kinds (a stored bool is written as    *)
(* "true" or "false"); the callback kinds are handled by the actions, as   *)
(* they change control rather than storage.                                *)
ParseValue(f, v) ==
    CASE f \in BoolFlags /\ v \in {"", "true", "1"} -> "true"
      [] f \in BoolFlags -> "false"
      [] OTHER -> v

Store(f, v) == storage' = [storage EXCEPT ![f] = ParseValue(f, v)]

\* iree_flags_remove_arg(arg_ordinal, ...) followed by --arg_ordinal.
RemoveArg == argv' = RemoveAt(argv, ord)

Top == stack[Len(stack)]
TopLines == FileContents[Top.file]

\* A top-level step of the loop, with the stack empty.
ArgLoop == stack = <<>> /\ status = "running" /\ ord <= Len(argv)

\* A positional argument is left in place (flags.c:343-345).
ParsePositional ==
    /\ ArgLoop /\ argv[ord].kind = "pos"
    /\ ord' = ord + 1
    /\ UNCHANGED <<mode, argv0, argv, stack, storage, help_shown, status>>

\* An unknown flag is skipped under UNDEFINED_OK, an error otherwise
\* (flags.c:358-369).
ParseUnknown ==
    /\ ArgLoop /\ argv[ord].kind = "flag" /\ argv[ord].name \in Unregistered
    /\ IF mode.undefined_ok
         THEN ord' = ord + 1 /\ status' = status
         ELSE ord' = ord /\ status' = "invalid_argument"
    /\ UNCHANGED <<mode, argv0, argv, stack, storage, help_shown>>

\* A typed flag is parsed into its storage and spliced out (flags.c:372,
\* 384-386).
\* Mutant: the argument is spliced out but arg_ordinal is not stepped back.
ParseValueFlagNoStepBack ==
    /\ ArgLoop /\ argv[ord].kind = "flag" /\ argv[ord].name \in ValueFlags
    /\ Store(argv[ord].name, argv[ord].value)
    /\ RemoveArg
    /\ ord' = ord + 1
    /\ UNCHANGED <<mode, argv0, stack, help_shown, status>>

ParseValueFlag ==
    /\ ArgLoop /\ argv[ord].kind = "flag" /\ argv[ord].name \in ValueFlags
    /\ Store(argv[ord].name, argv[ord].value)
    /\ RemoveArg
    /\ UNCHANGED <<mode, argv0, ord, stack, help_shown, status>>

\* --help prints the usage (iree_flags_parse_help), then either stays in
\* argv or exits the process (flags.c:377-382).
ParseHelp ==
    /\ ArgLoop /\ argv[ord].kind = "flag" /\ argv[ord].name = Help
    /\ help_shown' = TRUE
    /\ IF mode.continue_after_help
         THEN ord' = ord + 1 /\ status' = status
         ELSE ord' = ord /\ status' = "exited"
    /\ UNCHANGED <<mode, argv0, argv, stack, storage>>

\* --flagfile=path on the command line: iree_flags_parse_flagfile rejects
\* an empty path, iree_file_read_contents fails on a missing file, and
\* otherwise iree_flags_parse_file starts on line 1 (flags.c:528-543,
\* 458-468).
ParseFlagfileArg ==
    /\ ArgLoop /\ argv[ord].kind = "flag" /\ argv[ord].name = Flagfile
    /\ LET v == argv[ord].value IN
       CASE v = "" -> status' = "invalid_argument" /\ stack' = stack
         [] v \notin DOMAIN FileContents -> status' = "not_found" /\ stack' = stack
         [] OTHER -> stack' = <<[file |-> v, line |-> 1]>> /\ status' = status
    /\ UNCHANGED <<mode, argv0, argv, ord, storage, help_shown>>

\* The loop runs out of arguments: *argc_ptr = argc and OK (flags.c:389-390;
\* an empty argv returns OK at once, flags.c:323-326).
FinishParse ==
    /\ stack = <<>> /\ status = "running" /\ ord > Len(argv)
    /\ status' = "ok"
    /\ UNCHANGED <<mode, argv0, argv, ord, stack, storage, help_shown>>


\* A step of the innermost iree_flags_parse_file call on its current line.
FileLoop == stack # <<>> /\ status = "running" /\ Top.line <= Len(TopLines)
Line == TopLines[Top.line]
NextLine == stack' = [stack EXCEPT ![Len(stack)].line = @ + 1]

\* Blank lines and `#` or `//` comments are skipped (flags.c:480-488).
FileSkipLine ==
    /\ FileLoop /\ Line.kind \in {"blank", "comment"}
    /\ NextLine
    /\ UNCHANGED <<mode, argv0, argv, ord, storage, help_shown, status>>

\* A positional line and an unknown flag are errors in a file, whatever the
\* mode (flags.c:491-497, 508-514).
FileRejectLine ==
    /\ FileLoop
    /\ \/ Line.kind = "pos"
       \/ Line.kind = "flag" /\ Line.name \in Unregistered
    /\ status' = "invalid_argument"
    /\ UNCHANGED <<mode, argv0, argv, ord, stack, storage, help_shown>>

\* A typed flag line is parsed into its storage (flags.c:517-520).
FileValueLine ==
    /\ FileLoop /\ Line.kind = "flag" /\ Line.name \in ValueFlags
    /\ Store(Line.name, Line.value)
    /\ NextLine
    /\ UNCHANGED <<mode, argv0, argv, ord, help_shown, status>>

\* --help in a file runs the help callback through iree_flag_parse, which
\* prints and returns OK; the exit of flags.c:381 is not on this path.
FileHelpLine ==
    /\ FileLoop /\ Line.kind = "flag" /\ Line.name = Help
    /\ help_shown' = TRUE
    /\ NextLine
    /\ UNCHANGED <<mode, argv0, argv, ord, storage, status>>

\* --flagfile in a file calls iree_flags_parse_file again; nothing limits the
\* depth, so the model's bound stands for the exhausted stack.
FileFlagfileLine ==
    /\ FileLoop /\ Line.kind = "flag" /\ Line.name = Flagfile
    /\ LET v == Line.value IN
       CASE v = "" -> status' = "invalid_argument" /\ stack' = stack
         [] v \notin DOMAIN FileContents -> status' = "not_found" /\ stack' = stack
         [] Len(stack) = MaxDepth -> status' = "stack_overflow" /\ stack' = stack
         [] OTHER -> stack' = Append(stack, [file |-> v, line |-> 1])
                     /\ status' = status
    /\ UNCHANGED <<mode, argv0, argv, ord, storage, help_shown>>

(* The file is exhausted: the call returns OK.  Back in iree_flags_parse   *)
(* the --flagfile argument is spliced out like any parsed flag; back in an *)
(* outer file the loop goes on with the next line.                         *)
FileEnd ==
    /\ stack # <<>> /\ status = "running" /\ Top.line > Len(TopLines)
    /\ IF Len(stack) = 1
         THEN stack' = <<>> /\ RemoveArg
         ELSE /\ stack' = [s \in 1..(Len(stack) - 1) |->
                             IF s = Len(stack) - 1
                               THEN [stack[s] EXCEPT !.line = @ + 1]
                               ELSE stack[s]]
              /\ argv' = argv
    /\ UNCHANGED <<mode, argv0, ord, storage, help_shown, status>>

Next ==
    \/ ParsePositional \/ ParseUnknown \/ ParseValueFlag \/ ParseHelp
    \/ ParseFlagfileArg \/ FinishParse
    \/ FileSkipLine \/ FileRejectLine \/ FileValueLine \/ FileHelpLine
    \/ FileFlagfileLine \/ FileEnd

\* The parse is a sequential loop: it keeps taking steps until it returns.
Spec == Init /\ [][Next]_vars /\ WF_vars(Next)

-----------------------------------------------------------------------------
(***************************************************************************)
(* Reference: the meaning of a flag list read left to right, with a        *)
(* flagfile's lines taking the place of its argument ("Flags are parsed at *)
(* the point where the flagfile is specified and following flags may      *)
(* override the parsed values", flags.c:550-553).  The state is the       *)
(* storage, the status and the arguments that stay in argv.                *)
(***************************************************************************)
RECURSIVE RunItems(_, _, _, _)
RECURSIVE RunItem(_, _, _, _)

RunItems(st, items, infile, d) ==
    IF items = <<>> \/ st.status # "running" THEN st
    ELSE RunItems(RunItem(st, Head(items), infile, d), Tail(items), infile, d)

RunItem(st, it, infile, d) ==
    LET err(code) == [st EXCEPT !.status = code]
        keep == IF infile THEN st ELSE [st EXCEPT !.kept = Append(@, it)]
    IN
    CASE it.kind \in {"blank", "comment"} -> st
      [] it.kind = "pos" -> IF infile THEN err("invalid_argument") ELSE keep
      [] it.name \in Unregistered ->
            IF ~infile /\ st.mode.undefined_ok THEN keep
            ELSE err("invalid_argument")
      [] it.name \in ValueFlags ->
            [st EXCEPT !.store[it.name] = ParseValue(it.name, it.value)]
      [] it.name = Help ->
            IF infile \/ st.mode.continue_after_help THEN keep
            ELSE err("exited")
      [] it.value = "" -> err("invalid_argument")
      [] it.value \notin DOMAIN FileContents -> err("not_found")
      [] d = MaxDepth -> err("stack_overflow")
      [] OTHER -> RunItems(st, FileContents[it.value], TRUE, d + 1)

Reference ==
    LET st0 == [mode |-> mode, store |-> Defaults,
                status |-> "running", kept |-> <<>>]
        r == IF argv0 = <<>> THEN st0 ELSE RunItems(st0, Tail(argv0), FALSE, 0)
    IN IF r.status = "running" THEN [r EXCEPT !.status = "ok"] ELSE r

-----------------------------------------------------------------------------
ArgRecords == [kind : {"pos", "flag"}, name : Names, value : Values]

TypeOK ==
    /\ mode \in Modes
    /\ argv \in Seq(ArgRecords) /\ Len(argv) <= Len(argv0)
    /\ ord \in 2..(Len(argv0) + 2)
    /\ stack \in Seq([file : DOMAIN FileContents, line : Nat \ {0}])
    /\ Len(stack) <= MaxDepth
    /\ DOMAIN storage = ValueFlags
    /\ \A f \in BoolFlags : storage[f] \in {"true", "false"}
    /\ \A f \in StringFlags : storage[f] \in Values \cup {Unset}
    /\ help_shown \in BOOLEAN
    /\ status \in Statuses

(* When iree_flags_parse returns (or exits), the in-place loop over argv,  *)
(* with its splicing and `--arg_ordinal` and the recursion through         *)
(* flagfiles, has produced exactly what reading the flags left to right    *)
(* produces: the same status, the same stored values (including the ones  *)
(* already stored when an error stops it) and, on success, the program     *)
(* name followed by exactly the arguments that stay, in their order.       *)
ParseMatchesReference ==
    status # "running" =>
        /\ status = Reference.status
        /\ storage = Reference.store
        /\ status = "ok" =>
              argv = IF argv0 = <<>> THEN <<>> ELSE <<Head(argv0)>> \o Reference.kept

(* The comment at flags.c:381 says --help exits by default: unless         *)
(* CONTINUE_AFTER_HELP is set, once the usage text has been printed the    *)
(* parse never goes on to return.                                          *)
HelpExitsByDefault ==
    (help_shown /\ ~mode.continue_after_help) => status \in {"running", "exited"}

=============================================================================
