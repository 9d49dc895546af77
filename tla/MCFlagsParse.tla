---------------------------- MODULE MCFlagsParse ----------------------------
(* One bool flag, one string flag, one unknown name, and files that cover  *)
(* every line kind: nesting, a self-inclusion, --help inside a file, and   *)
(* each error of a file line.                                              *)
EXTENDS FlagsParse

A(k, n, v) == [kind |-> k, name |-> n, value |-> v]
Prog == A("pos", "u", "x")
Pos == A("pos", "u", "")
FF(p) == A("flag", "flagfile", p)

MCBoolFlags == {"b"}
MCStringFlags == {"s"}
MCUnregistered == {"u"}
MCValues == {"", "x", "1", "f1", "f2", "f3", "f4", "f5", "f6", "nofile"}

MCFileContents ==
    "f1" :> <<A("blank", "u", ""), A("comment", "u", ""), A("flag", "b", "x"),
              FF("f2"), A("flag", "s", "1")>>
 @@ "f2" :> <<A("flag", "s", "x"), A("flag", "help", "")>>
 @@ "f3" :> <<FF("f3")>>
 @@ "f4" :> <<A("flag", "b", ""), A("pos", "u", "")>>
 @@ "f5" :> <<A("flag", "s", "x"), A("flag", "u", "1")>>
 @@ "f6" :> <<FF("nofile"), FF("")>>

MCArgs == {Pos, A("flag", "b", "x"), A("flag", "s", "1"), A("flag", "u", ""),
           A("flag", "help", ""), FF(""), FF("nofile"),
           FF("f1"), FF("f3"), FF("f4"), FF("f5"), FF("f6")}

\* argc = 0, or the program name followed by up to three arguments.
MCArgvs == {<<>>} \cup {<<Prog>> \o s : s \in BoundedSeq(MCArgs, 3)}

MCMaxDepth == 2
=============================================================================
