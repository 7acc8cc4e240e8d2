------------------------------ MODULE MCSymbols ------------------------------
(***************************************************************************)
(* Small files of each language, in families that bring together the node  *)
(* types one question is about: which symbol a call belongs to, and which  *)
(* declarations share a name.  The second argument of Family is the        *)
(* largest tree.                                                           *)
(***************************************************************************)
EXTENDS Symbols, TLC

Family(lang, size, names) == [lang |-> lang, size |-> size, names |-> names]

Nameless(kinds) == [k \in kinds |-> {""}]
Named(kinds, names) == [k \in kinds |-> names]

MCGoFiles ==
  { Family("go", 7, Nameless({"method", "recv", "ptr", "generic", "targs", "call", "ident", "sel", "lit", "func", "vars", "spec"})
        @@ Named({"tid"}, {"x", "y"})),
    Family("go", 6, Nameless({"types", "consts", "vars", "list", "spec", "field", "embed", "call"})
        @@ Named({"id", "struct", "iface", "alias", "elem"}, {"x"})) }

MCJavaFiles ==
  { Family("java", 6, Named({"type"}, {"x", "y"}) @@ Named({"method"}, {"x"})
        @@ Nameless({"field", "init", "lambda", "anon", "body", "call", "constant"})),
    Family("java", 8, Named({"type", "method"}, {"x"}) @@ Nameless({"anon", "body", "call"})),
    Family("java", 5, Named({"type", "record", "component", "ctor", "field", "constant", "getter"}, {"x", "y"})
        @@ Named({"method"}, {"x", "if"}) @@ Nameless({"mark", "body", "lambda"})) }

MCPythonFiles ==
  { Family("python", 6, Nameless({"deco", "decorator", "call", "header"})
        @@ Named({"def", "class"}, {"x"})),
    Family("python", 5, Nameless({"deco", "decorator", "if", "header", "call"}) @@ Named({"def"}, {"init", "x"})
        @@ Named({"class", "assign", "self", "import", "typed"}, {"x"})) }

MCJsFiles ==
  { Family("javascript", 5, Named({"fn", "var", "pair", "exports", "module", "member", "chain", "define"}, {"x"})
        @@ Named({"method"}, {"x", "constructor"}) @@ Named({"class"}, {"C"})
        @@ Named({"classexp", "funcexp"}, {"", "C"})
        @@ Nameless({"arrow", "object", "call", "block", "deco", "ns", "require", "ident"})),
    Family("javascript", 6, Named({"fn", "field", "this", "member"}, {"x"})
        @@ Named({"method"}, {"x", "constructor"}) @@ Named({"class"}, {"C"})
        @@ Nameless({"funcexp", "static", "call", "export"})),
    Family("javascript", 7, Named({"class", "fn"}, {"x"}) @@ Nameless({"deco", "call", "arrow"})),
    Family("javascript", 5, Named({"fn", "var", "ambient", "ns", "strmod", "fsig", "iface", "sig", "enum", "const",
               "class", "this", "param"}, {"x"}) @@ Named({"method"}, {"constructor"})
        @@ Named({"spec"}, {"x"}) @@ Nameless({"export", "clause", "arrow"})) }

MCRustFiles ==
  { Family("rust", 6, Named({"fn"}, {"x", "new"}) @@ Nameless({"macro", "block", "call", "here"})),
    Family("rust", 5, Named({"fn", "sig"}, {"f"}) @@ Named({"mod"}, {"m"}) @@ Named({"const", "field"}, {"c"})
        @@ Named({"struct", "trait", "impl", "implpath", "implfor"}, {"T"}) @@ Nameless({"macro"})),
    Family("rust", 6, Named({"fn", "mod"}, {"x"}) @@ Nameless({"macro", "call", "here"})) }

MCCppFiles ==
  { Family("cpp", 6, Named({"proto"}, {"x", "y"}) @@ Named({"fn", "outfn"}, {"x"}) @@ Named({"owner", "ns"}, {"C"})
        @@ Nameless({"cond", "off", "alt"})),
    Family("cpp", 7, Named({"class", "owner"}, {"C"}) @@ Named({"fn", "outfn"}, {"x"})
        @@ Named({"access"}, {"public"}) @@ Nameless({"cond"})),
    Family("cpp", 6, Nameless({"cond", "off", "alt", "call"}) @@ Named({"fn", "outfn", "class", "owner"}, {"x"})),
    Family("cpp", 5, Named({"class", "outfn", "owner", "proto"}, {"C", "D"}) @@ Named({"friend", "var", "fn", "typedef"}, {"C"})
        @@ Named({"access"}, {"public"})) }

MCCFiles ==
  { Family("c", 6, Named({"record", "enum"}, {"", "x"}) @@ Named({"typedef"}, {"x", "y"}) @@ Named({"var", "inst", "item"}, {"x"})) ,
    Family("c", 5, Named({"fn", "proto", "var", "record", "typedef"}, {"x"}) @@ Nameless({"cond", "off", "alt", "call"})),
    Family("cpp", 5, Named({"class", "outfn", "owner", "proto", "fn", "typedef"}, {"C"}) @@ Nameless({"tmpl", "call"})
        @@ Named({"enum"}, {"", "C"}) @@ Named({"item"}, {"x"})) }

MCCSharpFiles ==
  { Family("csharp", 6, Nameless({"ns", "fns", "cond", "stmt", "block", "call"})
        @@ Named({"type", "method", "ctor", "local", "prop", "field"}, {"x"})),
    Family("csharp", 6, Nameless({"cond", "call"}) @@ Named({"initializer"}, {"spaced", "tight"})
        @@ Named({"type", "method", "ctor", "local"}, {"x"})),
    Family("csharp", 5, Nameless({"cond", "call"})
        @@ Named({"ns", "fns", "type", "iface", "enum", "param", "constant", "method", "prop", "event"}, {"x"})) }

MCKotlinFiles ==
  { Family("kotlin", 6, Nameless({"primary", "secondary", "init", "getter", "default", "call", "companion", "error"})
        @@ Named({"class", "fn", "val"}, {"x"})),
    Family("kotlin", 6, Nameless({"objexp", "call"}) @@ Named({"enum", "entry", "fn"}, {"x"})),
    Family("kotlin", 5, Nameless({"primary", "objexp", "call", "init", "secondary"})
        @@ Named({"class", "iface", "enum", "object", "entry", "fn", "val", "param", "alias"}, {"x"})) }

MCObjcFiles ==
  { Family("objc", 6, Nameless({"off", "alt"}) @@ Named({"menum", "item", "typedef"}, {"x", "y"})
        @@ Named({"blocktype"}, {"x"})),
    Family("objc", 5, Nameless({"cond", "off", "alt", "call"})
        @@ Named(ObjcContainers \cup {"prop", "ivar", "decl", "def", "fn", "proto", "var"}, {"x"})) }

MCPhpFiles ==
  { Family("php", 6, Nameless({"stmt", "close", "call"}) @@ Named({"unclosed", "fn", "case", "const"}, {"x"})),
    Family("php", 5, Nameless({"stmt", "anon", "call"}) @@ Named({"method"}, {"x", "new"})
        @@ Named({"class", "enum", "fn", "prop", "const", "case", "define", "promoted"}, {"x"})) }

MCSwiftFiles ==
  { Family("swift", 6, Nameless({"conf", "call"}) @@ Named({"class"}, {"x", "y"}) @@ Named({"ext", "extin", "fn"}, {"x"})),
    Family("swift", 5, Nameless({"call", "init", "deinit", "subscript"})
        @@ Named({"class", "case", "ext", "protocol", "req", "assoc", "fn", "prop", "alias"}, {"x"})) }

MCProfiles == MCCFiles \cup MCCSharpFiles \cup MCKotlinFiles \cup MCObjcFiles \cup MCPhpFiles \cup MCSwiftFiles \cup
              MCCppFiles \cup MCRustFiles \cup MCGoFiles \cup MCJavaFiles \cup MCPythonFiles \cup MCJsFiles
=============================================================================
