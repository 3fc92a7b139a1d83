------------------------------ MODULE Parsing -------------------------------
(***************************************************************************)
(* The symbol and call extraction of src/parsing/mod.rs: one recursive     *)
(* visitor per language, which walks a syntax tree in preorder with the    *)
(* scope and the enclosing symbol as arguments.                            *)
(*                                                                         *)
(* A language is a table from the constructs its visitor tells apart to    *)
(* what it does with them; every other node is passed through.  A step is  *)
(* a visit of one node, a child of one of the nodes that are still open,   *)
(* so the behaviours are all walks over trees of up to MaxNodes nodes.     *)
(* Symbol kinds, line numbers, callee names and includes are left out.     *)
(***************************************************************************)
EXTENDS Naturals, Sequences, SequencesExt, TLC

CONSTANTS
  Names,      (* Names of definitions.                                     *)
  Nameless,   (* The node has not the name the visitor looks for.          *)
  Anonymous,  (* What takes the place of a missing name.                   *)
  MaxNodes    (* Bound on the nodes of a tree.                             *)

VARIABLES
  language,   (* The language of the file.                                 *)
  open,       (* The chain of open nodes: what their children are given.   *)
  symbols,    (* The symbols so far.                                       *)
  edges,      (* The call edges so far.                                    *)
  nodes       (* Nodes visited so far.                                     *)

vars == <<language, open, symbols, edges, nodes>>

-----------------------------------------------------------------------------
(***************************************************************************)
(* The tables.  A definition without a name is skipped with all that is in *)
(* it, gets a placeholder, or is passed through.                           *)
(***************************************************************************)
Rules(constructs, does, nameless) ==
  [c \in constructs |-> [does |-> does, nameless |-> nameless]]

Defines(constructs, nameless) == Rules(constructs, "define", nameless)
Leaves(constructs) == Rules(constructs, "leaf", "skip")
Calls(constructs) == Rules(constructs, "call", "skip")
Ignores(constructs) == Rules(constructs, "ignore", "skip")

Python == Defines({"function_definition", "async_function_definition",
                   "class_definition"}, "skip")
            @@ Calls({"call"})

(* The keyword of a function or class is a node of the same kind without a *)
(* name.  Methods and arrow functions are passed through.                  *)
JavaScript == Defines({"function_declaration", "function",
                       "class_declaration", "class"}, "anonymous")
                @@ Calls({"call_expression"})

(* An impl block is named after its type, a struct has no inside.          *)
RustItems == Defines({"function_item", "trait_item", "mod_item"}, "skip")
          @@ Defines({"impl_item"}, "anonymous")
          @@ Leaves({"struct_item"})
Rust == RustItems @@ Calls({"call_expression"})

(* Of a type declaration only its specs are looked at, and not inside.     *)
Go == Defines({"function_declaration", "method_declaration"}, "anonymous")
        @@ Leaves({"type_spec"})
        @@ Calls({"call_expression"})

Java == Defines({"class_declaration", "interface_declaration",
                 "method_declaration", "constructor_declaration"}, "skip")
          @@ Calls({"method_invocation"})

(* Foo::bar is defined outside of its class: two kinds of definition.      *)
CppFunctions == Defines({"function_definition"}, "descend")
                  @@ Rules({"qualified function_definition"}, "defineOutOfLine", "descend")
CppTypes == Defines({"class_specifier", "struct_specifier"}, "descend")
              @@ Defines({"namespace_definition"}, "anonymous")
Cpp == CppFunctions @@ CppTypes @@ Calls({"call_expression"})
         @@ Ignores({"preproc_include"})

CSharpTypes == Defines({"method_declaration", "constructor_declaration",
                        "class_declaration", "record_declaration",
                        "struct_declaration", "interface_declaration"}, "skip")
CSharp == CSharpTypes
            @@ Defines({"enum_declaration", "namespace_declaration"}, "skip")
            @@ Calls({"invocation_expression"})

PhpTypes == Defines({"function_definition", "method_declaration",
                     "class_declaration", "interface_declaration",
                     "trait_declaration"}, "skip")
Php == PhpTypes
         @@ Defines({"namespace_definition", "enum_declaration"}, "skip")
         @@ Calls({"function_call_expression", "member_call_expression",
                   "scoped_call_expression"})

Ruby == Defines({"method", "singleton_method", "class", "module"}, "skip")
          @@ Calls({"call"})

(* A method whose selector has no argument has no name for the visitor.    *)
ObjC == Defines({"method_definition", "class_interface",
                 "protocol_declaration"}, "skip")
          @@ Calls({"message_expression"})

Swift == Defines({"function_declaration", "init_declaration"}, "anonymous")
           @@ Defines({"class_declaration", "protocol_declaration"}, "skip")
           @@ Calls({"call_expression"})

Kotlin == Defines({"function_declaration", "class_declaration",
                   "object_declaration"}, "skip")
            @@ Calls({"call_expression"})

(* A call is an identifier before arguments or a selector with arguments.  *)
DartTypes == Defines({"class_declaration", "enum_declaration",
                      "mixin_declaration"}, "skip")
Dart == Defines({"method_declaration", "function_declaration"}, "descend")
          @@ DartTypes
          @@ Calls({"selector", "unconditional_assignable_selector", "identifier"})

Lua == Defines({"function_declaration"}, "skip") @@ Calls({"function_call"})
Luau == Lua @@ Leaves({"type_definition"})

Pascal == Defines({"defProc", "declType"}, "skip") @@ Calls({"exprCall"})

(* The scripts of a component are JavaScript, each from an empty scope.    *)
Svelte == JavaScript

Liquid == Defines({"tag_assign", "tag_capture", "tag_for", "tag_if"}, "descend")
            @@ Calls({"filter"})

(* detect_language and the match on it; files of other languages have      *)
(* neither symbols nor edges.  TypeScript has the visitor of JavaScript.   *)
Table ==
  [Python |-> Python, JavaScript |-> JavaScript, Rust |-> Rust, Go |-> Go,
   Java |-> Java, Cpp |-> Cpp, CSharp |-> CSharp, Php |-> Php, Ruby |-> Ruby,
   ObjC |-> ObjC, Swift |-> Swift, Kotlin |-> Kotlin, Dart |-> Dart, Lua |-> Lua,
   Luau |-> Luau, Pascal |-> Pascal, Svelte |-> Svelte, Liquid |-> Liquid]

PassThrough == [does |-> "descend", nameless |-> "skip"]

-----------------------------------------------------------------------------
(* The root is visited with an empty scope and no parent.  `within` is a   *)
(* history: the positions of the symbols whose nodes enclose this one.     *)
Root == [scope |-> <<>>, parent |-> <<>>, within |-> <<>>]

Scopes == Seq(Names \cup {Anonymous})

TypeOK ==
  /\ language \in DOMAIN Table
  /\ Len(open) \in 1 .. nodes + 1 /\ nodes \in 0 .. MaxNodes
  /\ \A i \in DOMAIN open : open[i].scope \in Scopes
  /\ \A i \in DOMAIN symbols :
       symbols[i].fqn \in Scopes \ {<<>>} /\ symbols[i].parent \in Scopes
  /\ \A i \in DOMAIN edges : edges[i].from \in Scopes \ {<<>>}

Init ==
  /\ language \in DOMAIN Table
  /\ open = <<Root>>
  /\ symbols = <<>> /\ edges = <<>>
  /\ nodes = 0

Qualified(scope, name) == Append(scope, name)

(* scope_to_qualified: the innermost scope is the caller, at the top level *)
(* there is none.                                                          *)
Caller(scope) == Qualified(Front(scope), Last(scope))

InnerContext_LosesParent(context, class, name) ==
  [scope |-> Append(context.scope, name),
   parent |-> context.parent,
   within |-> Append(context.within, Len(symbols) + 1)]

(* What the children of a definition are given: its class, if it is        *)
(* defined outside of it, is in the parent but not in the scope.           *)
InnerContext(context, class, name) ==
  [scope |-> Append(context.scope, name),
   parent |-> Qualified(context.scope \o class, name),
   within |-> Append(context.within, Len(symbols) + 1)]

Emit(context, class, name) ==
  symbols' = Append(symbols, [fqn |-> Qualified(context.scope \o class, name),
                              parent |-> context.parent,
                              within |-> context.within,
                              outOfLine |-> class # <<>>])

(* Child of the node at position d of the chain.                           *)
VisitChild(d, rule, name) ==
  LET context == open[d]
      enter(inner) == open' = Append(SubSeq(open, 1, d), inner)
      close == open' = SubSeq(open, 1, d)
  IN  \/ /\ rule.does = "define" /\ name # Nameless
         /\ Emit(context, <<>>, name) /\ enter(InnerContext(context, <<>>, name))
         /\ UNCHANGED edges
      \/ /\ rule.does = "defineOutOfLine" /\ name # Nameless
         /\ \E class \in Names :
              Emit(context, <<class>>, name) /\ enter(InnerContext(context, <<class>>, name))
         /\ UNCHANGED edges
      \/ /\ rule.does = "define" /\ name = Nameless /\ rule.nameless = "anonymous"
         /\ Emit(context, <<>>, Anonymous) /\ enter(InnerContext(context, <<>>, Anonymous))
         /\ UNCHANGED edges
      \/ /\ \/ rule.does = "define" /\ name = Nameless /\ rule.nameless = "skip"
            \/ rule.does = "ignore"
         /\ close /\ UNCHANGED <<symbols, edges>>
      \/ /\ rule.does = "leaf"
         /\ IF name # Nameless THEN Emit(context, <<>>, name) ELSE UNCHANGED symbols
         /\ close /\ UNCHANGED edges
      \/ /\ rule.does = "call"
         /\ edges' = IF name # Nameless /\ context.scope # <<>>
                     THEN Append(edges, [from |-> Caller(context.scope),
                                         within |-> context.within])
                     ELSE edges
         /\ enter(context) /\ UNCHANGED symbols
      \/ /\ \/ rule.does = "descend"
            \/ /\ rule.does \in {"define", "defineOutOfLine"}
               /\ name = Nameless /\ rule.nameless = "descend"
         /\ enter(context) /\ UNCHANGED <<symbols, edges>>

Visit ==
  /\ nodes < MaxNodes /\ nodes' = nodes + 1
  /\ \E rule \in Range(Table[language]) \cup {PassThrough} :
     \E d \in DOMAIN open, name \in Names \cup {Nameless} :
       VisitChild(d, rule, name)
  /\ UNCHANGED language

Next == Visit

Spec == Init /\ [][Next]_vars

-----------------------------------------------------------------------------
(* What is extracted fits together, in every language and for every        *)
(* nesting: the caller of a call and the parent of a symbol are the        *)
(* qualified names of the innermost extracted symbol around it, and only a *)
(* call outside of every symbol has no caller.  The pipeline joins edges   *)
(* to symbols by these names alone.  The exception is a method that C++    *)
(* defines outside of its class: its calls have another caller's name.     *)
NamesJoinUp ==
  /\ \A i \in DOMAIN edges :
       /\ edges[i].within # <<>>
       /\ LET caller == symbols[Last(edges[i].within)]
          IN  caller.outOfLine \/ edges[i].from = caller.fqn
  /\ \A i \in DOMAIN symbols :
       symbols[i].parent =
         IF symbols[i].within = <<>> THEN <<>> ELSE symbols[Last(symbols[i].within)].fqn
=============================================================================
