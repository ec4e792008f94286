----------------------------- MODULE XmlDocument -----------------------------
(***************************************************************************)
(* The configuration document: TinyXML reads it into nodes, the proxy puts *)
(* its two mappings into it and saves it (redis-proxy-config.cpp), and it  *)
(* is read again at the next start.  One step of the parser is one call of *)
(* a Parse function, or for an element its name, one attribute, or one end *)
(* of a tag; the elements whose Parse has not returned are a stack.        *)
(*                                                                         *)
(* Left out: the row and column of errors, which error it is, carriage     *)
(* returns (LoadFile makes them line feeds), declarations without an end.  *)
(***************************************************************************)
EXTENDS XmlNodes

CONSTANTS
    Files,          \* the documents the proxy may be started with
    Mappings,       \* what the tables may hold when they are saved
    MaxSaves        \* a bound for TLC

VARIABLES
    pc,             \* "idle", "parsing", "loaded", "failed", "aborted"
    file,           \* the text
    p,              \* the position in it, or NULL
    stack,          \* the open elements: [node, mode], mode "attributes" or "value"
    heap,
    error,          \* TiXmlDocument::error
    encoding,       \* "unknown", "utf8" or "legacy"
    useMicrosoftBOM,
    saved,          \* the tree that was saved last, if any: a sequence
    saves

parserVars == <<p, stack, heap, error, encoding, useMicrosoftBOM>>
vars == <<pc, file, parserVars, saved, saves>>

Types == {"document", "element", "text", "cdata", "comment", "declaration", "unknown"}
Empty == [n \in {Document} |-> TiXmlNode("document", <<>>)]

TypeOK ==
    /\ pc \in {"idle", "parsing", "loaded", "failed", "aborted"}
    /\ p \in 0..(Len(file) + 1)
    /\ DOMAIN heap \subseteq Nodes
    /\ \A n \in DOMAIN heap : heap[n].type \in Types
    /\ \A k \in DOMAIN stack : stack[k].node \in DOMAIN heap /\ stack[k].mode \in {"attributes", "value"}

Init ==
    /\ pc = "idle"
    /\ file \in Files
    /\ p = NULL /\ stack = <<>> /\ heap = Empty
    /\ error = FALSE /\ encoding = "unknown" /\ useMicrosoftBOM = FALSE
    /\ saved = <<>> /\ saves = 0

-----------------------------------------------------------------------------
(* TiXmlDocument::LoadFile and the beginning of Parse.                     *)

LoadFile ==
    /\ pc = "idle"
    /\ pc' = "parsing"
    /\ heap' = Empty /\ stack' = <<>>
    /\ useMicrosoftBOM' = (Char(file, 1) = BOM)
    /\ encoding' = IF useMicrosoftBOM' THEN "utf8" ELSE "unknown"
    /\ p' = SkipWhiteSpace(file, 1, encoding')
    /\ error' = (p' = NULL)
    /\ UNCHANGED <<file, saved, saves>>

-----------------------------------------------------------------------------
(* The innermost element whose Parse has not returned, or the document.    *)

AtTop == stack = <<>>
Current == IF AtTop THEN Document ELSE Last(stack).node
Mode == IF AtTop THEN "value" ELSE Last(stack).mode
Is(tag) == StringEqual(file, p, tag)

\* The loop of ReadValue, or of TiXmlDocument::Parse, is at a node.
AtNode ==
    /\ pc = "parsing" /\ Mode = "value"
    /\ p # NULL /\ Char(file, p) = "<"
    /\ AtTop \/ ~Is(<<"<", "/">>)

Identify ==
    IF Is(<<"<", "?", "xml">>) THEN "declaration"
    ELSE IF Is(<<"<", "!", "-", "-">>) THEN "comment"
    ELSE IF Is(<<"<", "!", "[", "CDATA", "[">>) THEN "cdata"
    ELSE IF IsNameStart(Char(file, p + 1)) THEN "element"
    ELSE "unknown"

\* What a Parse function made: behind it, where reading goes on.
Parsed(at, value, attributes) == [at |-> at, value |-> value, attributes |-> attributes]

\* A comment, or what is unknown, without an end is taken to the end of the text.
UpTo(from, q, tag) ==
    Parsed(IF End(file, q) THEN q ELSE q + Len(tag), SubSeq(file, from, q - 1), <<>>)
ParseUpTo(from, tag) ==
    UpTo(from, Until(file, from, LAMBDA q : StringEqual(file, q, tag)), tag)

ParseComment == ParseUpTo(p + 4, <<"-", "-", ">">>)
ParseUnknown == ParseUpTo(p + 1, <<">">>)

\* A section fails without its end, and at the end of the text.
ParseCData ==
    LET section == ParseUpTo(p + 5, <<"]", "]", ">">>)
    IN [section EXCEPT !.at = IF End(file, @) THEN NULL ELSE @]

\* TiXmlAttribute::Parse.  A value may do without quotes, but not end with one.
BareValue(q, end) == IF Char(file, end) \in Quotes THEN Failure ELSE Between(file, q, end)
AttributeValue(q) ==
    IF q = NULL \/ End(file, q) THEN Failure
    ELSE IF file[q] \in Quotes THEN ReadText(file, q + 1, FALSE, <<file[q]>>, encoding)
    ELSE BareValue(q, Until(file, q, LAMBDA r : file[r] \in White \union {"/", ">"} \union Quotes))
ValueBehind(eq) ==
    IF eq = NULL \/ Char(file, eq) # "=" THEN Failure
    ELSE AttributeValue(SkipWhiteSpace(file, eq + 1, encoding))

Named(name, value) == [at |-> value.at, name |-> name, value |-> value.text]
AttributeNamed(name) == Named(name.text, ValueBehind(SkipWhiteSpace(file, name.at, encoding)))
ParseAttribute(from) == AttributeNamed(ReadName(file, from))

\* The three values of a declaration are read as attributes; anything else in it
\* is passed over.
Undeclared == [k \in 1..3 |-> [name |-> << <<"version", "encoding", "standalone">>[k] >>, value |-> <<>>]]
RECURSIVE DeclarationFrom(_, _)
DeclarationWith(name, a, attributes) == DeclarationFrom(a.at, SetAttribute(attributes, <<name>>, a.value))
DeclarationAt(q, attributes) ==
    IF Char(file, q) \in {"version", "encoding", "standalone"}
    THEN DeclarationWith(file[q], ParseAttribute(q), attributes)
    ELSE DeclarationFrom(Until(file, q, LAMBDA r : file[r] \in White \union {">"}), attributes)
DeclarationFrom(from, attributes) ==
    IF Char(file, from) = ">" THEN Parsed(from + 1, <<>>, attributes)
    ELSE DeclarationAt(SkipWhiteSpace(file, from, encoding), attributes)

ParseLeaf(type) ==
    CASE type = "declaration" -> DeclarationFrom(p + 3, Undeclared)
      [] type = "comment"     -> ParseComment
      [] type = "cdata"       -> ParseCData
      [] OTHER                -> ParseUnknown

\* What a declaration says of the encoding, if it is not known yet.
Declared(attributes) ==
    IF attributes[2].value \in {<<>>, <<"UTF", "-", "8">>, <<"UTF8">>} THEN "utf8" ELSE "legacy"

\* A child was read up to at: the loop goes on behind white space.  In an
\* element it is an error when it cannot.
GoOn(at) ==
    /\ p' = SkipWhiteSpace(file, at, encoding')
    /\ error' = (error \/ (~AtTop /\ (p' = NULL \/ End(file, p'))))
    /\ UNCHANGED <<pc, file, useMicrosoftBOM, saved, saves>>

\* A new node becomes the last child of the innermost element.
Link(node, at) ==
    LET new == New(heap, node) IN
    /\ heap' = LinkEndChild(new.heap, Current, new.node)
    /\ GoOn(at)
    /\ UNCHANGED stack

\* Declarations, comments, CDATA sections and what TinyXML does not know.
AddLeaf(type, leaf) ==
    /\ encoding' = IF AtTop /\ encoding = "unknown" /\ type = "declaration"
                   THEN Declared(leaf.attributes) ELSE encoding
    /\ Link([TiXmlNode(type, leaf.value) EXCEPT !.attributes = leaf.attributes], leaf.at)

Leaf == AtNode /\ Identify # "element" /\ AddLeaf(Identify, ParseLeaf(Identify))

\* Text: blank text is dropped.
Blank(text) == ToSet(text) \subseteq White
AddText(text, at) ==
    /\ encoding' = encoding
    /\ IF Blank(text) THEN GoOn(at) /\ UNCHANGED <<heap, stack>>
       ELSE Link(TiXmlNode("text", text), at)

Text ==
    /\ pc = "parsing" /\ ~AtTop /\ Mode = "value"
    /\ p # NULL /\ ~End(file, p) /\ file[p] # "<"
    /\ \E read \in {ReadText(file, p, TRUE, <<"<">>, encoding)} :
          AddText(read.text, IF read.at = NULL THEN NULL ELSE read.at - 1)

\* TiXmlElement::Parse up to the name.
OpenElement ==
    /\ AtNode /\ Identify = "element"
    /\ LET name == ReadName(file, p + 1)
           new == New(heap, [TiXmlNode("element", name.text) EXCEPT !.parent = Current])
       IN /\ heap' = new.heap
          /\ stack' = Append(stack, [node |-> new.node, mode |-> "attributes"])
          /\ p' = IF End(file, name.at) THEN NULL ELSE name.at
          /\ error' = (error \/ p' = NULL)
    /\ UNCHANGED <<pc, file, encoding, useMicrosoftBOM, saved, saves>>

\* Parse of the innermost element returns at: its parent links it.
Close(at) ==
    LET parent == IF Len(stack) = 1 THEN Document ELSE stack[Len(stack) - 1].node
    IN /\ heap' = LinkEndChild(heap, parent, Current)
       /\ stack' = Front(stack)
       /\ p' = SkipWhiteSpace(file, at, encoding)
       /\ error' = (error \/ (Len(stack) > 1 /\ (p' = NULL \/ End(file, p'))))
       /\ UNCHANGED <<pc, file, encoding, useMicrosoftBOM, saved, saves>>

\* Parse fails: it sets an error, and returns NULL.
Fails ==
    /\ p' = NULL /\ error' = TRUE
    /\ UNCHANGED <<pc, file, stack, heap, encoding, useMicrosoftBOM, saved, saves>>

\* The loop over the attributes: one of them, which must not be there yet and not
\* end the text, or the end of the tag.
AddAttribute(a) ==
    IF a.at = NULL \/ End(file, a.at) \/ Find(heap[Current].attributes, a.name) # {} THEN Fails
    ELSE /\ heap' = [heap EXCEPT ![Current].attributes = SetAttribute(@, a.name, a.value)]
         /\ p' = a.at
         /\ UNCHANGED <<pc, file, stack, error, encoding, useMicrosoftBOM, saved, saves>>

ReadValue(at) ==
    /\ stack' = [stack EXCEPT ![Len(stack)].mode = "value"]
    /\ heap' = heap /\ encoding' = encoding
    /\ GoOn(at)

AttributeAt(q) ==
    CASE q = NULL \/ End(file, q) -> Fails
      [] Char(file, q) = "/" -> IF Char(file, q + 1) = ">" THEN Close(q + 2) ELSE Fails
      [] Char(file, q) = ">" -> ReadValue(q + 1)
      [] OTHER -> AddAttribute(ParseAttribute(q))

Attribute ==
    /\ pc = "parsing" /\ Mode = "attributes" /\ p # NULL
    /\ AttributeAt(SkipWhiteSpace(file, p, encoding))

\* The end tag begins with the name; white space may follow, and then ">".
EndTag ==
    /\ pc = "parsing" /\ ~AtTop /\ Mode = "value"
    /\ p # NULL /\ Is(<<"<", "/">>)
    /\ LET tag == <<"<", "/">> \o heap[Current].value
           q == SkipWhiteSpace(file, p + Len(tag), encoding)
       IN IF Is(tag) /\ q # NULL /\ Char(file, q) = ">" THEN Close(q + 1) ELSE Fails

\* After a failure every open element is linked to its parent all the same.
Unwind ==
    /\ pc = "parsing" /\ ~AtTop
    /\ p = NULL \/ End(file, p)
    /\ Close(NULL)

\* The loop of the document ends: nothing is left, a node failed, or there is
\* something else than a node.
Finish ==
    /\ pc = "parsing" /\ AtTop
    /\ p = NULL \/ Char(file, p) # "<"
    /\ error' = (error \/ heap[Document].firstChild = NULL)
    /\ pc' = IF error' THEN "failed" ELSE "loaded"
    /\ p' = NULL
    /\ UNCHANGED <<file, stack, heap, encoding, useMicrosoftBOM, saved, saves>>

-----------------------------------------------------------------------------
(* saveProxyLastState.                                                     *)

RootElement == FirstChildElement(heap, Document)

\* An element with a name, two attributes and no parent: a local variable.
Item(h, tag, first, value, group) ==
    New(h, [TiXmlNode("element", tag) EXCEPT
              !.attributes = SetAttribute(SetAttribute(<<>>, first, value), <<"group_name">>, group)])

\* The items are built one by one and copied into the mapping, which is copied
\* into the root; the originals go out of scope.
InsertMapping(h, root, name, tag, first, entries) ==
    LET mapping == New(h, TiXmlNode("element", name))
        Add(g, e) ==
            LET item == Item(g, tag, first, e.of, e.group)
            IN Delete(InsertEndChild(item.heap, mapping.node, item.node), item.node)
        filled == FoldLeft(Add, mapping.heap, entries)
    IN Delete(InsertEndChild(filled, root, mapping.node), mapping.node)

\* RemoveChild asserts that the node is a child of the root.
Old(h, name) == GetNodePointerByName(h, RootElement, name)
Removable(h, name) == Old(h, name) = NULL \/ h[Old(h, name)].parent = RootElement
RemoveMapping(h, name) == IF Old(h, name) = NULL THEN h ELSE RemoveChild(h, RootElement, Old(h, name))

SaveProxyLastState(mapping) ==
    /\ pc = "loaded" /\ saves < MaxSaves
    /\ saves' = saves + 1
    /\ LET h1 == RemoveMapping(heap, <<"hash_mapping">>)
           h2 == InsertMapping(h1, RootElement, <<"hash_mapping">>, <<"hash">>, <<"value">>, mapping.slots)
           h3 == RemoveMapping(h2, <<"key_mapping">>)
           h4 == InsertMapping(h3, RootElement, <<"key_mapping">>, <<"key">>, <<"key_name">>, mapping.keys)
       IN IF ~Removable(heap, <<"hash_mapping">>) \/ ~Removable(h2, <<"key_mapping">>)
          THEN pc' = "aborted" /\ UNCHANGED <<file, heap, saved>>
          ELSE /\ heap' = h4
               /\ file' = (IF useMicrosoftBOM THEN <<BOM>> ELSE <<>>) \o Printed(h4, Document, 0)
               /\ saved' = <<Tree(h4, Document)>>
               /\ UNCHANGED pc
    /\ UNCHANGED <<p, stack, error, encoding, useMicrosoftBOM>>

\* The proxy is started again, with the file it saved as its configuration.
Restart ==
    /\ pc = "loaded" /\ saved # <<>>
    /\ pc' = "idle"
    /\ p' = NULL /\ heap' = Empty
    /\ encoding' = "unknown" /\ useMicrosoftBOM' = FALSE
    /\ UNCHANGED <<file, stack, error, saved, saves>>

Next ==
    \/ LoadFile \/ Leaf \/ Text \/ OpenElement \/ Attribute \/ EndTag \/ Unwind \/ Finish
    \/ \E mapping \in Mappings : SaveProxyLastState(mapping)
    \/ Restart

Spec == Init /\ [][Next]_vars

-----------------------------------------------------------------------------
\* The nodes stay one tree, whatever is parsed, fails half-way, is copied, removed
\* or goes out of scope: neighbours and ends of every list of children agree with
\* each other, no pointer leads to a node that was deleted, and every node that
\* exists is in its parent's list or still being parsed.
TreeSound ==
    LET Open == {stack[k].node : k \in DOMAIN stack}
        Linked(n) ==
            LET node == heap[n] IN
            /\ node.parent \in DOMAIN heap
            /\ IF node.prev = NULL THEN heap[node.parent].firstChild = n
               ELSE node.prev \in DOMAIN heap /\ heap[node.prev].next = n
                    /\ heap[node.prev].parent = node.parent
            /\ IF node.next = NULL THEN heap[node.parent].lastChild = n
               ELSE node.next \in DOMAIN heap /\ heap[node.next].prev = n
    IN /\ TypeOK
       /\ \A n \in DOMAIN heap \ ({Document} \union Open) : Linked(n)
       /\ \A n \in DOMAIN heap :
            /\ (heap[n].firstChild = NULL) = (heap[n].lastChild = NULL)
            /\ {heap[n].firstChild, heap[n].lastChild} \ {NULL} \subseteq
                 {m \in DOMAIN heap \ Open : heap[m].parent = n}

\* What a text loses on its way through a file: a hexadecimal reference it spells
\* out is taken for one, and the white space of a text is condensed.
AttributeSurvives(value) == \A i \in DOMAIN value : ~IsReference(value, i)
TextSurvives(value) ==
    /\ AttributeSurvives(value)
    /\ Char(value, 1) # " " /\ Char(value, Len(value)) # " "
    /\ \A i \in DOMAIN value : ~(value[i] = " " /\ Char(value, i + 1) = " ")

RECURSIVE Survives(_)
Survives(tree) ==
    /\ \A k \in DOMAIN tree.attributes : AttributeSurvives(tree.attributes[k].value)
    /\ tree.type = "text" => TextSurvives(tree.value)
    /\ \A k \in DOMAIN tree.children : Survives(tree.children[k])

\* The round trip: a document that was saved can be read again, and is the tree
\* it was, with its comments, texts and sections, whatever keys the mapping holds.
SavedReloads ==
    saved # <<>> /\ Survives(saved[1]) =>
        /\ pc # "failed"
        /\ pc = "loaded" => <<Tree(heap, Document)>> = saved
=============================================================================
