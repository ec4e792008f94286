------------------------------ MODULE XmlNodes ------------------------------
(***************************************************************************)
(* TinyXML: the nodes of a document and their links (tinyxml.cpp).  A heap *)
(* maps the nodes that are allocated to their members; 0 is NULL.  The     *)
(* operators return the heap the function leaves.                          *)
(***************************************************************************)
EXTENDS XmlText, FiniteSets, SequencesExt

CONSTANT Nodes      \* addresses: as many as a document can need
ASSUME NodesAssumption == Nodes \subseteq Nat \ {0} /\ 1 \in Nodes

Document == 1

\* A node as its constructor leaves it.
TiXmlNode(type, value) ==
    [type |-> type, value |-> value, attributes |-> <<>>,
     parent |-> NULL, firstChild |-> NULL, lastChild |-> NULL, prev |-> NULL, next |-> NULL]

New(heap, node) ==
    LET n == Min(Nodes \ DOMAIN heap)
    IN [heap |-> [m \in DOMAIN heap \union {n} |-> IF m = n THEN node ELSE heap[m]], node |-> n]

Set(heap, n, field, to) == IF n = NULL THEN heap ELSE [heap EXCEPT ![n][field] = to]

\* The siblings from n on, and the children of n.
RECURSIVE From(_, _)
From(heap, n) == IF n = NULL THEN <<>> ELSE <<n>> \o From(heap, heap[n].next)
Children(heap, n) == From(heap, heap[n].firstChild)

FirstChildElement(heap, n) ==
    LET elements == SelectSeq(Children(heap, n), LAMBDA m : heap[m].type = "element")
    IN IF elements = <<>> THEN NULL ELSE elements[1]

LinkEndChild(heap, parent, node) ==
    LET last == heap[parent].lastChild
        linked == [heap EXCEPT ![node].parent = parent, ![node].prev = last, ![node].next = NULL,
                               ![parent].lastChild = node]
    IN IF last = NULL THEN Set(linked, parent, "firstChild", node)
       ELSE Set(linked, last, "next", node)

\* A destructor deletes the children first.
RECURSIVE Below(_, _)
Below(heap, n) == {n} \union UNION {Below(heap, m) : m \in ToSet(Children(heap, n))}
Delete(heap, n) == [m \in DOMAIN heap \ Below(heap, n) |-> heap[m]]

\* Fault: lastChild is left as it is.
RemoveChild_KeepsLast(heap, parent, n) ==
    LET node == heap[n]
        before == IF node.prev = NULL THEN Set(heap, parent, "firstChild", node.next)
                  ELSE Set(heap, node.prev, "next", node.next)
    IN Delete(Set(before, node.next, "prev", node.prev), n)

RemoveChild(heap, parent, n) ==
    LET node == heap[n]
        before == IF node.prev = NULL THEN Set(heap, parent, "firstChild", node.next)
                  ELSE Set(heap, node.prev, "next", node.next)
        after == IF node.next = NULL THEN Set(before, parent, "lastChild", node.prev)
                 ELSE Set(before, node.next, "prev", node.prev)
    IN Delete(after, n)

\* TiXmlAttributeSet: Find, and FindOrCreate with the value set.
Find(attributes, name) == {k \in DOMAIN attributes : attributes[k].name = name}
SetAttribute(attributes, name, value) ==
    IF Find(attributes, name) = {} THEN Append(attributes, [name |-> name, value |-> value])
    ELSE [attributes EXCEPT ![Min(Find(attributes, name))].value = value]

\* Clone: the node, then its children one after the other.
RECURSIVE Clone(_, _)
Clone(heap, n) ==
    LET copy == New(heap, [TiXmlNode(heap[n].type, heap[n].value) EXCEPT !.attributes = heap[n].attributes])
        AddChild(h, child) ==
            LET c == Clone(h, child) IN LinkEndChild(c.heap, copy.node, c.node)
    IN [heap |-> FoldLeft(AddChild, copy.heap, Children(heap, n)), node |-> copy.node]

InsertEndChild(heap, parent, n) ==
    LET copy == Clone(heap, n) IN LinkEndChild(copy.heap, parent, copy.node)

\* GetNodePointerByName: the node itself or the first below it, in document order.
RECURSIVE GetNodePointerByName(_, _, _)
GetNodePointerByName(heap, n, name) ==
    IF heap[n].value = name THEN n
    ELSE LET elements == SelectSeq(Children(heap, n), LAMBDA m : heap[m].type = "element")
             found == SelectSeq([k \in DOMAIN elements |-> GetNodePointerByName(heap, elements[k], name)],
                                LAMBDA m : m # NULL)
         IN IF found = <<>> THEN NULL ELSE found[1]

\* What a node and those below it say, links left out.
RECURSIVE Tree(_, _)
Tree(heap, n) ==
    [type |-> heap[n].type, value |-> heap[n].value, attributes |-> heap[n].attributes,
     children |-> [k \in DOMAIN Children(heap, n) |-> Tree(heap, Children(heap, n)[k])]]

-----------------------------------------------------------------------------
(* Printing.  Indentation is one space.                                    *)

Indent(depth) == IF depth = 0 THEN <<>> ELSE <<" ">>

\* A value with a double quote is written between single ones.
PrintAttribute(a) ==
    LET quote == IF "\"" \in ToSet(a.value) THEN "'" ELSE "\""
    IN <<" ">> \o EncodeString(a.name) \o <<"=", quote>> \o EncodeString(a.value) \o <<quote>>

PrintAttributes(attributes) ==
    FlattenSeq([k \in DOMAIN attributes |-> PrintAttribute(attributes[k])])

\* The values of a declaration are written as they were read, unless empty.
PrintDeclaration(node) ==
    LET given == SelectSeq(node.attributes, LAMBDA a : a.value # <<>>)
    IN <<"<", "?", "xml", " ">>
         \o FlattenSeq([k \in DOMAIN given |->
              given[k].name \o <<"=", "\"">> \o given[k].value \o <<"\"", " ">>])
         \o <<"?", ">">>

RECURSIVE Printed(_, _, _)
Printed(heap, n, depth) ==
    LET node == heap[n]
        children == Children(heap, n)
        isText(m) == heap[m].type \in {"text", "cdata"}
        PrintChild(m) == (IF isText(m) THEN <<>> ELSE <<"\n">>) \o Printed(heap, m, depth + 1)
        start == Indent(depth) \o <<"<">> \o node.value \o PrintAttributes(node.attributes)
        end == <<"<", "/">> \o node.value \o <<">">>
    IN CASE node.type = "document" ->
              FlattenSeq([k \in DOMAIN children |-> Printed(heap, children[k], depth) \o <<"\n">>])
         [] node.type = "element" ->
              IF children = <<>> THEN start \o <<" ", "/", ">">>
              ELSE IF Len(children) = 1 /\ isText(children[1])
              THEN start \o <<">">> \o Printed(heap, children[1], depth + 1) \o end
              ELSE start \o <<">">> \o FlattenSeq([k \in DOMAIN children |-> PrintChild(children[k])])
                     \o <<"\n">> \o Indent(depth) \o end
         [] node.type = "text" -> EncodeString(node.value)
         [] node.type = "cdata" ->
              <<"\n">> \o Indent(depth) \o <<"<", "!", "[", "CDATA", "[">> \o node.value \o <<"]", "]", ">", "\n">>
         [] node.type = "comment" ->
              Indent(depth) \o <<"<", "!", "-", "-">> \o node.value \o <<"-", "-", ">">>
         [] node.type = "declaration" -> PrintDeclaration(node)
         [] OTHER -> Indent(depth) \o <<"<">> \o node.value \o <<">">>
=============================================================================
