----------------------------- MODULE NetProofs -----------------------------
(***************************************************************************)
(* What is proved about networks piece by piece.  What the modules make of *)
(* a network's results: RegionNets, for any networks and boxes,            *)
(* PersonCorners, for any objects and any screen, and FastDetect, for any  *)
(* networks, boxes and scores.  How a network is read and run: bodies of   *)
(* nodes are read back as they were written (NodeBodies), the methods the  *)
(* compiler emits compute their expressions (Nnil).  And single kernels:   *)
(* where the KPU keeps a feature map, how quantize rounds, where kernels   *)
(* that move elements put each.  KernelProofs goes on to whole programs.   *)
(* What is by induction over data, the fields of a body, the parts of an   *)
(* expression or the steps of a loop, is found on the least element of a   *)
(* set.                                                                    *)
(***************************************************************************)
EXTENDS RegionNets, PersonCorners, FastDetect, KernelPrograms, Nnil, NodeBodies,
        WellFoundedInduction, FiniteSetTheorems, TLAPS

\* Who was accepted after whom: of networks of the module, and never both ways.
OfItsKind == \A m \in Modules : \A k \in accepted[m] : Kind[k] = m
Asymmetric == \A a, b \in Nets : <<a, b>> \in later => <<b, a>> \notin later

\* The inductive invariant.
NetsInv ==
  /\ RegionTypeOK /\ ShownByOwn /\ OfItsKind /\ Asymmetric
  /\ running => /\ LayerOfLast("facedetect") /\ LayerOfLast("facemask")
                /\ AnchorsOfLast("facedetect") /\ AnchorsOfLast("yolo")

\* The parts of a layer; that of a network is not the missing one.
LEMMA LayerParts ==
  ASSUME NEW r, NEW o, NEW p, r = [of |-> o, pairs |-> p]
  PROVE  r.of = o /\ r.pairs = p
OBVIOUS

LEMMA LayerOfNet ==
  ASSUME NEW n \in Nets, NEW p, NEW r, r = [of |-> n, pairs |-> p]
  PROVE  r # NoLayer /\ r.of = n /\ r.pairs = p
<1>1. n # "none"
  BY NetsAssumption
<1>2. r.of = n /\ r.pairs = p /\ NoLayer.of = "none"
  BY LayerParts DEF NoLayer
<1>3. QED
  BY <1>1, <1>2

\* The parts of what is shown.
LEMMA ShownParts ==
  ASSUME NEW r, NEW n, NEW o, NEW b, NEW k, r = [net |-> n, by |-> o, boxes |-> b, numbers |-> k]
  PROVE  r.net = n /\ r.by = o /\ r.boxes = b /\ r.numbers = k
OBVIOUS

\* Nothing is shown.
LEMMA SilentRight ==
  /\ Silent.net = "none" /\ Silent.boxes = <<>> /\ Silent.numbers = 0
  /\ Len(Silent.boxes) <= 1 /\ Silent.numbers \in Nat
BY ShownParts DEF Silent

\* The globals hold it when the program starts.
LEMMA NetsInvStarts ==
  ASSUME RegionInit
  PROVE  NetsInv
<1>1. RegionTypeOK
  <2>1. anchor \in [{"facedetect", "yolo"} -> [Slots -> Nets \cup {"builtin"}]]
    BY DEF RegionInit
  <2>2. layer \in [Layered -> [of : Nets \cup {"none", "builtin"}, pairs : Nat]]
    BY NetsAssumption DEF RegionInit, NoLayer
  <2>3. /\ loaded \subseteq Nets /\ accepted \in [Modules -> SUBSET loaded] /\ running \in BOOLEAN
        /\ later \subseteq Nets \X Nets
    BY DEF RegionInit
  <2>4. shown = Silent
    BY DEF RegionInit
  <2>5. QED
    BY <2>1, <2>2, <2>3, <2>4, SilentRight DEF RegionTypeOK
<1>2. \A m \in Modules : accepted[m] = {}
  BY DEF RegionInit
<1>3. ASSUME NEW m \in {"facedetect", "facemask"} PROVE LayerOfLast(m)
  <2>1. layer[m] = NoLayer /\ accepted[m] = {}
    BY <1>2 DEF RegionInit, Layered, Modules
  <2>2. layer[m].pairs = 0
    BY <2>1 DEF NoLayer
  <2>3. 1 .. 2 * 0 = {}
    OBVIOUS
  <2>4. QED
    BY <2>1, <2>2, <2>3 DEF LayerOfLast
<1>4. ASSUME NEW m \in {"facedetect", "yolo"} PROVE AnchorsOfLast(m)
  <2>1. accepted[m] = {} /\ \A i \in Slots : anchor[m][i] = "builtin"
    BY <1>2 DEF RegionInit, Modules
  <2>2. QED
    BY <2>1 DEF AnchorsOfLast
<1>5. ShownByOwn
  BY SilentRight DEF RegionInit, ShownByOwn
<1>6. OfItsKind /\ Asymmetric
  BY <1>2 DEF OfItsKind, Asymmetric, RegionInit
<1>7. QED
  BY <1>1, <1>3, <1>4, <1>5, <1>6 DEF NetsInv

-----------------------------------------------------------------------------
\* A network that is accepted is the last of its module, and the order of the others
\* stays.
LEMMA AcceptedRight ==
  ASSUME NetsInv, NEW n \in Nets, NEW m \in Modules, Accept(n, m)
  PROVE  /\ accepted' \in [Modules -> SUBSET loaded'] /\ later' \subseteq Nets \X Nets
         /\ accepted'[m] = accepted[m] \cup {n} /\ \A k \in Modules : k # m => accepted'[k] = accepted[k]
         /\ OfItsKind' /\ Asymmetric'
         /\ \A k \in accepted'[m] \ {n} : <<n, k>> \in later'
         /\ \A a, b \in Nets : b # n /\ a # n => (<<a, b>> \in later' <=> <<a, b>> \in later)
         /\ \A k \in Modules : k # m => n \notin accepted[k]
<1>1. /\ RegionTypeOK /\ OfItsKind /\ Asymmetric
      /\ accepted \in [Modules -> SUBSET loaded] /\ loaded \subseteq Nets /\ later \subseteq Nets \X Nets
  BY DEF NetsInv, RegionTypeOK
<1>2. /\ accepted' = [accepted EXCEPT ![m] = @ \cup {n}] /\ loaded' = loaded \cup {n} /\ Kind[n] = m
      /\ later' = {p \in later : p[2] # n} \cup {<<n, k>> : k \in accepted[m] \ {n}}
  BY DEF Accept, Load
<1>3. accepted' \in [Modules -> SUBSET loaded'] /\ accepted[m] \subseteq Nets
  BY <1>1, <1>2
<1>4. later' \subseteq Nets \X Nets
  BY <1>1, <1>2, <1>3
<1>5. accepted'[m] = accepted[m] \cup {n} /\ \A k \in Modules : k # m => accepted'[k] = accepted[k]
  BY <1>1, <1>2
<1>6. OfItsKind'
  BY <1>1, <1>2, <1>5 DEF OfItsKind
<1>7. ASSUME NEW a \in Nets, NEW b \in Nets
      PROVE  <<a, b>> \in later' <=> (<<a, b>> \in later /\ b # n) \/ (a = n /\ b \in accepted[m] \ {n})
  BY <1>2
<1>8. Asymmetric'
  BY <1>1, <1>7 DEF Asymmetric
<1>9. \A k \in accepted'[m] \ {n} : <<n, k>> \in later'
  BY <1>2, <1>5
<1>10. \A k \in Modules : k # m => n \notin accepted[k]
  BY <1>1, <1>2 DEF OfItsKind
<1>11. QED
  BY <1>3, <1>4, <1>5, <1>6, <1>7, <1>8, <1>9, <1>10

\* The anchors of another module.
LEMMA OtherAnchorsKept ==
  ASSUME NetsInv, NEW n \in Nets, NEW m \in Modules, Accept(n, m),
         NEW k \in {"facedetect", "yolo"}, k # m, anchor'[k] = anchor[k], AnchorsOfLast(k)
  PROVE  AnchorsOfLast(k)'
<1>1. k \in Modules /\ accepted[k] \subseteq Nets
  BY DEF NetsInv, RegionTypeOK, Modules
<1>2. accepted'[k] = accepted[k] /\ n \notin accepted[k]
  BY <1>1, AcceptedRight
<1>3. \A a, b \in accepted[k] : <<a, b>> \in later' <=> <<a, b>> \in later
  BY <1>1, <1>2, AcceptedRight
<1>4. QED
  BY <1>2, <1>3 DEF AnchorsOfLast

\* The layer of another module.
LEMMA OtherLayerKept ==
  ASSUME NetsInv, NEW n \in Nets, NEW m \in Modules, Accept(n, m),
         NEW k \in {"facedetect", "facemask"}, k # m, layer'[k] = layer[k],
         k = "facedetect" => anchor'[k] = anchor[k], LayerOfLast(k)
  PROVE  LayerOfLast(k)'
<1>1. k \in Modules /\ accepted[k] \subseteq Nets
  BY DEF NetsInv, RegionTypeOK, Modules
<1>2. accepted'[k] = accepted[k] /\ n \notin accepted[k]
  BY <1>1, AcceptedRight
<1>3. \A a, b \in accepted[k] : <<a, b>> \in later' <=> <<a, b>> \in later
  BY <1>1, <1>2, AcceptedRight
<1>4. QED
  BY <1>2, <1>3 DEF LayerOfLast, IsLast

\* The floats of a network are the first of the array, and the others stay.
LEMMA FilledRight ==
  ASSUME RegionTypeOK, NEW n \in Nets, NEW m \in {"facedetect", "yolo"}
  PROVE  /\ Filled(n, m) \in [{"facedetect", "yolo"} -> [Slots -> Nets \cup {"builtin"}]]
         /\ \A i \in Slots : Filled(n, m)[m][i] = IF i <= Floats[n] THEN n ELSE anchor[m][i]
         /\ \A k \in {"facedetect", "yolo"} : k # m => Filled(n, m)[k] = anchor[k]
BY DEF RegionTypeOK, Filled

\* The anchors of the module itself: those the network has become its own.
LEMMA OwnAnchorsFilled ==
  ASSUME NetsInv, NEW n \in Nets, NEW m \in {"facedetect", "yolo"}, Accept(n, m),
         anchor' = Filled(n, m), AnchorsOfLast(m)
  PROVE  AnchorsOfLast(m)'
<1>1. m \in Modules /\ accepted[m] \subseteq Nets /\ RegionTypeOK
  BY DEF NetsInv, RegionTypeOK, Modules
<1>2. /\ accepted'[m] = accepted[m] \cup {n} /\ \A k \in accepted'[m] \ {n} : <<n, k>> \in later'
      /\ \A a, b \in Nets : b # n /\ a # n => (<<a, b>> \in later' <=> <<a, b>> \in later)
  BY <1>1, AcceptedRight
<1>3. \A i \in Slots : anchor'[m][i] = IF i <= Floats[n] THEN n ELSE anchor[m][i]
  BY <1>1, FilledRight
<1>4. n # "builtin"
  BY NetsAssumption
<1> DEFINE Having(i) == {k \in accepted[m] : i <= Floats[k]}
           Have(i) == {k \in accepted'[m] : i <= Floats[k]}
<1>5. SUFFICES ASSUME NEW i \in Slots
               PROVE  IF anchor'[m][i] = "builtin" THEN Have(i) = {}
                      ELSE anchor'[m][i] \in Have(i) /\ \A k \in Have(i) \ {anchor'[m][i]} : <<anchor'[m][i], k>> \in later'
  BY DEF AnchorsOfLast
<1>6. CASE i <= Floats[n]
  BY <1>2, <1>3, <1>4, <1>6
<1>7. CASE ~(i <= Floats[n])
  <2>1. Have(i) = Having(i) /\ n \notin Having(i) /\ Having(i) \subseteq Nets /\ anchor'[m][i] = anchor[m][i]
    BY <1>1, <1>2, <1>3, <1>7
  <2>2. IF anchor[m][i] = "builtin" THEN Having(i) = {}
        ELSE anchor[m][i] \in Having(i) /\ \A k \in Having(i) \ {anchor[m][i]} : <<anchor[m][i], k>> \in later
    BY DEF AnchorsOfLast
  <2>3. \A a, b \in Having(i) : <<a, b>> \in later' <=> <<a, b>> \in later
    BY <1>2, <2>1
  <2> HIDE DEF Having, Have
  <2>4. QED
    BY <2>1, <2>2, <2>3
<1>8. QED
  BY <1>6, <1>7

\* Every pair of a list has both its elements in the list.
LEMMA Pairs ==
  ASSUME NEW k \in Nat
  PROVE  k \div 2 \in Nat /\ 2 * (k \div 2) <= k
OBVIOUS

\* No layer could be made: the program has stopped.
LEMMA NoLayerKeeps ==
  ASSUME NetsInv, NEW n \in Nets, NEW m \in Layered, NoLayerFor(n, m),
         anchor' \in [{"facedetect", "yolo"} -> [Slots -> Nets \cup {"builtin"}]]
  PROVE  NetsInv'
<1>1. /\ layer' = [layer EXCEPT ![m] = NoLayer] /\ running' = FALSE /\ accepted' = accepted /\ later' = later
      /\ loaded' = loaded \cup {n} /\ shown' = Silent
  BY DEF NoLayerFor, Load
<1>2. RegionTypeOK /\ OfItsKind /\ Asymmetric
  BY DEF NetsInv
<1>3. layer' \in [Layered -> [of : Nets \cup {"none", "builtin"}, pairs : Nat]]
  BY <1>1, <1>2 DEF RegionTypeOK, NoLayer
<1>4. accepted' \in [Modules -> SUBSET loaded']
  BY <1>1, <1>2 DEF RegionTypeOK
<1>5. RegionTypeOK'
  BY <1>1, <1>2, <1>3, <1>4, SilentRight DEF RegionTypeOK
<1>6. ShownByOwn' /\ OfItsKind' /\ Asymmetric'
  BY <1>1, <1>2, SilentRight DEF ShownByOwn, OfItsKind, Asymmetric
<1>7. QED
  BY <1>1, <1>5, <1>6 DEF NetsInv

\* An accepted network: what is the same for every module.
LEMMA AcceptTyped ==
  ASSUME NetsInv, NEW n \in Nets, NEW m \in Modules, Accept(n, m),
         anchor' \in [{"facedetect", "yolo"} -> [Slots -> Nets \cup {"builtin"}]],
         layer' \in [Layered -> [of : Nets \cup {"none", "builtin"}, pairs : Nat]]
  PROVE  RegionTypeOK' /\ ShownByOwn' /\ OfItsKind' /\ Asymmetric' /\ running /\ running'
<1>1. loaded' = loaded \cup {n} /\ shown' = Silent /\ running' = running /\ running
  BY DEF Accept, Load
<1>2. RegionTypeOK
  BY DEF NetsInv
<1>3. RegionTypeOK'
  BY <1>1, <1>2, AcceptedRight, SilentRight DEF RegionTypeOK
<1>4. ShownByOwn'
  BY <1>1, SilentRight DEF ShownByOwn
<1>5. QED
  BY <1>1, <1>3, <1>4, AcceptedRight

\* facedetect reads through its layer as many anchors as it was given.
LEMMA LoadFaceKeeps ==
  ASSUME NetsInv, NEW n \in Nets, LoadFace(n)
  PROVE  NetsInv'
<1> DEFINE k == Floats[n]
           p == Floats[n] \div 2
<1>1. anchor' = Filled(n, "facedetect") /\ k \in Nat /\ p \in Nat /\ 2 * p <= k /\ k <= 2 * AnchorMax /\ AnchorMax \in Nat
  BY NetsAssumption, Pairs DEF LoadFace
<1>2. RegionTypeOK
  BY DEF NetsInv
<1>3. /\ anchor' \in [{"facedetect", "yolo"} -> [Slots -> Nets \cup {"builtin"}]]
      /\ \A i \in Slots : anchor'["facedetect"][i] = IF i <= k THEN n ELSE anchor["facedetect"][i]
      /\ anchor'["yolo"] = anchor["yolo"]
  BY <1>1, <1>2, FilledRight
<1>4. CASE NoLayerFor(n, "facedetect")
  BY <1>3, <1>4, NoLayerKeeps DEF Layered
<1>5. CASE /\ Accept(n, "facedetect")
           /\ layer' = [layer EXCEPT !["facedetect"] = [of |-> n, pairs |-> p]]
  <2>1. "facedetect" \in Modules
    BY DEF Modules
  <2>2. /\ layer' \in [Layered -> [of : Nets \cup {"none", "builtin"}, pairs : Nat]]
        /\ layer'["facedetect"] = [of |-> n, pairs |-> p]
        /\ layer'["facemask"] = layer["facemask"]
    BY <1>1, <1>2, <1>5 DEF RegionTypeOK, Layered
  <2>3. RegionTypeOK' /\ ShownByOwn' /\ OfItsKind' /\ Asymmetric' /\ running /\ running'
    BY <1>3, <1>5, <2>1, <2>2, AcceptTyped
  <2>4. AnchorsOfLast("facedetect")'
    BY <1>1, <1>5, <2>3, OwnAnchorsFilled DEF NetsInv
  <2>5. AnchorsOfLast("yolo")'
    BY <1>3, <1>5, <2>1, <2>3, OtherAnchorsKept DEF NetsInv
  <2>6. LayerOfLast("facemask")'
    BY <1>5, <2>1, <2>2, <2>3, OtherLayerKept DEF NetsInv
  <2>7. \A i \in 1 .. 2 * p : anchor'["facedetect"][i] = n
    <3> HIDE DEF k, p
    <3>1. \A i \in 1 .. 2 * p : i \in 1 .. 2 * AnchorMax /\ i <= k
      BY <1>1
    <3>2. QED
      BY <1>3, <3>1 DEF Slots
  <2>8. LayerOfLast("facedetect")'
    <3> DEFINE l == layer'["facedetect"]
    <3>1. l # NoLayer /\ l.of = n /\ l.pairs = p
      <4> HIDE DEF p
      <4>1. l = [of |-> n, pairs |-> p]
        BY <2>2
      <4> HIDE DEF l
      <4>2. QED
        BY <4>1, LayerOfNet
    <3>2. accepted'["facedetect"] = accepted["facedetect"] \cup {n} /\ \A q \in accepted'["facedetect"] \ {n} : <<n, q>> \in later'
      BY <1>5, <2>1, AcceptedRight
    <3>3. QED
      BY <2>7, <3>1, <3>2 DEF LayerOfLast, IsLast
  <2>9. QED
    BY <2>3, <2>4, <2>5, <2>6, <2>8 DEF NetsInv
<1>6. QED
  BY <1>4, <1>5 DEF LoadFace

\* yolo writes its own anchors over the first of the array.
LEMMA LoadYoloKeeps ==
  ASSUME NetsInv, NEW n \in Nets, LoadYolo(n)
  PROVE  NetsInv'
<1>1. anchor' = Filled(n, "yolo") /\ layer' = layer /\ Accept(n, "yolo")
  BY DEF LoadYolo
<1>2. RegionTypeOK /\ "yolo" \in Modules
  BY DEF NetsInv, Modules
<1>3. /\ anchor' \in [{"facedetect", "yolo"} -> [Slots -> Nets \cup {"builtin"}]]
      /\ anchor'["facedetect"] = anchor["facedetect"]
  BY <1>1, <1>2, FilledRight
<1>4. layer' \in [Layered -> [of : Nets \cup {"none", "builtin"}, pairs : Nat]]
  BY <1>1, <1>2 DEF RegionTypeOK
<1>5. RegionTypeOK' /\ ShownByOwn' /\ OfItsKind' /\ Asymmetric' /\ running /\ running'
  BY <1>1, <1>2, <1>3, <1>4, AcceptTyped
<1>6. AnchorsOfLast("yolo")'
  BY <1>1, <1>5, OwnAnchorsFilled DEF NetsInv
<1>7. AnchorsOfLast("facedetect")'
  BY <1>1, <1>2, <1>3, <1>5, OtherAnchorsKept DEF NetsInv
<1>8. LayerOfLast("facedetect")' /\ LayerOfLast("facemask")'
  BY <1>1, <1>2, <1>3, <1>5, OtherLayerKept DEF NetsInv
<1>9. QED
  BY <1>5, <1>6, <1>7, <1>8 DEF NetsInv

\* A network without floats of its own.
LEMMA LoadMaskKeeps ==
  ASSUME NetsInv, NEW n \in Nets, LoadMask(n)
  PROVE  NetsInv'
<1>1. RegionTypeOK /\ "facemask" \in Modules /\ MaskAnchors \in Nat /\ anchor' = anchor
  BY NetsAssumption DEF NetsInv, Modules, LoadMask
<1>2. anchor' \in [{"facedetect", "yolo"} -> [Slots -> Nets \cup {"builtin"}]]
  BY <1>1 DEF RegionTypeOK
<1>3. CASE NoLayerFor(n, "facemask")
  BY <1>2, <1>3, NoLayerKeeps DEF Layered
<1>4. CASE /\ Accept(n, "facemask")
           /\ layer' = [layer EXCEPT !["facemask"] = [of |-> n, pairs |-> MaskAnchors]]
  <2>1. /\ layer' \in [Layered -> [of : Nets \cup {"none", "builtin"}, pairs : Nat]]
        /\ layer'["facemask"] = [of |-> n, pairs |-> MaskAnchors]
        /\ layer'["facedetect"] = layer["facedetect"]
    BY <1>1, <1>4 DEF RegionTypeOK, Layered
  <2>2. RegionTypeOK' /\ ShownByOwn' /\ OfItsKind' /\ Asymmetric' /\ running /\ running'
    BY <1>1, <1>2, <1>4, <2>1, AcceptTyped
  <2>3. AnchorsOfLast("facedetect")' /\ AnchorsOfLast("yolo")'
    BY <1>1, <1>4, <2>2, OtherAnchorsKept DEF NetsInv
  <2>4. LayerOfLast("facedetect")'
    BY <1>1, <1>4, <2>1, <2>2, OtherLayerKept DEF NetsInv
  <2>5. LayerOfLast("facemask")'
    <3> DEFINE l == layer'["facemask"]
    <3>1. l # NoLayer /\ l.of = n
      <4>1. l = [of |-> n, pairs |-> MaskAnchors]
        BY <2>1
      <4> HIDE DEF l
      <4>2. QED
        BY <4>1, LayerOfNet
    <3>2. accepted'["facemask"] = accepted["facemask"] \cup {n} /\ \A q \in accepted'["facemask"] \ {n} : <<n, q>> \in later'
      BY <1>1, <1>4, AcceptedRight
    <3>3. QED
      BY <3>1, <3>2 DEF LayerOfLast, IsLast
  <2>6. QED
    BY <2>2, <2>3, <2>4, <2>5 DEF NetsInv
<1>5. QED
  BY <1>3, <1>4 DEF LoadMask

LEMMA LoadPlainKeeps ==
  ASSUME NetsInv, NEW n \in Nets, LoadPlain(n)
  PROVE  NetsInv'
<1> DEFINE m == Kind[n]
<1>1. anchor' = anchor /\ layer' = layer /\ Accept(n, m) /\ m \in {"iris", "baidu"}
  BY DEF LoadPlain
<1> HIDE DEF m
<1>2. RegionTypeOK /\ m \in Modules
  BY <1>1 DEF NetsInv, Modules
<1>3. /\ anchor' \in [{"facedetect", "yolo"} -> [Slots -> Nets \cup {"builtin"}]]
      /\ layer' \in [Layered -> [of : Nets \cup {"none", "builtin"}, pairs : Nat]]
  BY <1>1, <1>2 DEF RegionTypeOK
<1>4. RegionTypeOK' /\ ShownByOwn' /\ OfItsKind' /\ Asymmetric' /\ running /\ running'
  BY <1>1, <1>2, <1>3, AcceptTyped
<1>5. AnchorsOfLast("facedetect")' /\ AnchorsOfLast("yolo")'
  BY <1>1, <1>2, <1>4, OtherAnchorsKept DEF NetsInv
<1>6. LayerOfLast("facedetect")' /\ LayerOfLast("facemask")'
  BY <1>1, <1>2, <1>4, OtherLayerKept DEF NetsInv
<1>7. QED
  BY <1>4, <1>5, <1>6 DEF NetsInv

-----------------------------------------------------------------------------
\* Two networks are not both the last.
LEMMA OneLast ==
  ASSUME NetsInv, NEW m \in Modules, NEW a, NEW b, IsLast(a, m), IsLast(b, m)
  PROVE  a = b
<1>1. a \in Nets /\ b \in Nets /\ Asymmetric
  BY DEF NetsInv, RegionTypeOK, IsLast
<1>2. a # b => <<a, b>> \in later /\ <<b, a>> \in later
  BY DEF IsLast
<1>3. QED
  BY <1>1, <1>2 DEF Asymmetric

\* What is shown.
LEMMA ForwardKeeps ==
  ASSUME NetsInv, NEW n \in Nets,
         ForwardLayer(n) \/ ForwardNoLayer(n) \/ ForwardPlain(n) \/ ForwardNoOutput(n)
           \/ ForwardHalts(n)
  PROVE  NetsInv'
<1>1. UNCHANGED <<anchor, layer, loaded, accepted, later>> /\ running' \in BOOLEAN /\ (running' => running)
  BY DEF ForwardLayer, ForwardNoLayer, ForwardPlain, ForwardNoOutput, ForwardHalts, Forward,
         NetsInv, RegionTypeOK
<1>2. /\ shown'.net \in Nets \cup {"none"} /\ Len(shown'.boxes) <= 1 /\ shown'.numbers \in Nat
      /\ ShownByOwn'
  <2>1. CASE shown' = shown
    <3>1. shown.net \in Nets \cup {"none"} /\ Len(shown.boxes) <= 1 /\ shown.numbers \in Nat /\ ShownByOwn
      BY DEF NetsInv, RegionTypeOK
    <3>2. QED
      BY <1>1, <2>1, <3>1 DEF ShownByOwn, IsLast
  <2>2. CASE shown' = Silent
    BY <2>2, SilentRight DEF ShownByOwn
  <2>3. CASE ForwardLayer(n)
    <3>1. PICK r \in Raw :
             shown' \in {Silent, [Silent EXCEPT !.net = n, !.by = layer[Kind[n]].of, !.boxes = <<Shown(Kind[n], r)>>]}
      BY <2>3 DEF ForwardLayer
    <3>2. CASE shown' = [Silent EXCEPT !.net = n, !.by = layer[Kind[n]].of, !.boxes = <<Shown(Kind[n], r)>>]
      <4> DEFINE m == Kind[n]
                 l == layer[Kind[n]]
      <4>1. shown'.net = n /\ shown'.by = l.of /\ Len(shown'.boxes) = 1 /\ shown'.numbers = 0
        BY <3>2 DEF Silent
      <4>2. m \in Layered /\ l # NoLayer /\ running
        BY <2>3 DEF ForwardLayer, Forward
      <4>3. m # "yolo" => m \in {"facedetect", "facemask"}
        BY <4>2 DEF Layered
      <4>4. m # "yolo" => LayerOfLast(m) /\ m \in Modules
        BY <4>2, <4>3 DEF NetsInv, Modules
      <4>5. m # "yolo" => IsLast(l.of, m)
        BY <4>2, <4>4 DEF LayerOfLast
      <4> HIDE DEF m, l
      <4>6. m # "yolo" => (l.of = n <=> IsLast(n, m))
        BY <4>4, <4>5, OneLast
      <4>7. m # "yolo" => (l.of = n <=> IsLast(n, m)')
        BY <1>1, <4>6 DEF IsLast
      <4>8. ShownByOwn'
        BY <4>1, <4>7 DEF ShownByOwn, m
      <4>9. QED
        BY <4>1, <4>8
    <3>3. QED
      BY <2>2, <3>1, <3>2
  <2>4. CASE ForwardPlain(n)
    <3>1. PICK size \in Outputs : shown' = [Silent EXCEPT !.net = n, !.numbers = size \div 4]
      BY <2>4 DEF ForwardPlain
    <3>2. size \in Nat
      BY NetsAssumption
    <3>3. size \div 4 \in Nat
      BY <3>2
    <3>4. shown'.net = n /\ shown'.boxes = <<>> /\ shown'.numbers = size \div 4
      BY <3>1 DEF Silent
    <3>5. QED
      BY <3>3, <3>4 DEF ShownByOwn
  <2>5. QED
    BY <2>1, <2>2, <2>3, <2>4 DEF ForwardNoLayer, ForwardNoOutput, ForwardHalts
<1>3. RegionTypeOK' /\ OfItsKind' /\ Asymmetric'
  BY <1>1, <1>2 DEF NetsInv, RegionTypeOK, OfItsKind, Asymmetric
<1>4. QED
  BY <1>1, <1>2, <1>3 DEF NetsInv, LayerOfLast, AnchorsOfLast, IsLast

\* The inductive invariant behind NetsApart.
THEOREM NetsInvAlways == RegionSpec => []NetsInv
<1>1. RegionInit => NetsInv
  BY NetsInvStarts
<1>2. NetsInv /\ [RegionNext]_regionVars => NetsInv'
  <2> SUFFICES ASSUME NetsInv, [RegionNext]_regionVars PROVE NetsInv'
    OBVIOUS
  <2>1. ASSUME NEW n \in Nets, RefuseFace(n) \/ RefuseYolo(n) PROVE NetsInv'
    <3>1. UNCHANGED <<anchor, layer, accepted, later, running>> /\ loaded' = loaded \cup {n} /\ shown' = Silent
      BY <2>1 DEF RefuseFace, RefuseYolo, Refuse, Load
    <3>2. RegionTypeOK'
      <4>1. accepted' \in [Modules -> SUBSET loaded']
        BY <3>1 DEF NetsInv, RegionTypeOK
      <4>2. QED
        BY <3>1, <4>1, SilentRight DEF NetsInv, RegionTypeOK
    <3>3. ShownByOwn' /\ OfItsKind' /\ Asymmetric'
      BY <3>1, SilentRight DEF NetsInv, ShownByOwn, OfItsKind, Asymmetric
    <3>4. QED
      BY <3>1, <3>2, <3>3 DEF NetsInv, LayerOfLast, AnchorsOfLast, IsLast
  <2>2. CASE UNCHANGED regionVars
    BY <2>2 DEF regionVars, NetsInv, RegionTypeOK, LayerOfLast, AnchorsOfLast, IsLast, ShownByOwn,
                OfItsKind, Asymmetric
  <2>3. QED
    BY <2>1, <2>2, LoadFaceKeeps, LoadYoloKeeps, LoadMaskKeeps, LoadPlainKeeps, ForwardKeeps DEF RegionNext
<1>3. QED
  BY <1>1, <1>2, PTL DEF RegionSpec

\* The globals that the networks of a module share hold what their order of acceptance
\* says, whatever is loaded and refused in whatever order.
THEOREM NetsApartCorrect == RegionSpec => []NetsApart
<1>1. NetsInv => NetsApart
  BY DEF NetsInv, NetsApart
<1>2. QED
  BY <1>1, NetsInvAlways, PTL

-----------------------------------------------------------------------------
\* Keeping both corners on the screen does not cross them.
LEMMA ShownRight ==
  ASSUME NEW m, NEW r \in Raw
  PROVE  /\ Shown(m, r).w >= 0 /\ Shown(m, r).h >= 0
         /\ m = "yolo" => /\ Shown(m, r).x + Shown(m, r).w < Screen
                          /\ Shown(m, r).y + Shown(m, r).h < Screen
<1>1. /\ r.x1 \in Nat /\ r.x2 \in Nat /\ r.y1 \in Nat /\ r.y2 \in Nat
      /\ r.x1 <= r.x2 /\ r.y1 <= r.y2 /\ Screen \in Nat \ {0}
  <2>1. Screen \in Nat \ {0}
    BY NetsAssumption
  <2>2. r \in Rect /\ r.x1 <= r.x2 /\ r.y1 <= r.y2
    BY NetsAssumption
  <2>3. QED
    BY <2>1, <2>2 DEF Rect
<1>2. QED
  BY <1>1 DEF Shown, Corner, OnScreen

\* No box is shown with a negative size, and those of yolo are on the screen.
THEOREM BoxesHaveSizeCorrect == RegionSpec => []BoxesHaveSize
<1>1. RegionInit => BoxesHaveSize
  <2>1. RegionInit => shown.boxes = <<>>
    BY ShownParts DEF RegionInit, Silent
  <2>2. shown.boxes = <<>> => 1 .. Len(shown.boxes) = {}
    OBVIOUS
  <2>3. QED
    BY <2>1, <2>2 DEF BoxesHaveSize
<1>2. BoxesHaveSize /\ [RegionNext]_regionVars => BoxesHaveSize'
  <2> SUFFICES ASSUME BoxesHaveSize, [RegionNext]_regionVars PROVE BoxesHaveSize'
    OBVIOUS
  <2>1. CASE shown' = shown
    BY <2>1 DEF BoxesHaveSize
  <2>2. CASE shown' = Silent
    BY <2>2 DEF BoxesHaveSize, Silent
  <2>3. ASSUME NEW n \in Nets, ForwardLayer(n) PROVE BoxesHaveSize'
    <3>1. PICK r \in Raw :
             shown' \in {Silent, [Silent EXCEPT !.net = n, !.by = layer[Kind[n]].of, !.boxes = <<Shown(Kind[n], r)>>]}
      BY <2>3 DEF ForwardLayer
    <3>2. CASE shown' = [Silent EXCEPT !.net = n, !.by = layer[Kind[n]].of, !.boxes = <<Shown(Kind[n], r)>>]
      <4>1. shown'.net = n /\ shown'.boxes = <<Shown(Kind[n], r)>>
        BY <3>2 DEF Silent
      <4>2. Len(shown'.boxes) = 1 /\ shown'.boxes[1] = Shown(Kind[n], r)
        BY <4>1
      <4>3. QED
        BY <4>1, <4>2, ShownRight DEF BoxesHaveSize
    <3>3. QED
      BY <2>2, <3>1, <3>2
  <2>4. ASSUME NEW n \in Nets, ForwardPlain(n) PROVE BoxesHaveSize'
    <3>1. shown'.boxes = <<>>
      BY <2>4 DEF ForwardPlain, Silent
    <3>2. QED
      BY <3>1 DEF BoxesHaveSize
  <2>5. QED
    BY <2>1, <2>2, <2>3, <2>4
       DEF RegionNext, regionVars, LoadFace, RefuseFace, LoadYolo, RefuseYolo, LoadMask, LoadPlain,
           Refuse, Accept, NoLayerFor, Load, ForwardNoLayer, ForwardNoOutput, ForwardHalts
<1>3. QED
  BY <1>1, <1>2, PTL DEF RegionSpec

-----------------------------------------------------------------------------
\* One axis of a box that is two pixels long and centred on the screen.
LEMMA AlongInside ==
  ASSUME NEW centre \in Int, NEW size \in Nat, NEW last \in Nat \ {0, 1},
         0 <= centre, centre <= 4 * last, size >= 8
  PROVE  LET a == Along(centre, size, last) IN
           a[1] >= 1 /\ a[2] >= 0 /\ a[1] + a[2] < last
<1> DEFINE half == size \div 2
           near == ToUnsigned(centre - half)
           far  == ToUnsigned(centre + half)
           from == IF near <= 0 THEN 1 ELSE near
           to   == IF far >= last THEN last - 1 ELSE far
<1>1. half \in Int /\ half >= 4
  OBVIOUS
<1> HIDE DEF half
<1>2. near \in Int /\ near <= last - 1 /\ near >= 0
  BY <1>1 DEF ToUnsigned
<1>3. far \in Int /\ far >= 1 /\ far >= near
  BY <1>1 DEF ToUnsigned
<1>4. Along(centre, size, last) = <<from, to - from>>
  BY DEF Along, half
<1> HIDE DEF near, far
<1>5. from \in Int /\ to \in Int /\ from >= 1 /\ from <= to /\ to < last
  BY <1>2, <1>3
<1> HIDE DEF from, to
<1>6. QED
  BY <1>4, <1>5

\* An object of two pixels or more that is centred on the screen is drawn inside.
THEOREM CornersInsideCorrect == CornerSpec => []CornersInside
<1> DEFINE CornerInv == tracked \in Objects /\ CornersInside
<1>1. CornerInit => CornerInv
  BY DEF CornerInit, CornersInside
<1>2. CornerInv /\ [CornerNext]_cornerVars => CornerInv'
  <2> SUFFICES ASSUME CornerInv, [CornerNext]_cornerVars PROVE CornerInv'
    OBVIOUS
  <2>1. CASE UNCHANGED cornerVars
    BY <2>1 DEF cornerVars, CornersInside
  <2>2. CASE Show
    <3>1. tracked' = tracked /\ tracked \in [cx : Int, cy : Int, w : Nat, h : Nat]
      BY <2>2, ObjectsAssumption DEF Show
    <3> DEFINE across == Along(tracked.cx, tracked.w, Right)
               down   == Along(tracked.cy, tracked.h, Bottom)
    <3>2. corners' = [x |-> across[1], y |-> down[1], w |-> across[2], h |-> down[2]]
      BY <2>2 DEF Show
    <3>3. ASSUME tracked.cx \in 0 .. 4 * Right, tracked.w >= 8
          PROVE  across[1] >= 1 /\ across[2] >= 0 /\ across[1] + across[2] < Right
      BY <3>1, <3>3, AlongInside, ScreenAssumption
    <3>4. ASSUME tracked.cy \in 0 .. 4 * Bottom, tracked.h >= 8
          PROVE  down[1] >= 1 /\ down[2] >= 0 /\ down[1] + down[2] < Bottom
      BY <3>1, <3>4, AlongInside, ScreenAssumption
    <3> HIDE DEF across, down
    <3>5. QED
      BY <3>1, <3>2, <3>3, <3>4 DEF CornersInside
  <2>3. QED
    BY <2>1, <2>2 DEF CornerNext
<1>3. QED
  BY <1>1, <1>2, PTL DEF CornerSpec

-----------------------------------------------------------------------------
(* Induction over numbers.  The theorems of the library that take a        *)
(* predicate are not used: a set stands for it.                            *)

\* A set of natural numbers has a least one.
LEMMA LeastNat ==
  ASSUME NEW S \in SUBSET Nat, S # {}
  PROVE  \E n \in S : \A m \in S : n <= m
<1>1. IsWellFoundedOn(OpToRel(<, Nat), Nat)
  BY NatLessThanWellFounded
<1>2. PICK n \in S : \A m \in S : ~(<<m, n>> \in OpToRel(<, Nat))
  BY <1>1, WFMin
<1>3. \A m \in S : ~(m < n)
  BY <1>2 DEF OpToRel
<1> QED
  BY <1>3

\* Induction up to n: a set that has 0, and k when it has k - 1, has all.
LEMMA UpTo ==
  ASSUME NEW n \in Nat, NEW S, 0 \in S, \A k \in 1 .. n : k - 1 \in S => k \in S
  PROVE  \A k \in 0 .. n : k \in S
<1> DEFINE left == {k \in 0 .. n : k \notin S}
<1> SUFFICES ASSUME left # {} PROVE FALSE
  OBVIOUS
<1>1. left \in SUBSET Nat
  OBVIOUS
<1>2. PICK k \in left : \A m \in left : k <= m
  <2> HIDE DEF left
  <2> QED BY <1>1, LeastNat
<1>3. k \in 1 .. n /\ k - 1 \in 0 .. n /\ ~(k <= k - 1)
  BY <1>2
<1>4. k - 1 \in S
  BY <1>2, <1>3
<1> QED
  BY <1>2, <1>3, <1>4

\* A function on 0 .. n that starts with b and goes on by F.
Iterates(n, S, b, F) ==
  \E f \in [0 .. n -> S] : f[0] = b /\ \A k \in 1 .. n : f[k] = F[k][f[k - 1]]

\* There is one, whatever F.
LEMMA IterationExists ==
  ASSUME NEW n \in Nat, NEW S, NEW b \in S, NEW F \in [1 .. n -> [S -> S]]
  PROVE  Iterates(n, S, b, F)
<1> DEFINE OK(m, f) == f \in [0 .. m -> S] /\ f[0] = b /\ \A k \in 1 .. m : f[k] = F[k][f[k - 1]]
           done == {m \in 0 .. n : \E f : OK(m, f)}
<1>1. 0 \in done
  <2>1. OK(0, [k \in 0 .. 0 |-> b])
    OBVIOUS
  <2> HIDE DEF OK
  <2> QED BY <2>1
<1>2. ASSUME NEW m \in 1 .. n, m - 1 \in done PROVE m \in done
  <2>1. PICK f : OK(m - 1, f)
    BY <1>2
  <2> DEFINE g == [k \in 0 .. m |-> IF k = m THEN F[m][f[m - 1]] ELSE f[k]]
  <2>2. m - 1 \in 0 .. (m - 1) /\ f[m - 1] \in S
    BY <2>1
  <2>3. F[m][f[m - 1]] \in S
    BY <2>2
  <2>4. g \in [0 .. m -> S]
    <3>1. \A k \in 0 .. m : k # m => k \in 0 .. (m - 1)
      OBVIOUS
    <3> QED BY <2>1, <2>3, <3>1
  <2>5. g[0] = b
    BY <2>1
  <2>6. ASSUME NEW k \in 1 .. m PROVE g[k] = F[k][g[k - 1]]
    <3>1. k - 1 \in 0 .. m /\ k - 1 # m /\ g[k - 1] = f[k - 1]
      OBVIOUS
    <3>2. CASE k = m
      BY <3>1, <3>2
    <3>3. CASE k # m
      <4>1. k \in 1 .. (m - 1) /\ g[k] = f[k]
        BY <3>3
      <4> QED BY <4>1, <3>1, <2>1
    <3> QED BY <3>2, <3>3
  <2>7. OK(m, g)
    BY <2>4, <2>5, <2>6
  <2> HIDE DEF OK, g
  <2> QED BY <2>7
<1>3. \A m \in 0 .. n : m \in done
  <2> HIDE DEF done
  <2> QED BY <1>1, <1>2, UpTo
<1>4. n \in done
  BY <1>3
<1> QED
  BY <1>4 DEF Iterates

-----------------------------------------------------------------------------
\* Sums.

\* Sum has its partial sums: the recursive function that defines it exists and is
\* what its equation says.
LEMMA SumBySteps ==
  ASSUME NEW n \in Nat, NEW t \in [1 .. n -> Int]
  PROVE  \E f \in [0 .. n -> Int] :
           f[0] = 0 /\ f[n] = Sum(n, t) /\ \A k \in 1 .. n : f[k] = f[k - 1] + t[k]
<1> DEFINE Step(f) == [k \in 0 .. n |-> IF k = 0 THEN 0 ELSE f[k - 1] + t[k]]
           upTo == CHOOSE f : f = Step(f)
           F == [k \in 1 .. n |-> [v \in Int |-> v + t[k]]]
<1>1. F \in [1 .. n -> [Int -> Int]]
  OBVIOUS
<1>2. PICK f \in [0 .. n -> Int] : f[0] = 0 /\ \A k \in 1 .. n : f[k] = F[k][f[k - 1]]
  <2> HIDE DEF F
  <2>1. \E f \in [0 .. n -> Int] : f[0] = 0 /\ \A k \in 1 .. n : f[k] = F[k][f[k - 1]]
    <3> DEFINE zero == 0
               ints == Int
    <3>1. zero \in ints /\ F \in [1 .. n -> [ints -> ints]]
      BY <1>1
    <3> HIDE DEF zero, ints
    <3>2. Iterates(n, ints, zero, F)
      BY <3>1, IterationExists
    <3> QED BY <3>2 DEF zero, ints, Iterates
  <2> QED BY <2>1
<1>3. \A k \in 1 .. n : k - 1 \in 0 .. n /\ F[k][f[k - 1]] = f[k - 1] + t[k]
  OBVIOUS
<1>4. f = Step(f)
  <2>1. \A k \in 0 .. n : k # 0 => k \in 1 .. n
    OBVIOUS
  <2>2. \A k \in 0 .. n : f[k] = IF k = 0 THEN 0 ELSE f[k - 1] + t[k]
    <3> HIDE DEF F
    <3> QED BY <1>2, <1>3, <2>1
  <2> QED BY <2>2
<1>5. upTo = Step(upTo)
  <2> HIDE DEF Step
  <2> QED BY <1>4
<1>6. Sum(n, t) = upTo[n]
  BY DEF Sum
<1> HIDE DEF upTo
<1>7. upTo[0] = 0 /\ \A k \in 1 .. n : upTo[k] = upTo[k - 1] + t[k]
  BY <1>5
<1>8. upTo \in [0 .. n -> Int]
  <2> DEFINE ints == {k \in 0 .. n : upTo[k] \in Int}
  <2>1. 0 \in ints
    BY <1>7
  <2>2. \A k \in 1 .. n : k - 1 \in ints => k \in ints
    BY <1>7
  <2>3. \A k \in 0 .. n : k \in ints
    <3> HIDE DEF ints
    <3> QED BY <2>1, <2>2, UpTo
  <2> QED BY <2>3, <1>5
<1> QED
  BY <1>6, <1>7, <1>8

\* A sum of integers is one.
LEMMA SumIsInt ==
  ASSUME NEW n \in Nat, NEW t \in [1 .. n -> Int]
  PROVE  Sum(n, t) \in Int
<1>1. n \in 0 .. n
  OBVIOUS
<1> QED
  BY <1>1, SumBySteps

\* Larger terms give a larger sum.
LEMMA SumMonotonic ==
  ASSUME NEW n \in Nat, NEW t \in [1 .. n -> Int], NEW u \in [1 .. n -> Int],
         \A k \in 1 .. n : t[k] <= u[k]
  PROVE  Sum(n, t) <= Sum(n, u)
<1>1. PICK f \in [0 .. n -> Int] : f[0] = 0 /\ f[n] = Sum(n, t) /\ \A k \in 1 .. n : f[k] = f[k - 1] + t[k]
  BY SumBySteps
<1>2. PICK g \in [0 .. n -> Int] : g[0] = 0 /\ g[n] = Sum(n, u) /\ \A k \in 1 .. n : g[k] = g[k - 1] + u[k]
  BY SumBySteps
<1> DEFINE below == {k \in 0 .. n : f[k] <= g[k]}
<1>3. 0 \in below
  BY <1>1, <1>2
<1>4. \A k \in 1 .. n : k - 1 \in below => k \in below
  BY <1>1, <1>2
<1>5. \A k \in 0 .. n : k \in below
  <2> HIDE DEF below
  <2> QED BY <1>3, <1>4, UpTo
<1> QED
  BY <1>1, <1>2, <1>5

\* A sum of multiples is the multiple of the sum.
LEMMA SumScaled ==
  ASSUME NEW n \in Nat, NEW t \in [1 .. n -> Int], NEW u \in [1 .. n -> Int], NEW c \in Int,
         \A k \in 1 .. n : u[k] = c * t[k]
  PROVE  Sum(n, u) = c * Sum(n, t)
<1>1. PICK f \in [0 .. n -> Int] : f[0] = 0 /\ f[n] = Sum(n, t) /\ \A k \in 1 .. n : f[k] = f[k - 1] + t[k]
  BY SumBySteps
<1>2. PICK g \in [0 .. n -> Int] : g[0] = 0 /\ g[n] = Sum(n, u) /\ \A k \in 1 .. n : g[k] = g[k - 1] + u[k]
  BY SumBySteps
<1> DEFINE scaled == {k \in 0 .. n : g[k] = c * f[k]}
<1>3. 0 \in scaled
  BY <1>1, <1>2
<1>4. ASSUME NEW k \in 1 .. n, k - 1 \in scaled PROVE k \in scaled
  <2>1. g[k] = c * f[k - 1] + c * t[k]
    BY <1>2, <1>4
  <2>2. f[k - 1] \in Int /\ t[k] \in Int /\ f[k] = f[k - 1] + t[k]
    BY <1>1
  <2>3. \A a, b \in Int : c * a + c * b = c * (a + b)
    OBVIOUS
  <2> QED BY <2>1, <2>2, <2>3
<1>5. \A k \in 0 .. n : k \in scaled
  <2> HIDE DEF scaled
  <2> QED BY <1>3, <1>4, UpTo
<1> QED
  BY <1>1, <1>2, <1>5

\* One positive term among natural numbers makes the sum positive.
LEMMA SumPositive ==
  ASSUME NEW n \in Nat, NEW t \in [1 .. n -> Nat], NEW i \in 1 .. n, t[i] > 0
  PROVE  Sum(n, t) > 0
<1>0. t \in [1 .. n -> Int] /\ \A k \in 1 .. n : t[k] >= 0
  OBVIOUS
<1>1. PICK f \in [0 .. n -> Int] : f[0] = 0 /\ f[n] = Sum(n, t) /\ \A k \in 1 .. n : f[k] = f[k - 1] + t[k]
  BY <1>0, SumBySteps
<1> DEFINE P == {k \in 0 .. n : f[k] >= 0 /\ (k >= i => f[k] > 0)}
<1>2. 0 \in P
  BY <1>1
<1>3. \A k \in 1 .. n : k - 1 \in P => k \in P
  <2> SUFFICES ASSUME NEW k \in 1 .. n, k - 1 \in P PROVE k \in P
    OBVIOUS
  <2>1. k \in 0 .. n /\ f[k] = f[k - 1] + t[k] /\ t[k] >= 0 /\ f[k - 1] \in Int /\ t[k] \in Int
    BY <1>0, <1>1
  <2>2. f[k - 1] >= 0 /\ (k - 1 >= i => f[k - 1] > 0)
    OBVIOUS
  <2>3. k >= i => k - 1 >= i \/ k = i
    OBVIOUS
  <2> QED BY <2>1, <2>2, <2>3
<1>4. \A k \in 0 .. n : k \in P
  <2> HIDE DEF P
  <2> QED BY <1>2, <1>3, UpTo
<1> QED
  BY <1>1, <1>4

-----------------------------------------------------------------------------
\* What a loop collects: the items of the kept positions, something when there are any.
Gathers(list, n, S, keeps, item) ==
  /\ list \in Seq(S) /\ Len(list) <= n
  /\ \A k \in 1 .. Len(list) : \E i \in keeps : list[k] = item[i]
  /\ \A i \in keeps : \E k \in 1 .. Len(list) : list[k] = item[i]
  /\ (list = <<>> <=> keeps = {})

\* The loop gathers: by induction on the positions it has passed.
LEMMA CollectedRight ==
  ASSUME NEW n \in Nat, NEW S, NEW keeps \in SUBSET (1 .. n), NEW item, \A i \in keeps : item[i] \in S
  PROVE  Gathers(Collected(n, keeps, item), n, S, keeps, item)
<1> DEFINE Step(f) == [k \in 0 .. n |-> IF k = 0 THEN <<>>
                         ELSE IF k \in keeps THEN Append(f[k - 1], item[k]) ELSE f[k - 1]]
           upTo == CHOOSE f : f = Step(f)
           seqs == Seq(S)
           F == [k \in 1 .. n |-> [q \in seqs |-> IF k \in keeps THEN Append(q, item[k]) ELSE q]]
           none == <<>>
<1>1. none \in seqs /\ F \in [1 .. n -> [seqs -> seqs]]
  OBVIOUS
<1>2. \E f \in [0 .. n -> seqs] : f[0] = none /\ \A k \in 1 .. n : f[k] = F[k][f[k - 1]]
  <2> HIDE DEF seqs, F, none
  <2>1. Iterates(n, seqs, none, F)
    BY <1>1, IterationExists
  <2> QED BY <2>1 DEF Iterates
<1>3. PICK f \in [0 .. n -> seqs] : f[0] = none /\ \A k \in 1 .. n : f[k] = F[k][f[k - 1]]
  BY <1>2
<1>4. ASSUME NEW k \in 1 .. n
      PROVE  f[k] = IF k \in keeps THEN Append(f[k - 1], item[k]) ELSE f[k - 1]
  <2>1. f[k - 1] \in seqs /\ f[k] = F[k][f[k - 1]]
    <3> HIDE DEF seqs, F
    <3> QED BY <1>3
  <2>2. \A q \in seqs : F[k][q] = IF k \in keeps THEN Append(q, item[k]) ELSE q
    OBVIOUS
  <2> HIDE DEF seqs, F
  <2> QED BY <2>1, <2>2
<1>5. f = Step(f)
  <2>1. \A k \in 0 .. n : f[k] = Step(f)[k]
    <3>1. \A k \in 0 .. n : k # 0 => k \in 1 .. n
      OBVIOUS
    <3> HIDE DEF F
    <3> QED BY <1>3, <1>4, <3>1
  <2> HIDE DEF F
  <2> QED BY <2>1
<1>6. upTo = Step(upTo)
  <2> HIDE DEF Step
  <2> QED BY <1>5
<1>7. Collected(n, keeps, item) = upTo[n]
  BY DEF Collected
<1> HIDE DEF upTo
<1>8. upTo[0] = <<>> /\ \A k \in 1 .. n : upTo[k] = IF k \in keeps THEN Append(upTo[k - 1], item[k]) ELSE upTo[k - 1]
  <2>1. \A k \in 0 .. n : upTo[k] = IF k = 0 THEN <<>>
          ELSE IF k \in keeps THEN Append(upTo[k - 1], item[k]) ELSE upTo[k - 1]
    BY <1>6, Zenon
  <2>2. 0 \in 0 .. n /\ \A k \in 1 .. n : k \in 0 .. n /\ k # 0
    OBVIOUS
  <2> QED BY <2>1, <2>2, Zenon
<1> DEFINE Good(k) == /\ upTo[k] \in Seq(S) /\ Len(upTo[k]) <= k
                      /\ \A j \in 1 .. Len(upTo[k]) : \E i \in keeps : upTo[k][j] = item[i]
                      /\ \A i \in keeps : i <= k => \E j \in 1 .. Len(upTo[k]) : upTo[k][j] = item[i]
                      /\ Len(upTo[k]) = 0 <=> \A i \in keeps : i > k
           P == {k \in 0 .. n : Good(k)}
<1>9. Good(0)
  <2>1. upTo[0] = <<>> /\ \A i \in keeps : i > 0
    BY <1>8
  <2>2. <<>> \in Seq(S) /\ Len(<<>>) = 0
    OBVIOUS
  <2>3. \A i \in keeps : ~(i <= 0)
    OBVIOUS
  <2> QED BY <2>1, <2>2, <2>3
<1>10. ASSUME NEW k \in 1 .. n, Good(k - 1) PROVE Good(k)
  <2> DEFINE q == upTo[k - 1]
  <2>1. q \in Seq(S) /\ Len(q) \in Nat /\ Len(q) <= k - 1
    BY <1>10
  <2>2. \A j \in 1 .. Len(q) : \E i \in keeps : q[j] = item[i]
    BY <1>10
  <2>3. Len(q) = 0 <=> \A i \in keeps : i > k - 1
    BY <1>10
  <2>4. upTo[k] = IF k \in keeps THEN Append(q, item[k]) ELSE q
    BY <1>8
  <2>7. \A i \in keeps : i <= k - 1 => \E j \in 1 .. Len(q) : q[j] = item[i]
    BY <1>10
  <2> HIDE DEF q
  <2>5. CASE k \notin keeps
    <3>1. upTo[k] = q
      BY <2>4, <2>5
    <3>2. \A i \in keeps : (i > k - 1 <=> i > k) /\ (i <= k => i <= k - 1)
      <4> TAKE i \in keeps
      <4>1. i \in 1 .. n /\ i # k /\ k \in 1 .. n
        BY <2>5
      <4> QED BY <4>1
    <3>3. q \in Seq(S) /\ Len(q) <= k /\ \A j \in 1 .. Len(q) : \E i \in keeps : q[j] = item[i]
      BY <2>1, <2>2
    <3>4. Len(q) = 0 <=> \A i \in keeps : i > k
      BY <2>3, <3>2
    <3>5. \A i \in keeps : i <= k => \E j \in 1 .. Len(q) : q[j] = item[i]
      BY <2>7, <3>2
    <3> QED BY <3>1, <3>3, <3>4, <3>5
  <2>6. CASE k \in keeps
    <3>1. upTo[k] = Append(q, item[k]) /\ item[k] \in S
      BY <2>4, <2>6
    <3>2. upTo[k] \in Seq(S) /\ Len(upTo[k]) = Len(q) + 1
      BY <3>1, <2>1
    <3>3. \A j \in 1 .. Len(upTo[k]) : upTo[k][j] = IF j = Len(q) + 1 THEN item[k] ELSE q[j]
      BY <3>1, <3>2, <2>1
    <3>4. \A j \in 1 .. Len(upTo[k]) : \E i \in keeps : upTo[k][j] = item[i]
      <4> SUFFICES ASSUME NEW j \in 1 .. Len(upTo[k]) PROVE \E i \in keeps : upTo[k][j] = item[i]
        OBVIOUS
      <4>1. j = Len(q) + 1 \/ j \in 1 .. Len(q)
        BY <3>2, <2>1
      <4>2. CASE j = Len(q) + 1
        BY <4>2, <3>3, <2>6
      <4>3. CASE j \in 1 .. Len(q)
        <5>1. upTo[k][j] = q[j]
          BY <4>3, <3>3, <2>1
        <5> QED BY <5>1, <4>3, <2>2
      <4> QED BY <4>1, <4>2, <4>3
    <3>5. Len(upTo[k]) # 0 /\ ~(\A i \in keeps : i > k)
      BY <3>2, <2>1, <2>6
    <3>6. ASSUME NEW i \in keeps, i <= k PROVE \E j \in 1 .. Len(upTo[k]) : upTo[k][j] = item[i]
      <4>1. CASE i = k
        <5>1. Len(q) + 1 \in 1 .. Len(upTo[k]) /\ upTo[k][Len(q) + 1] = item[k]
          BY <3>2, <3>3, <2>1
        <5> QED BY <5>1, <4>1
      <4>2. CASE i # k
        <5>1. PICK j \in 1 .. Len(q) : q[j] = item[i]
          BY <2>7, <3>6, <4>2
        <5>2. j \in 1 .. Len(upTo[k]) /\ j # Len(q) + 1
          BY <3>2, <2>1
        <5> QED BY <5>1, <5>2, <3>3
      <4> QED BY <4>1, <4>2
    <3> QED BY <3>2, <3>4, <3>5, <3>6, <2>1
  <2> QED BY <2>5, <2>6
<1>11. \A k \in 0 .. n : k \in P
  <2>1. 0 \in P /\ \A k \in 1 .. n : k - 1 \in P => k \in P
    <3> HIDE DEF Good
    <3> QED BY <1>9, <1>10
  <2> HIDE DEF P
  <2> QED BY <2>1, UpTo
<1>12. Good(n)
  BY <1>11
<1>13. Len(upTo[n]) = 0 <=> keeps = {}
  <2>1. \A i \in keeps : ~(i > n)
    OBVIOUS
  <2> QED BY <1>12, <2>1
<1> HIDE DEF Step
<1> DEFINE list == Collected(n, keeps, item)
<1>14. /\ list \in Seq(S) /\ Len(list) <= n
       /\ \A k \in 1 .. Len(list) : \E i \in keeps : list[k] = item[i]
       /\ \A i \in keeps : \E k \in 1 .. Len(list) : list[k] = item[i]
       /\ Len(list) = 0 <=> keeps = {}
  <2>1. \A i \in keeps : i <= n
    OBVIOUS
  <2> QED BY <1>7, <1>12, <1>13, <2>1
<1> HIDE DEF list
<1>15. Len(list) = 0 <=> list = <<>>
  BY <1>14
<1> QED
  BY <1>14, <1>15 DEF list, Gathers

\* A box leads when no earlier leader overlaps it.
LEMMA LeadersRight ==
  ASSUME NEW s, Len(s) \in Nat
  PROVE  /\ Leaders(s) \subseteq 1 .. Len(s)
         /\ \A i \in 1 .. Len(s) : i \in Leaders(s) <=> \A j \in Leaders(s) : j < i => ~Overlap(s[j], s[i])
<1> DEFINE n == Len(s)
           Step(f) == [k \in 0 .. n |-> IF k = 0 THEN {}
                         ELSE IF \A j \in f[k - 1] : ~Overlap(s[j], s[k]) THEN f[k - 1] \cup {k} ELSE f[k - 1]]
           upTo == CHOOSE f : f = Step(f)
           sets == SUBSET (1 .. n)
           F == [k \in 1 .. n |-> [L \in sets |-> IF \A j \in L : ~Overlap(s[j], s[k]) THEN L \cup {k} ELSE L]]
           none == {}
<1>1. n \in Nat /\ none \in sets /\ F \in [1 .. n -> [sets -> sets]]
  OBVIOUS
<1>2. \E f \in [0 .. n -> sets] : f[0] = none /\ \A k \in 1 .. n : f[k] = F[k][f[k - 1]]
  <2> HIDE DEF sets, F, none, n
  <2>1. Iterates(n, sets, none, F)
    BY <1>1, IterationExists
  <2> QED BY <2>1 DEF Iterates
<1>3. PICK f \in [0 .. n -> sets] : f[0] = none /\ \A k \in 1 .. n : f[k] = F[k][f[k - 1]]
  BY <1>2
<1>4. ASSUME NEW k \in 1 .. n
      PROVE  f[k] = IF \A j \in f[k - 1] : ~Overlap(s[j], s[k]) THEN f[k - 1] \cup {k} ELSE f[k - 1]
  <2>1. f[k - 1] \in sets
    BY <1>3
  <2>2. f[k] = F[k][f[k - 1]]
    BY <1>3
  <2> HIDE DEF sets
  <2> QED BY <2>1, <2>2
<1>5. f = Step(f)
  <2>1. \A k \in 0 .. n : f[k] = Step(f)[k]
    <3>1. \A k \in 0 .. n : k # 0 => k \in 1 .. n
      OBVIOUS
    <3> HIDE DEF F
    <3> QED BY <1>3, <1>4, <3>1
  <2> HIDE DEF F
  <2> QED BY <2>1
<1>6. upTo = Step(upTo)
  <2> HIDE DEF Step
  <2> QED BY <1>5
<1>7. Leaders(s) = upTo[n]
  BY DEF Leaders
<1> HIDE DEF upTo
<1>8. /\ upTo[0] = {}
      /\ \A k \in 1 .. n : upTo[k] = IF \A j \in upTo[k - 1] : ~Overlap(s[j], s[k]) THEN upTo[k - 1] \cup {k} ELSE upTo[k - 1]
  <2>1. \A k \in 0 .. n : upTo[k] = IF k = 0 THEN {}
          ELSE IF \A j \in upTo[k - 1] : ~Overlap(s[j], s[k]) THEN upTo[k - 1] \cup {k} ELSE upTo[k - 1]
    BY <1>6, Zenon
  <2>2. 0 \in 0 .. n /\ \A k \in 1 .. n : k \in 0 .. n /\ k # 0
    OBVIOUS
  <2> QED BY <2>1, <2>2, Zenon
<1> DEFINE P == {k \in 0 .. n : /\ upTo[k] \subseteq 1 .. k
                                /\ \A i \in 1 .. k : i \in upTo[k] <=> \A j \in upTo[k] : j < i => ~Overlap(s[j], s[i])}
<1>9. 0 \in P
  BY <1>8
<1>10. ASSUME NEW k \in 1 .. n, k - 1 \in P PROVE k \in P
  <2> DEFINE L == upTo[k - 1]
             M == upTo[k]
  <2>1. L \subseteq 1 .. k - 1
    BY <1>10
  <2>2. \A i \in 1 .. k - 1 : i \in L <=> \A j \in L : j < i => ~Overlap(s[j], s[i])
    BY <1>10
  <2>3. M = IF \A j \in L : ~Overlap(s[j], s[k]) THEN L \cup {k} ELSE L
    BY <1>8
  <2> HIDE DEF L, M
  <2>4. M \subseteq 1 .. k /\ \A j \in 1 .. k - 1 : j \in M <=> j \in L
    BY <2>1, <2>3
  <2>5. \A i \in 1 .. k - 1 : i \in M <=> \A j \in M : j < i => ~Overlap(s[j], s[i])
    <3>1. \A i \in 1 .. k - 1 : \A j \in M : j < i => j \in L
      BY <2>4
    <3>2. L \subseteq M
      BY <2>3
    <3> QED BY <3>1, <3>2, <2>2, <2>4
  <2>6. k \in M <=> \A j \in M : j < k => ~Overlap(s[j], s[k])
    <3>1. k \notin L /\ \A j \in L : j < k
      BY <2>1
    <3> QED BY <3>1, <2>3, <2>4
  <2>7. \A i \in 1 .. k : i \in M <=> \A j \in M : j < i => ~Overlap(s[j], s[i])
    <3>1. \A i \in 1 .. k : i = k \/ i \in 1 .. k - 1
      OBVIOUS
    <3> QED BY <3>1, <2>5, <2>6
  <2> QED BY <2>4, <2>7 DEF M
<1>11. \A k \in 0 .. n : k \in P
  <2> HIDE DEF P
  <2> QED BY <1>1, <1>9, <1>10, UpTo
<1>12. n \in P
  BY <1>11
<1> HIDE DEF Step
<1> QED
  BY <1>7, <1>12

-----------------------------------------------------------------------------
\* Averages.

\* The quotient of a number between two multiples is between their factors.
LEMMA QuotientBetween ==
  ASSUME NEW a \in Int, NEW lo \in Int, NEW hi \in Int, NEW total \in Nat \ {0},
         lo * total <= a, a <= hi * total
  PROVE  lo <= a \div total /\ a \div total <= hi
<1> DEFINE q == a \div total
<1>1. q \in Int /\ total * q <= a /\ a < total * (q + 1)
  OBVIOUS
<1> HIDE DEF q
<1>2. \A b, c \in Int : b <= c => total * b <= total * c
  OBVIOUS
<1>3. ~(q + 1 <= lo)
  <2> SUFFICES ASSUME q + 1 <= lo PROVE FALSE
    OBVIOUS
  <2>1. total * (q + 1) <= total * lo
    BY <1>1, <1>2
  <2>2. total * lo = lo * total
    OBVIOUS
  <2> QED BY <1>1, <2>1, <2>2
<1>4. ~(hi + 1 <= q)
  <2> SUFFICES ASSUME hi + 1 <= q PROVE FALSE
    OBVIOUS
  <2>1. total * (hi + 1) <= total * q
    BY <1>1, <1>2
  <2>2. total * (hi + 1) = hi * total + total
    OBVIOUS
  <2> QED BY <1>1, <2>1, <2>2
<1> QED
  BY <1>1, <1>3, <1>4 DEF q

\* Division by a positive number keeps the order.
LEMMA QuotientMonotonic ==
  ASSUME NEW a \in Int, NEW b \in Int, NEW total \in Nat \ {0}, a <= b
  PROVE  a \div total <= b \div total
<1> DEFINE q == a \div total
<1>1. q \in Int /\ total * q <= a
  OBVIOUS
<1> HIDE DEF q
<1>2. q * total <= b /\ b <= (IF b >= 0 THEN b ELSE 0) * total
  <2>1. total * q = q * total
    BY <1>1
  <2>2. \A c \in Nat : c <= c * total
    OBVIOUS
  <2> QED BY <1>1, <2>1, <2>2
<1>3. q <= b \div total
  BY <1>1, <1>2, QuotientBetween
<1> QED
  BY <1>3 DEF q

\* The sum over a group of what each member has, by weight.
Weighted(n, group, part, weight) ==
  Sum(n, [i \in 1 .. n |-> IF i \in group THEN part[i] * weight[i] ELSE 0])

\* The weights of a group that has a member add up to something positive.
LEMMA WeightedOnes ==
  ASSUME NEW n \in Nat, NEW group \in SUBSET (1 .. n), group # {}, NEW weight \in [1 .. n -> Nat \ {0}]
  PROVE  Weighted(n, group, [i \in 1 .. n |-> 1], weight) \in Nat \ {0}
<1> DEFINE ones == [i \in 1 .. n |-> 1]
           t == [i \in 1 .. n |-> IF i \in group THEN ones[i] * weight[i] ELSE 0]
<1>1. t \in [1 .. n -> Nat]
  OBVIOUS
<1>2. PICK i \in group : TRUE
  OBVIOUS
<1>3. i \in 1 .. n /\ t[i] > 0
  OBVIOUS
<1>4. t \in [1 .. n -> Int]
  BY <1>1
<1>5. Weighted(n, group, ones, weight) = Sum(n, t)
  BY DEF Weighted
<1> HIDE DEF t, ones
<1>6. Sum(n, t) \in Int /\ Sum(n, t) > 0
  BY <1>1, <1>3, <1>4, SumIsInt, SumPositive
<1> QED
  BY <1>5, <1>6 DEF ones

\* Larger parts of the members give a larger weighted sum.
LEMMA WeightedMonotonic ==
  ASSUME NEW n \in Nat, NEW group \in SUBSET (1 .. n), NEW weight \in [1 .. n -> Nat \ {0}],
         NEW p \in [1 .. n -> Int], NEW q \in [1 .. n -> Int], \A i \in group : p[i] <= q[i]
  PROVE  Weighted(n, group, p, weight) <= Weighted(n, group, q, weight)
<1> DEFINE t == [i \in 1 .. n |-> IF i \in group THEN p[i] * weight[i] ELSE 0]
           u == [i \in 1 .. n |-> IF i \in group THEN q[i] * weight[i] ELSE 0]
<1>1. t \in [1 .. n -> Int] /\ u \in [1 .. n -> Int]
  OBVIOUS
<1>2. ASSUME NEW i \in 1 .. n PROVE t[i] <= u[i]
  <2>1. \A a, b \in Int : \A w \in Nat : a <= b => a * w <= b * w
    OBVIOUS
  <2>2. CASE i \in group
    <3>1. p[i] \in Int /\ q[i] \in Int /\ weight[i] \in Nat /\ p[i] <= q[i]
      BY <2>2
    <3>2. t[i] = p[i] * weight[i] /\ u[i] = q[i] * weight[i]
      BY <2>2
    <3> QED BY <2>1, <3>1, <3>2
  <2>3. CASE i \notin group
    BY <2>3
  <2> QED BY <2>2, <2>3
<1>3. Weighted(n, group, p, weight) = Sum(n, t) /\ Weighted(n, group, q, weight) = Sum(n, u)
  BY DEF Weighted
<1> HIDE DEF t, u
<1> QED
  BY <1>1, <1>2, <1>3, SumMonotonic

\* A weighted sum of integers is one.
LEMMA WeightedIsInt ==
  ASSUME NEW n \in Nat, NEW group \in SUBSET (1 .. n), NEW weight \in [1 .. n -> Nat \ {0}], NEW p \in [1 .. n -> Int]
  PROVE  Weighted(n, group, p, weight) \in Int
<1> DEFINE t == [i \in 1 .. n |-> IF i \in group THEN p[i] * weight[i] ELSE 0]
<1>1. t \in [1 .. n -> Int]
  OBVIOUS
<1>2. Weighted(n, group, p, weight) = Sum(n, t)
  BY DEF Weighted
<1> HIDE DEF t
<1> QED
  BY <1>1, <1>2, SumIsInt

\* The sum of a constant is the constant as often as the weights say.
LEMMA WeightedConstant ==
  ASSUME NEW n \in Nat, NEW group \in SUBSET (1 .. n), NEW weight \in [1 .. n -> Nat \ {0}], NEW c \in Int
  PROVE  Weighted(n, group, [i \in 1 .. n |-> c], weight) = c * Weighted(n, group, [i \in 1 .. n |-> 1], weight)
<1> DEFINE t == [i \in 1 .. n |-> IF i \in group THEN [k \in 1 .. n |-> 1][i] * weight[i] ELSE 0]
           u == [i \in 1 .. n |-> IF i \in group THEN [k \in 1 .. n |-> c][i] * weight[i] ELSE 0]
<1>1. t \in [1 .. n -> Int] /\ u \in [1 .. n -> Int]
  OBVIOUS
<1>2. ASSUME NEW i \in 1 .. n PROVE u[i] = c * t[i]
  <2>1. CASE i \in group
    <3>1. t[i] = 1 * weight[i] /\ u[i] = c * weight[i] /\ weight[i] \in Nat
      BY <2>1
    <3> QED BY <3>1
  <2>2. CASE i \notin group
    BY <2>2
  <2> QED BY <2>1, <2>2
<1>3. Weighted(n, group, [i \in 1 .. n |-> 1], weight) = Sum(n, t)
      /\ Weighted(n, group, [i \in 1 .. n |-> c], weight) = Sum(n, u)
  BY DEF Weighted
<1> HIDE DEF t, u
<1>4. Sum(n, u) = c * Sum(n, t)
  BY <1>1, <1>2, SumScaled
<1> QED
  BY <1>3, <1>4

\* A weighted average lies between bounds of what it is the average of.
LEMMA AverageBetween ==
  ASSUME NEW n \in Nat, NEW group \in SUBSET (1 .. n), group # {}, NEW weight \in [1 .. n -> Nat \ {0}],
         NEW p \in [1 .. n -> Int], NEW lo \in Int, NEW hi \in Int,
         \A i \in group : lo <= p[i] /\ p[i] <= hi
  PROVE  LET average == Weighted(n, group, p, weight) \div Weighted(n, group, [i \in 1 .. n |-> 1], weight)
         IN  average \in Int /\ lo <= average /\ average <= hi
<1> DEFINE total == Weighted(n, group, [i \in 1 .. n |-> 1], weight)
           low == [i \in 1 .. n |-> lo]
           high == [i \in 1 .. n |-> hi]
<1>1. total \in Nat \ {0}
  BY WeightedOnes
<1>2. Weighted(n, group, low, weight) = lo * total /\ Weighted(n, group, high, weight) = hi * total
  BY WeightedConstant
<1>3. low \in [1 .. n -> Int] /\ high \in [1 .. n -> Int] /\ \A i \in group : low[i] <= p[i] /\ p[i] <= high[i]
  OBVIOUS
<1> HIDE DEF low, high, total
<1>4. Weighted(n, group, low, weight) <= Weighted(n, group, p, weight)
      /\ Weighted(n, group, p, weight) <= Weighted(n, group, high, weight)
  BY <1>3, WeightedMonotonic
<1>5. Weighted(n, group, p, weight) \in Int
  BY WeightedIsInt
<1>6. Weighted(n, group, p, weight) \div total \in Int
  BY <1>1, <1>5
<1> QED
  BY <1>1, <1>2, <1>4, <1>5, <1>6, QuotientBetween DEF total

\* Larger parts of the members give a larger average.
LEMMA AverageMonotonic ==
  ASSUME NEW n \in Nat, NEW group \in SUBSET (1 .. n), group # {}, NEW weight \in [1 .. n -> Nat \ {0}],
         NEW p \in [1 .. n -> Int], NEW q \in [1 .. n -> Int], \A i \in group : p[i] <= q[i]
  PROVE  LET total == Weighted(n, group, [i \in 1 .. n |-> 1], weight)
         IN  Weighted(n, group, p, weight) \div total <= Weighted(n, group, q, weight) \div total
BY WeightedOnes, WeightedMonotonic, WeightedIsInt, QuotientMonotonic

-----------------------------------------------------------------------------
\* The boxes of a detector of size w by h, with and without a score.
FastBoxes(w, h) ==
  {b \in [x1 : 0 .. w, y1 : 0 .. h, x2 : 0 .. w, y2 : 0 .. h, score : Nat \ {0}] : b.x1 <= b.x2 /\ b.y1 <= b.y2}
FastFaces(w, h) ==
  {b \in [x1 : 0 .. w, y1 : 0 .. h, x2 : 0 .. w, y2 : 0 .. h] : b.x1 <= b.x2 /\ b.y1 <= b.y2}

\* What is in memory for an anchor is a box with a score, or without.
LEMMA MemoryRight ==
  ASSUME NEW k \in Nat, NEW mem \in Memory(k)
  PROVE  /\ DOMAIN mem = 1 .. k
         /\ \A i \in 1 .. k :
              /\ mem[i].x1 \in Int /\ mem[i].y1 \in Int /\ mem[i].x2 \in Int /\ mem[i].y2 \in Int
              /\ mem[i].x1 <= mem[i].x2 /\ mem[i].y1 <= mem[i].y2 /\ mem[i].score \in Nat
<1> DEFINE OfBox(b, s) == [x1 |-> b.x1, y1 |-> b.y1, x2 |-> b.x2, y2 |-> b.y2, score |-> s]
<1>1. DOMAIN mem = 1 .. k
  BY DEF Memory
<1>2. ASSUME NEW i \in 1 .. k
      PROVE  mem[i] = NoFace \/ \E b \in Boxes, s \in Scores : mem[i] = OfBox(b, s)
  BY DEF Memory
<1>3. ASSUME NEW b \in Boxes
      PROVE  b.x1 \in Int /\ b.y1 \in Int /\ b.x2 \in Int /\ b.y2 \in Int /\ b.x1 <= b.x2 /\ b.y1 <= b.y2
  BY FastAssumption
<1>4. Scores \subseteq Nat
  BY FastAssumption
<1>5. ASSUME NEW i \in 1 .. k
      PROVE  /\ mem[i].x1 \in Int /\ mem[i].y1 \in Int /\ mem[i].x2 \in Int /\ mem[i].y2 \in Int
             /\ mem[i].x1 <= mem[i].x2 /\ mem[i].y1 <= mem[i].y2 /\ mem[i].score \in Nat
  <2>1. CASE mem[i] = NoFace
    BY <2>1 DEF NoFace
  <2>2. ASSUME NEW b \in Boxes, NEW s \in Scores, mem[i] = OfBox(b, s)
        PROVE  /\ mem[i].x1 = b.x1 /\ mem[i].y1 = b.y1 /\ mem[i].x2 = b.x2 /\ mem[i].y2 = b.y2
               /\ mem[i].score = s
    BY <2>2
  <2> HIDE DEF OfBox
  <2> QED BY <1>2, <1>3, <1>4, <2>1, <2>2
<1> QED
  BY <1>1, <1>5

\* Clipping leaves a box on the image.
LEMMA ClipRight ==
  ASSUME NEW size \in Nat, NEW a \in Int, NEW b \in Int, a <= b
  PROVE  Clip(a, size) \in 0 .. size /\ Clip(b, size) \in 0 .. size /\ Clip(a, size) <= Clip(b, size)
BY DEF Clip

\* A clipped box is on the image of the detector.
LEMMA ClippedRight ==
  ASSUME NEW d, d.w \in Nat, d.h \in Nat, NEW b,
         b.x1 \in Int, b.y1 \in Int, b.x2 \in Int, b.y2 \in Int, b.x1 <= b.x2, b.y1 <= b.y2, b.score \in Nat \ {0}
  PROVE  Clipped(d, b) \in FastBoxes(d.w, d.h)
BY ClipRight DEF Clipped, FastBoxes

\* The boxes of a list: on the image of the detector, and those of the memory above its threshold.
Holds(list, d, mem) ==
  /\ list \in Seq(FastBoxes(d.w, d.h))
  /\ {list[i] : i \in DOMAIN list} = {Clipped(d, mem[i]) : i \in Above(d, mem, d.num_anchors)}

\* generateBBox collects boxes on the image of the detector: those above the threshold.
LEMMA DecodedRight ==
  ASSUME NEW d, d.w \in Nat, d.h \in Nat, d.score \in Nat, d.num_anchors \in Nat,
         NEW k \in Nat, d.num_anchors <= k, NEW mem \in Memory(k)
  PROVE  Holds(Decoded(d, mem), d, mem)
<1> DEFINE S == FastBoxes(d.w, d.h)
           n == d.num_anchors
           keeps == Above(d, mem, n)
           item == [i \in DOMAIN mem |-> Clipped(d, mem[i])]
           list == Collected(n, keeps, item)
<1>1. DOMAIN mem = 1 .. k /\ keeps \in SUBSET (1 .. n) /\ n \in Nat
  BY MemoryRight DEF Above
<1>2. ASSUME NEW i \in keeps PROVE item[i] = Clipped(d, mem[i]) /\ item[i] \in S
  <2>1. i \in 1 .. k /\ mem[i].score > d.score
    BY DEF Above
  <2>2. /\ mem[i].x1 \in Int /\ mem[i].y1 \in Int /\ mem[i].x2 \in Int /\ mem[i].y2 \in Int
        /\ mem[i].x1 <= mem[i].x2 /\ mem[i].y1 <= mem[i].y2 /\ mem[i].score \in Nat
    BY <2>1, MemoryRight
  <2>3. mem[i].score \in Nat \ {0}
    BY <2>1, <2>2
  <2>4. Clipped(d, mem[i]) \in S
    BY <2>2, <2>3, ClippedRight
  <2> QED BY <1>1, <2>1, <2>4
<1>3. Decoded(d, mem) = list
  BY DEF Decoded
<1>4. /\ list \in Seq(S)
      /\ \A j \in 1 .. Len(list) : \E i \in keeps : list[j] = item[i]
      /\ \A i \in keeps : \E j \in 1 .. Len(list) : list[j] = item[i]
  <2>1. \A i \in keeps : item[i] \in S
    BY <1>2
  <2>2. list = Collected(n, keeps, item)
    OBVIOUS
  <2> HIDE DEF keeps, item, S, n, list
  <2>3. n \in Nat /\ keeps \in SUBSET (1 .. n)
    BY <1>1
  <2>4. Gathers(list, n, S, keeps, item)
    BY <2>1, <2>2, <2>3, CollectedRight
  <2> QED BY <2>4 DEF Gathers
<1> HIDE DEF list, keeps, S, n
<1>5. DOMAIN list = 1 .. Len(list)
  BY <1>4
<1> HIDE DEF item
<1>6. {list[j] : j \in DOMAIN list} = {item[i] : i \in keeps}
  <2>1. \A j \in DOMAIN list : \E i \in keeps : list[j] = item[i]
    BY <1>4, <1>5
  <2>2. \A i \in keeps : \E j \in DOMAIN list : item[i] = list[j]
    BY <1>4, <1>5
  <2>3. ASSUME NEW x PROVE x \in {list[j] : j \in DOMAIN list} <=> x \in {item[i] : i \in keeps}
    <3>1. ASSUME NEW j \in DOMAIN list, x = list[j] PROVE \E i \in keeps : x = item[i]
      BY <2>1, <3>1
    <3>2. ASSUME NEW i \in keeps, x = item[i] PROVE \E j \in DOMAIN list : x = list[j]
      BY <2>2, <3>2
    <3> QED BY <3>1, <3>2, Zenon
  <2> QED BY <2>3, Zenon
<1>7. {item[i] : i \in keeps} = {Clipped(d, mem[i]) : i \in keeps}
  BY <1>2
<1> QED
  BY <1>3, <1>4, <1>6, <1>7 DEF S, keeps, n, Holds

\* Sorting moves boxes about.
LEMMA SortedRight ==
  ASSUME NEW S, NEW c \in Seq(S), NEW s \in Sorted(c)
  PROVE  s \in Seq(S) /\ Len(s) = Len(c) /\ \A i \in 1 .. Len(c) : \E j \in 1 .. Len(c) : s[i] = c[j]
<1>1. PICK p \in [DOMAIN c -> DOMAIN c] : s = [i \in DOMAIN c |-> c[p[i]]]
  BY DEF Sorted
<1>2. Len(c) \in Nat /\ DOMAIN c = 1 .. Len(c) /\ c \in [1 .. Len(c) -> S]
  OBVIOUS
<1>3. s \in [1 .. Len(c) -> S]
  BY <1>1, <1>2
<1>4. s \in Seq(S) /\ Len(s) = Len(c)
  BY <1>2, <1>3
<1> QED
  BY <1>1, <1>2, <1>4

\* The average of boxes is a box, no wider than the widest.
LEMMA BlendRight ==
  ASSUME NEW w \in Nat, NEW h \in Nat, NEW s \in Seq(FastBoxes(w, h)), NEW group \in SUBSET (1 .. Len(s)), group # {}
  PROVE  /\ Blend(s, group) \in FastFaces(w, h)
         /\ \E i, j \in 1 .. Len(s) : s[i].x1 <= Blend(s, group).x1 /\ Blend(s, group).x2 <= s[j].x2
<1> DEFINE n == Len(s)
           weight == [i \in 1 .. n |-> s[i].score]
           px1 == [i \in 1 .. n |-> s[i].x1]
           py1 == [i \in 1 .. n |-> s[i].y1]
           px2 == [i \in 1 .. n |-> s[i].x2]
           py2 == [i \in 1 .. n |-> s[i].y2]
           ones == [i \in 1 .. n |-> 1]
           Mean(p) == Weighted(n, group, p, weight) \div Weighted(n, group, ones, weight)
<1>1. n \in Nat /\ DOMAIN s = 1 .. n
  OBVIOUS
<1>2. ASSUME NEW i \in 1 .. n
      PROVE  /\ s[i].x1 \in 0 .. w /\ s[i].x2 \in 0 .. w /\ s[i].y1 \in 0 .. h /\ s[i].y2 \in 0 .. h
             /\ s[i].x1 <= s[i].x2 /\ s[i].y1 <= s[i].y2 /\ s[i].score \in Nat \ {0}
  <2>1. s[i] \in FastBoxes(w, h)
    OBVIOUS
  <2> QED BY <2>1 DEF FastBoxes
<1>3. weight \in [1 .. n -> Nat \ {0}] /\ px1 \in [1 .. n -> Int] /\ px2 \in [1 .. n -> Int]
      /\ py1 \in [1 .. n -> Int] /\ py2 \in [1 .. n -> Int]
  BY <1>2
<1>4. Blend(s, group) = [x1 |-> Mean(px1), y1 |-> Mean(py1), x2 |-> Mean(px2), y2 |-> Mean(py2)]
  <2>1. ASSUME NEW p
        PROVE  Sum(n, [i \in DOMAIN s |-> IF i \in group THEN p[i] * Weight(s[i].score) ELSE 0]) = Weighted(n, group, p, weight)
    <3>1. [i \in DOMAIN s |-> IF i \in group THEN p[i] * Weight(s[i].score) ELSE 0]
            = [i \in 1 .. n |-> IF i \in group THEN p[i] * weight[i] ELSE 0]
      BY <1>1 DEF Weight
    <3> QED BY <3>1 DEF Weighted
  <2>2. px1 = [i \in DOMAIN s |-> s[i].x1] /\ py1 = [i \in DOMAIN s |-> s[i].y1] /\ px2 = [i \in DOMAIN s |-> s[i].x2]
        /\ py2 = [i \in DOMAIN s |-> s[i].y2] /\ ones = [i \in DOMAIN s |-> 1]
    BY <1>1
  <2> DEFINE over(p) == Sum(Len(s), [i \in DOMAIN s |-> IF i \in group THEN p[i] * Weight(s[i].score) ELSE 0])
  <2>3. Blend(s, group) = [x1 |-> over(px1) \div over(ones), y1 |-> over(py1) \div over(ones),
                           x2 |-> over(px2) \div over(ones), y2 |-> over(py2) \div over(ones)]
    <3> HIDE DEF px1, px2, py1, py2, ones, weight, n
    <3> QED BY <2>2 DEF Blend
  <2>4. \A p : over(p) = Weighted(n, group, p, weight)
    BY <2>1
  <2> HIDE DEF over, px1, px2, py1, py2, ones
  <2> QED BY <2>3, <2>4
<1>5. \A i \in group : /\ 0 <= px1[i] /\ px1[i] <= w /\ 0 <= px2[i] /\ px2[i] <= w /\ px1[i] <= px2[i]
                       /\ 0 <= py1[i] /\ py1[i] <= h /\ 0 <= py2[i] /\ py2[i] <= h /\ py1[i] <= py2[i]
  BY <1>2
<1>6. ASSUME NEW p \in [1 .. n -> Int], NEW lo \in Int, NEW hi \in Int, \A i \in group : lo <= p[i] /\ p[i] <= hi
      PROVE  Mean(p) \in Int /\ lo <= Mean(p) /\ Mean(p) <= hi
  <2>1. n \in Nat /\ group \in SUBSET (1 .. n) /\ group # {} /\ weight \in [1 .. n -> Nat \ {0}]
    BY <1>1, <1>3
  <2> HIDE DEF weight, n
  <2> QED BY <2>1, <1>6, AverageBetween
<1>7. ASSUME NEW p \in [1 .. n -> Int], NEW q \in [1 .. n -> Int], \A i \in group : p[i] <= q[i]
      PROVE  Mean(p) <= Mean(q)
  <2>1. n \in Nat /\ group \in SUBSET (1 .. n) /\ group # {} /\ weight \in [1 .. n -> Nat \ {0}]
    BY <1>1, <1>3
  <2> HIDE DEF weight, n
  <2> QED BY <2>1, <1>7, AverageMonotonic
<1>8. \A i \in 1 .. n : px1[i] = s[i].x1 /\ px2[i] = s[i].x2
  OBVIOUS
<1> HIDE DEF Mean, px1, px2, py1, py2, n, weight, ones
<1>9. Mean(px1) \in 0 .. w /\ Mean(px2) \in 0 .. w /\ Mean(px1) <= Mean(px2)
  <2>1. Mean(px1) \in Int /\ 0 <= Mean(px1) /\ Mean(px1) <= w
    <3>1. 0 \in Int /\ w \in Int /\ \A i \in group : 0 <= px1[i] /\ px1[i] <= w
      BY <1>5
    <3> QED BY <3>1, <1>3, <1>6
  <2>2. Mean(px2) \in Int /\ 0 <= Mean(px2) /\ Mean(px2) <= w
    <3>1. 0 \in Int /\ w \in Int /\ \A i \in group : 0 <= px2[i] /\ px2[i] <= w
      BY <1>5
    <3> QED BY <3>1, <1>3, <1>6
  <2>3. Mean(px1) <= Mean(px2)
    BY <1>3, <1>5, <1>7
  <2> QED BY <2>1, <2>2, <2>3
<1>10. Mean(py1) \in 0 .. h /\ Mean(py2) \in 0 .. h /\ Mean(py1) <= Mean(py2)
  <2>1. Mean(py1) \in Int /\ 0 <= Mean(py1) /\ Mean(py1) <= h
    <3>1. 0 \in Int /\ h \in Int /\ \A i \in group : 0 <= py1[i] /\ py1[i] <= h
      BY <1>5
    <3> QED BY <3>1, <1>3, <1>6
  <2>2. Mean(py2) \in Int /\ 0 <= Mean(py2) /\ Mean(py2) <= h
    <3>1. 0 \in Int /\ h \in Int /\ \A i \in group : 0 <= py2[i] /\ py2[i] <= h
      BY <1>5
    <3> QED BY <3>1, <1>3, <1>6
  <2>3. Mean(py1) <= Mean(py2)
    BY <1>3, <1>5, <1>7
  <2> QED BY <2>1, <2>2, <2>3
<1>11. Blend(s, group).x1 = Mean(px1) /\ Blend(s, group).x2 = Mean(px2)
  BY <1>4
<1>12. \E i \in 1 .. n : s[i].x1 <= Mean(px1)
  <2> SUFFICES ASSUME \A i \in 1 .. n : Mean(px1) + 1 <= s[i].x1 PROVE FALSE
    BY <1>2, <1>9
  <2> DEFINE more == Mean(px1) + 1
  <2>1. more \in Int /\ w \in Int
    BY <1>9
  <2>2. \A i \in group : more <= px1[i] /\ px1[i] <= w
    BY <1>5, <1>8 DEF n
  <2>3. more <= Mean(px1)
    <3> HIDE DEF more
    <3> QED BY <2>1, <2>2, <1>3, <1>6
  <2> QED BY <2>3, <1>9
<1>13. \E j \in 1 .. n : Mean(px2) <= s[j].x2
  <2> SUFFICES ASSUME \A i \in 1 .. n : s[i].x2 <= Mean(px2) - 1 PROVE FALSE
    BY <1>2, <1>9
  <2> DEFINE less == Mean(px2) - 1
  <2>1. 0 \in Int /\ less \in Int
    BY <1>9
  <2>2. \A i \in group : 0 <= px2[i] /\ px2[i] <= less
    BY <1>5, <1>8 DEF n
  <2>3. Mean(px2) <= less
    <3> HIDE DEF less
    <3> QED BY <2>1, <2>2, <1>3, <1>6
  <2> QED BY <2>3, <1>9
<1>14. Blend(s, group) \in FastFaces(w, h)
  BY <1>4, <1>9, <1>10 DEF FastFaces
<1> QED
  BY <1>11, <1>12, <1>13, <1>14 DEF n

\* A group has its leader, and there is a leader when there is a box.
THEOREM MergedRight ==
  ASSUME NEW w \in Nat, NEW h \in Nat, NEW s \in Seq(FastBoxes(w, h))
  PROVE  /\ Merged(s) \in Seq(FastFaces(w, h))
         /\ Len(Merged(s)) <= Len(s)
         /\ Merged(s) = <<>> <=> s = <<>>
         /\ \A k \in 1 .. Len(Merged(s)) : \E i, j \in 1 .. Len(s) :
              s[i].x1 <= Merged(s)[k].x1 /\ Merged(s)[k].x2 <= s[j].x2
<1> DEFINE n == Len(s)
           leaders == Leaders(s)
           item == [i \in DOMAIN s |-> Blend(s, Group(s, leaders, i))]
           S == {b \in FastFaces(w, h) : \E i, j \in 1 .. n : s[i].x1 <= b.x1 /\ b.x2 <= s[j].x2}
<1>1. n \in Nat /\ DOMAIN s = 1 .. n
  OBVIOUS
<1>2. leaders \in SUBSET (1 .. n) /\ \A i \in 1 .. n : i \in leaders <=> \A j \in leaders : j < i => ~Overlap(s[j], s[i])
  BY <1>1, LeadersRight
<1>3. ASSUME NEW i \in 1 .. n PROVE Blend(s, Group(s, leaders, i)) \in S
  <2>1. Group(s, leaders, i) \in SUBSET (1 .. n) /\ Group(s, leaders, i) # {}
    BY <1>1 DEF Group
  <2> HIDE DEF leaders
  <2> QED BY <2>1, BlendRight
<1>4. item \in [1 .. n -> S]
  BY <1>1, <1>3
<1>5. Merged(s) = Collected(n, leaders, item)
  BY DEF Merged
<1>6. leaders = {} <=> n = 0
  <2>1. n # 0 => 1 \in 1 .. n
    BY <1>1
  <2>2. \A j \in leaders : ~(j < 1)
    BY <1>2
  <2> HIDE DEF leaders, n
  <2> QED BY <2>1, <2>2, <1>2
<1> DEFINE merged == Collected(n, leaders, item)
<1>7. merged \in Seq(S) /\ Len(merged) <= n /\ (merged = <<>> <=> leaders = {})
  <2> HIDE DEF n, leaders, item, S
  <2> QED BY <1>1, <1>2, <1>4, CollectedRight DEF Gathers
<1>8. S \subseteq FastFaces(w, h)
  OBVIOUS
<1> HIDE DEF merged, leaders, item
<1>9. ASSUME NEW k \in 1 .. Len(merged) PROVE merged[k] \in S
  <2> HIDE DEF S
  <2> QED BY <1>7
<1>10. merged \in Seq(FastFaces(w, h))
  <2> HIDE DEF S
  <2> QED BY <1>7, <1>8
<1>11. n = 0 <=> s = <<>>
  OBVIOUS
<1>12. Merged(s) = merged
  BY <1>5 DEF merged
<1> QED
  BY <1>6, <1>7, <1>9, <1>10, <1>11, <1>12

\* Whether boxes overlap does not depend on which is asked first.
LEMMA OverlapSymmetric ==
  ASSUME NEW a, NEW b,
         a.x1 \in Int, a.x2 \in Int, a.y1 \in Int, a.y2 \in Int,
         b.x1 \in Int, b.x2 \in Int, b.y1 \in Int, b.y2 \in Int
  PROVE  Overlap(a, b) <=> Overlap(b, a)
<1> DEFINE W(p, q) == Side(Most(p.x1, q.x1), Least(p.x2, q.x2))
           H(p, q) == Side(Most(p.y1, q.y1), Least(p.y2, q.y2))
<1>2. W(a, b) = W(b, a) /\ H(a, b) = H(b, a)
  <2>1. \A p, q \in Int : Most(p, q) = Most(q, p) /\ Least(p, q) = Least(q, p)
    BY DEF Most, Least
  <2> QED BY <2>1
<1>3. Area(a) + Area(b) = Area(b) + Area(a)
  <2>1. Area(a) \in Int /\ Area(b) \in Int
    BY DEF Area, Side
  <2> QED BY <2>1
<1>4. Overlap(a, b) <=> /\ H(a, b) > 0 /\ W(a, b) > 0
                        /\ W(a, b) * H(a, b) * 100 > Iou * (Area(a) + Area(b) - W(a, b) * H(a, b))
  BY DEF Overlap
<1>5. Overlap(b, a) <=> /\ H(b, a) > 0 /\ W(b, a) > 0
                        /\ W(b, a) * H(b, a) * 100 > Iou * (Area(b) + Area(a) - W(b, a) * H(b, a))
  BY DEF Overlap
<1>6. W(a, b) \in Int /\ H(a, b) \in Int
  BY DEF Side, Most, Least
<1>7. Area(a) \in Int /\ Area(b) \in Int
  BY DEF Side, Area
<1>8. Iou \in Int
  BY FastAssumption
<1> HIDE DEF W, H
<1> QED
  BY <1>2, <1>3, <1>4, <1>5, <1>6, <1>7, <1>8

\* Every box is in the group of the first leader that is it or overlaps it, and in no other.
LEMMA GroupsDivide ==
  ASSUME NEW w \in Nat, NEW h \in Nat, NEW s \in Seq(FastBoxes(w, h))
  PROVE  LET leaders == Leaders(s)
         IN  /\ \A i \in DOMAIN s : \E l \in leaders : i \in Group(s, leaders, l)
             /\ \A l, m \in leaders : l # m =>
                  Group(s, leaders, l) \cap Group(s, leaders, m) = {} /\ ~Overlap(s[l], s[m])
<1> DEFINE n == Len(s)
           L == Leaders(s)
<1>1. n \in Nat /\ DOMAIN s = 1 .. n
  OBVIOUS
<1>2. L \subseteq 1 .. n
  BY <1>1, LeadersRight
<1>3. \A i \in 1 .. n : i \in L <=> \A j \in L : j < i => ~Overlap(s[j], s[i])
  BY <1>1, LeadersRight
<1> HIDE DEF L
<1>4. ASSUME NEW i \in 1 .. n PROVE \E l \in L : i \in Group(s, L, l)
  <2>1. CASE i \in L
    BY <2>1 DEF Group
  <2>2. CASE i \notin L
    <3> DEFINE over == {j \in L : j < i /\ Overlap(s[j], s[i])}
    <3>1. over # {}
      BY <2>2, <1>3
    <3>0. over \in SUBSET Nat
      <4>1. \A j \in over : j \in 1 .. n
        BY <1>2
      <4> HIDE DEF over
      <4> QED BY <4>1
    <3>2. PICK l \in over : \A j \in over : l <= j
      <4> HIDE DEF over
      <4> QED BY <3>0, <3>1, LeastNat
    <3>3. l \in L /\ l < i /\ Overlap(s[l], s[i])
      BY <3>2
    <3>4. \A j \in L : j < l => ~Overlap(s[j], s[i])
      <4> SUFFICES ASSUME NEW j \in L, j < l, Overlap(s[j], s[i]) PROVE FALSE
        OBVIOUS
      <4>1. j \in 1 .. n /\ l \in 1 .. n
        BY <1>2, <3>3
      <4>2. j \in over
        BY <3>3, <4>1
      <4> QED BY <4>1, <4>2, <3>2
    <3>5. i > l
      BY <3>3, <1>2
    <3> QED BY <3>3, <3>4, <3>5, <1>1 DEF Group
  <2> QED BY <2>1, <2>2
<1>5. ASSUME NEW l \in L, NEW m \in L, l < m
      PROVE  Group(s, L, l) \cap Group(s, L, m) = {} /\ ~Overlap(s[l], s[m])
  <2>1. l \in 1 .. n /\ m \in 1 .. n
    BY <1>2
  <2>2. ~Overlap(s[l], s[m])
    BY <1>3, <1>5, <2>1
  <2>3. ASSUME NEW i, i \in Group(s, L, l), i \in Group(s, L, m) PROVE FALSE
    <3>1. i = l \/ (i \in 1 .. n /\ i > l /\ Overlap(s[l], s[i]))
      BY <2>3, <1>1 DEF Group
    <3>2. i = m \/ (i \in 1 .. n /\ i > m /\ \A j \in L : j < m => ~Overlap(s[j], s[i]))
      BY <2>3, <1>1 DEF Group
    <3>3. i # l
      BY <3>2, <2>1, <1>5
    <3> QED BY <3>1, <3>2, <3>3, <2>2, <1>5
  <2> QED BY <2>2, <2>3
<1>6. ASSUME NEW l \in L, NEW m \in L, l # m
      PROVE  Group(s, L, l) \cap Group(s, L, m) = {} /\ ~Overlap(s[l], s[m])
  <2>1. l \in 1 .. n /\ m \in 1 .. n
    BY <1>2
  <2>2. s[l] \in FastBoxes(w, h) /\ s[m] \in FastBoxes(w, h)
    BY <2>1
  <2>3. CASE l < m
    BY <2>3, <1>5
  <2>4. CASE m < l
    <3>1. Group(s, L, m) \cap Group(s, L, l) = {} /\ ~Overlap(s[m], s[l])
      BY <2>4, <1>5
    <3>2. Overlap(s[l], s[m]) <=> Overlap(s[m], s[l])
      <4> DEFINE a == s[l]
                 b == s[m]
      <4>1. /\ a.x1 \in Int /\ a.x2 \in Int /\ a.y1 \in Int /\ a.y2 \in Int
            /\ b.x1 \in Int /\ b.x2 \in Int /\ b.y1 \in Int /\ b.y2 \in Int
        <5>1. a \in FastBoxes(w, h) /\ b \in FastBoxes(w, h)
          BY <2>2
        <5> HIDE DEF a, b
        <5>2. ASSUME NEW c \in FastBoxes(w, h) PROVE c.x1 \in Int /\ c.x2 \in Int /\ c.y1 \in Int /\ c.y2 \in Int
          BY DEF FastBoxes
        <5> QED BY <5>1, <5>2
      <4> HIDE DEF a, b
      <4>2. Overlap(a, b) <=> Overlap(b, a)
        BY <4>1, OverlapSymmetric
      <4> QED BY <4>2 DEF a, b
    <3> QED BY <3>1, <3>2
  <2>5. l < m \/ m < l
    BY <2>1, <1>6
  <2> QED BY <2>3, <2>4, <2>5
<1> QED
  BY <1>1, <1>4, <1>6 DEF L

\* A count of anchors is a natural number.
LEMMA SumIsNat ==
  ASSUME NEW n \in Nat, NEW t \in [1 .. n -> Nat]
  PROVE  Sum(n, t) \in Nat
<1>1. t \in [1 .. n -> Int] /\ \A k \in 1 .. n : t[k] >= 0
  OBVIOUS
<1>2. PICK f \in [0 .. n -> Int] : f[0] = 0 /\ f[n] = Sum(n, t) /\ \A k \in 1 .. n : f[k] = f[k - 1] + t[k]
  BY <1>1, SumBySteps
<1> DEFINE counts == {k \in 0 .. n : f[k] >= 0}
<1>3. 0 \in counts /\ \A k \in 1 .. n : k - 1 \in counts => k \in counts
  BY <1>1, <1>2
<1>4. \A k \in 0 .. n : k \in counts
  <2> HIDE DEF counts
  <2> QED BY <1>3, UpTo
<1> QED
  BY <1>2, <1>4

\* A detector of any size has a number of anchors.
LEMMA AnchorsIsNat ==
  ASSUME NEW w \in Nat \ {0}, NEW h \in Nat \ {0}
  PROVE  Anchors(w, h) \in Nat
<1> DEFINE t == [i \in DOMAIN Strides |-> CeilDiv(h, Strides[i]) * CeilDiv(w, Strides[i]) * PerCell[i]]
           n == Len(Strides)
<1>1. n \in Nat /\ DOMAIN Strides = 1 .. n
  BY FastAssumption
<1>2. ASSUME NEW i \in 1 .. n
      PROVE  CeilDiv(h, Strides[i]) \in Nat /\ CeilDiv(w, Strides[i]) \in Nat /\ PerCell[i] \in Nat
  <2>1. Strides[i] \in Nat \ {0} /\ PerCell[i] \in Nat
    BY <1>1, FastAssumption
  <2>2. \A a, b \in Nat \ {0} : (a + b - 1) \div b \in Nat
    OBVIOUS
  <2> QED BY <2>1, <2>2 DEF CeilDiv
<1>3. \A a, b, c \in Nat : a * b * c \in Nat
  OBVIOUS
<1>4. t \in [1 .. n -> Nat]
  BY <1>1, <1>2, <1>3
<1>5. Anchors(w, h) = Sum(n, t)
  BY DEF Anchors
<1> HIDE DEF t, n
<1> QED
  BY <1>1, <1>4, <1>5, SumIsNat

-----------------------------------------------------------------------------
\* The detector is that of the network loaded last, its lists are of boxes on its
\* image, and what is shown is its list of results.
FastTypes ==
  /\ detector \in [w : Nat, h : Nat, score : Nat, num_anchors : Nat]
  /\ fastLoaded \subseteq FastNets /\ {latest, ran} \subseteq FastNets \cup {NoNet}
  /\ alive \in BOOLEAN

OfLatest ==
  fastLoaded # {} =>
    /\ latest \in fastLoaded
    /\ detector.w = latest.w /\ detector.h = latest.h /\ detector.num_anchors = Anchors(latest.w, latest.h)

Lists ==
  /\ bbox_collection \in Seq(FastBoxes(detector.w, detector.h))
  /\ output \in Seq(FastFaces(detector.w, detector.h))
  /\ faces = <<>> \/ faces = [k \in DOMAIN output |-> Shows(output[k])]

FastInv == FastTypes /\ OfLatest /\ Lists /\ ReadsOwnOutput /\ OnlyThisFrame

\* The invariant holds before anything is loaded.
LEMMA FastInvInit == FastInit => FastInv
<1> SUFFICES ASSUME FastInit PROVE FastInv
  OBVIOUS
<1> USE DEF FastInit
<1>1. FastTypes /\ OfLatest
  BY DEF FastTypes, OfLatest, NoDetector, NoNet
<1>2. Lists
  BY DEF Lists
<1>3. ReadsOwnOutput /\ OnlyThisFrame
  BY DEF ReadsOwnOutput, OnlyThisFrame, Overrun
<1> QED
  BY <1>1, <1>2, <1>3 DEF FastInv

\* Loading a network makes a detector of its size with empty lists.
LEMMA LoadFastKeepsInv ==
  ASSUME FastInv, NEW n \in FastNets, LoadFast(n)
  PROVE  FastInv'
<1>1. PICK t \in Thresholds : detector' = [w |-> n.w, h |-> n.h, score |-> t, num_anchors |-> Anchors(n.w, n.h)]
  BY DEF LoadFast
<1>2. /\ fastLoaded' = fastLoaded \cup {n} /\ latest' = n /\ bbox_collection' = <<>> /\ output' = <<>>
      /\ faces' = <<>> /\ found' = <<>> /\ given' = {} /\ ran' = NoNet /\ alive' = alive
  BY DEF LoadFast, Blank
<1>3. n.w \in Nat \ {0} /\ n.h \in Nat \ {0} /\ t \in Nat
  BY FastAssumption
<1>4. Anchors(n.w, n.h) \in Nat
  BY <1>3, AnchorsIsNat
<1>5. FastTypes'
  BY <1>1, <1>2, <1>3, <1>4 DEF FastInv, FastTypes
<1>6. OfLatest'
  BY <1>1, <1>2 DEF OfLatest
<1>7. Lists'
  BY <1>2 DEF Lists
<1>8. ReadsOwnOutput'
  BY <1>1, <1>2, <1>3 DEF ReadsOwnOutput, Overrun, NoDetector
<1>9. OnlyThisFrame'
  BY <1>2 DEF OnlyThisFrame
<1> QED
  BY <1>5, <1>6, <1>7, <1>8, <1>9 DEF FastInv

\* A forward fills both lists from its own frame.
LEMMA ForwardFastKeepsInv ==
  ASSUME FastInv, NEW n \in FastNets, ForwardFast(n)
  PROVE  FastInv'
<1> DEFINE w == detector.w
           h == detector.h
           own == Anchors(n.w, n.h)
           all == detector.num_anchors
<1>1. PICK mem \in Memory(Most(own, all)) :
        /\ Decodes(n, mem)
        /\ \E s \in Sorted(Decoded(detector, mem)) :
             /\ bbox_collection' = s /\ output' = Merged(s)
             /\ faces' = [k \in DOMAIN output' |-> Shows(output'[k])]
  BY DEF ForwardFast
<1>2. PICK s \in Sorted(Decoded(detector, mem)) :
        /\ bbox_collection' = s /\ output' = Merged(s)
        /\ faces' = [k \in DOMAIN output' |-> Shows(output'[k])]
  BY <1>1
<1>3. /\ n \in fastLoaded /\ ran' = n /\ found' = Decoded(detector, mem)
      /\ given' = {Clipped(detector, mem[i]) : i \in Above(detector, mem, own)}
      /\ UNCHANGED <<detector, fastLoaded, latest, alive>>
  BY <1>1 DEF Decodes
<1>4. w \in Nat /\ h \in Nat /\ all \in Nat /\ own \in Nat /\ detector.score \in Nat
  BY FastAssumption, AnchorsIsNat DEF FastInv, FastTypes
<1>5. /\ found' \in Seq(FastBoxes(w, h))
      /\ {found'[i] : i \in DOMAIN found'} = {Clipped(detector, mem[i]) : i \in Above(detector, mem, all)}
  <2> DEFINE most == Most(own, all)
             d == detector
             list == Decoded(d, mem)
  <2>1. most \in Nat /\ all <= most /\ mem \in Memory(most)
    BY <1>4 DEF Most
  <2>2. d.w \in Nat /\ d.h \in Nat /\ d.score \in Nat /\ d.num_anchors \in Nat /\ d.num_anchors = all /\ d.w = w /\ d.h = h
    BY <1>4
  <2>3. found' = list
    BY <1>3
  <2> HIDE DEF most, d, list, all, w, h
  <2>4. Holds(list, d, mem)
    <3>1. d.num_anchors <= most
      BY <2>1, <2>2
    <3> QED BY <2>1, <2>2, <3>1, DecodedRight DEF list
  <2> QED BY <2>2, <2>3, <2>4 DEF d, Holds
<1>6. s \in Seq(FastBoxes(w, h)) /\ Len(s) = Len(found') /\ \A i \in 1 .. Len(found') : \E j \in 1 .. Len(found') : s[i] = found'[j]
  BY <1>2, <1>3, <1>5, SortedRight
<1> DEFINE merged == output'
<1>7. /\ merged \in Seq(FastFaces(w, h)) /\ Len(merged) <= Len(s) /\ (merged = <<>> <=> s = <<>>)
      /\ \A k \in 1 .. Len(merged) : \E i, j \in 1 .. Len(s) : s[i].x1 <= merged[k].x1 /\ merged[k].x2 <= s[j].x2
  <2> DEFINE m == Merged(s)
  <2>1. /\ m \in Seq(FastFaces(w, h)) /\ Len(m) <= Len(s) /\ (m = <<>> <=> s = <<>>)
        /\ \A k \in 1 .. Len(m) : \E i, j \in 1 .. Len(s) : s[i].x1 <= m[k].x1 /\ m[k].x2 <= s[j].x2
    <3> HIDE DEF w, h
    <3> QED BY <1>4, <1>6, MergedRight, ZenonT(30)
  <2>2. merged = m
    BY <1>2
  <2> HIDE DEF m, merged
  <2> QED BY <2>1, <2>2
<1>8. FastTypes'
  BY <1>3 DEF FastInv, FastTypes
<1>9. OfLatest'
  <2>1. n # NoNet
    BY FastAssumption DEF NoNet
  <2> QED BY <1>3, <2>1 DEF FastInv, OfLatest
<1>10. Lists'
  BY <1>2, <1>3, <1>6, <1>7 DEF Lists
<1>11. ReadsOwnOutput'
  <2> DEFINE decoded == {found'[i] : i \in DOMAIN found'}
  <2>1. n = latest => all = own
    BY <1>3 DEF FastInv, OfLatest
  <2>2. n = latest => decoded = given'
    BY <1>3, <1>5, <2>1
  <2>3. all <= own => decoded \subseteq given'
    <3>1. all <= own => Above(detector, mem, all) \subseteq Above(detector, mem, own)
      BY <1>4 DEF Above
    <3> QED BY <1>3, <1>5, <3>1
  <2>4. Overrun' => ~(all <= own)
    BY <1>3, <1>4 DEF Overrun
  <2>5. ~Overrun' => all <= own
    <3>1. n # NoNet
      BY FastAssumption DEF NoNet
    <3> QED BY <1>3, <1>4, <3>1 DEF Overrun
  <2>6. n = latest => ~Overrun'
    BY <1>4, <2>1, <2>4
  <2>7. (fastLoaded # {} => detector # NoDetector)'
    BY <1>3 DEF FastInv, ReadsOwnOutput
  <2> HIDE DEF decoded
  <2> QED BY <1>3, <2>2, <2>3, <2>5, <2>6, <2>7 DEF ReadsOwnOutput, decoded
<1>12. OnlyThisFrame'
  <2>1. Len(faces') = Len(merged) /\ DOMAIN faces' = 1 .. Len(merged) /\ (faces' = <<>> <=> merged = <<>>)
    BY <1>2, <1>7
  <2>2. (found' = <<>> <=> s = <<>>) /\ DOMAIN found' = 1 .. Len(found')
    BY <1>5, <1>6
  <2>3. ASSUME NEW k \in 1 .. Len(merged)
        PROVE  \E i, j \in 1 .. Len(found') : found'[i].x1 <= output'[k].x1 /\ output'[k].x2 <= found'[j].x2
    <3>1. PICK i \in 1 .. Len(s), j \in 1 .. Len(s) : s[i].x1 <= output'[k].x1 /\ output'[k].x2 <= s[j].x2
      BY <1>7
    <3>2. i \in 1 .. Len(found') /\ j \in 1 .. Len(found')
      BY <1>6
    <3>3. PICK g \in 1 .. Len(found') : s[i] = found'[g]
      BY <1>6, <3>2
    <3>4. PICK l \in 1 .. Len(found') : s[j] = found'[l]
      BY <1>6, <3>2
    <3> QED BY <3>1, <3>3, <3>4
  <2> QED BY <1>6, <1>7, <2>1, <2>2, <2>3 DEF OnlyThisFrame
<1> QED
  BY <1>8, <1>9, <1>10, <1>11, <1>12 DEF FastInv

\* A forward without output shows nothing and leaves the lists.
LEMMA FastNoOutputKeepsInv ==
  ASSUME FastInv, NEW n \in FastNets, FastNoOutput(n)
  PROVE  FastInv'
<1> USE DEF FastInv, FastNoOutput, Blank
<1>1. FastTypes' /\ OfLatest'
  BY DEF FastTypes, OfLatest
<1>2. Lists'
  BY DEF Lists
<1>3. ReadsOwnOutput' /\ OnlyThisFrame'
  BY DEF ReadsOwnOutput, Overrun, OnlyThisFrame
<1> QED
  BY <1>1, <1>2, <1>3

\* A failing KPU stops the program.
LEMMA FastHaltsKeepsInv ==
  ASSUME FastInv, NEW n \in FastNets, FastHalts(n)
  PROVE  FastInv'
<1> USE DEF FastInv, FastHalts
<1>1. FastTypes' /\ OfLatest'
  BY DEF FastTypes, OfLatest
<1>2. Lists' /\ ReadsOwnOutput' /\ OnlyThisFrame'
  BY DEF Lists, ReadsOwnOutput, Overrun, OnlyThisFrame
<1> QED
  BY <1>1, <1>2

\* The inductive invariant behind the three theorems that follow.
THEOREM FastInvAlways == FastSpec => []FastInv
<1>1. FastInit => FastInv
  BY FastInvInit
<1>2. FastInv /\ [FastNext]_fastVars => FastInv'
  <2> SUFFICES ASSUME FastInv, [FastNext]_fastVars PROVE FastInv'
    OBVIOUS
  <2>1. ASSUME NEW n \in FastNets, LoadFast(n) PROVE FastInv'
    BY <2>1, LoadFastKeepsInv
  <2>2. ASSUME NEW n \in FastNets, ForwardFast(n) PROVE FastInv'
    BY <2>2, ForwardFastKeepsInv
  <2>3. ASSUME NEW n \in FastNets, FastNoOutput(n) PROVE FastInv'
    BY <2>3, FastNoOutputKeepsInv
  <2>4. ASSUME NEW n \in FastNets, FastHalts(n) PROVE FastInv'
    BY <2>4, FastHaltsKeepsInv
  <2>5. CASE UNCHANGED fastVars
    BY <2>5 DEF FastInv, FastTypes, OfLatest, Lists, ReadsOwnOutput, Overrun, OnlyThisFrame, fastVars
  <2> QED BY <2>1, <2>2, <2>3, <2>4, <2>5 DEF FastNext
<1> QED
  BY <1>1, <1>2, PTL DEF FastSpec

\* The detector and its lists are well-formed, a forward reads the output of its own
\* network when that was loaded last, and it shows its own frame.
THEOREM FrameIsOwnCorrect == FastSpec => []FrameIsOwn
<1>1. FastInv => FrameIsOwn
  <2> SUFFICES ASSUME FastInv PROVE FrameIsOwn
    OBVIOUS
  <2>1. ASSUME NEW i \in DOMAIN bbox_collection PROVE bbox_collection[i] \in FastBoxes(detector.w, detector.h)
    BY DEF FastInv, Lists
  <2>2. \A i \in DOMAIN bbox_collection :
          /\ bbox_collection[i].x1 \in 0 .. detector.w /\ bbox_collection[i].x2 \in 0 .. detector.w
          /\ bbox_collection[i].y1 \in 0 .. detector.h /\ bbox_collection[i].y2 \in 0 .. detector.h
    BY <2>1 DEF FastBoxes
  <2>3. FastTypeOK
    BY <2>2 DEF FastInv, FastTypes, FastTypeOK
  <2> QED BY <2>3 DEF FastInv, FrameIsOwn
<1> QED
  BY <1>1, FastInvAlways, PTL

\* The groups of the leaders divide the boxes, in whatever order equal scores come.
THEOREM EveryBoxOnceCorrect == FastSpec => []EveryBoxOnce
<1>1. FastInv => EveryBoxOnce
  <2> SUFFICES ASSUME FastInv PROVE EveryBoxOnce
    OBVIOUS
  <2>1. /\ detector.w \in Nat /\ detector.h \in Nat
        /\ bbox_collection \in Seq(FastBoxes(detector.w, detector.h))
    BY DEF FastInv, FastTypes, Lists
  <2> QED BY <2>1, GroupsDivide DEF EveryBoxOnce
<1> QED
  BY <1>1, FastInvAlways, PTL

\* What is shown of a box on the image is on the screen.
LEMMA ShowsOnScreen ==
  ASSUME NEW w \in Nat, NEW h \in Nat, NEW b \in FastFaces(w, h)
  PROVE  /\ Shows(b).x >= 0 /\ Shows(b).w >= 0 /\ Shows(b).x + Shows(b).w <= FastScreen.x
         /\ Shows(b).y >= 0 /\ Shows(b).h >= 0 /\ Shows(b).y + Shows(b).h <= FastScreen.y
<1>1. FastScreen.x \in Nat /\ FastScreen.y \in Nat
  BY FastAssumption
<1>2. /\ b.x1 \in Nat /\ b.x2 \in Nat /\ b.x1 <= b.x2
      /\ b.y1 \in Nat /\ b.y2 \in Nat /\ b.y1 <= b.y2
  BY DEF FastFaces
<1> QED
  BY <1>1, <1>2 DEF Shows, Least

\* Every face shown is on the screen, for any networks and any sizes of them.
THEOREM FacesOnScreenCorrect == FastSpec => []FacesOnScreen
<1>1. FastInv => FacesOnScreen
  <2> SUFFICES ASSUME FastInv, NEW k \in DOMAIN faces
               PROVE  /\ faces[k].x >= 0 /\ faces[k].w >= 0 /\ faces[k].x + faces[k].w <= FastScreen.x
                      /\ faces[k].y >= 0 /\ faces[k].h >= 0 /\ faces[k].y + faces[k].h <= FastScreen.y
    BY DEF FacesOnScreen
  <2>1. faces # <<>>
    OBVIOUS
  <2>2. k \in DOMAIN output /\ faces[k] = Shows(output[k])
    BY <2>1 DEF FastInv, Lists
  <2>3. detector.w \in Nat /\ detector.h \in Nat /\ output[k] \in FastFaces(detector.w, detector.h)
    BY <2>2 DEF FastInv, FastTypes, Lists
  <2> QED BY <2>2, <2>3, ShowsOnScreen
<1> QED
  BY <1>1, FastInvAlways, PTL
-----------------------------------------------------------------------------
\* What the length of a span is read from.
Needs(kind, f) ==
  CASE f \in {"inputs", "dims"} -> {"inputs_count"}
    [] f = "body" -> {}
    [] f = "batch_norm" -> {"layer"}
    [] f = "bias" ->
         (CASE kind \in {"conv2d", "quantized_conv2d"} -> {"out_channels"}
            [] kind = "conv2d_transpose" -> {"out_shape"}
            [] OTHER -> {"b_cols"})
    [] f = "weights" ->
         (CASE kind = "kpu_conv2d" -> {"layer"}
            [] kind = "conv2d_transpose" -> {"out_shape", "in_shape", "groups", "filter_h", "filter_w"}
            [] OTHER -> {"out_channels", "in_shape", "groups", "filter_h", "filter_w"})

\* The lists of fields are such that what deserialize reads has been read before.
Orderly(kind, fields) ==
  /\ \A i, j \in 1 .. Len(fields) : fields[i] = fields[j] => i = j
  /\ \A k \in 1 .. Len(fields) : fields[k] = "body" => k = Len(fields)
  /\ \A k \in 1 .. Len(fields) : fields[k] \in Gaps => \E j \in 1 .. k - 1 : fields[j] = "layer"
  /\ \A k \in 1 .. Len(fields) : fields[k] \in Spans =>
       \A d \in Needs(kind, fields[k]) : d \notin Gaps /\ d \notin Spans /\ \E j \in 1 .. k - 1 : fields[j] = d
  /\ \A k \in 1 .. Len(fields) : fields[k] \in Gaps \cup {"layer"} => kind = "kpu_conv2d"

\* They are, for every kind of body.
LEMMA WrittenOrderly ==
  ASSUME NEW kind \in Kinds
  PROVE  /\ Len(Written(kind)) \in Nat /\ DOMAIN Written(kind) = 1 .. Len(Written(kind))
         /\ Orderly(kind, Written(kind))
<1>1. CASE kind = "concat"
  <2>1. Written(kind) = concat_options
    BY <1>1 DEF Written
  <2>2. Len(concat_options) \in Nat /\ DOMAIN concat_options = 1 .. Len(concat_options)
    BY DEF concat_options
  <2>3. Orderly("concat", concat_options)
    BY DEF concat_options, Orderly, Needs, Gaps, Spans
  <2> QED BY <1>1, <2>1, <2>2, <2>3
<1>2. CASE kind = "conv2d"
  <2>1. Written(kind) = conv2d_options
    BY <1>2 DEF Written
  <2>2. Len(conv2d_options) \in Nat /\ DOMAIN conv2d_options = 1 .. Len(conv2d_options)
    BY DEF conv2d_options
  <2>3. Orderly("conv2d", conv2d_options)
    BY DEF conv2d_options, Orderly, Needs, Gaps, Spans
  <2> QED BY <1>2, <2>1, <2>2, <2>3
<1>3. CASE kind = "quantized_conv2d"
  <2>1. Written(kind) = quantized_conv2d_options
    BY <1>3 DEF Written
  <2>2. Len(quantized_conv2d_options) \in Nat /\ DOMAIN quantized_conv2d_options = 1 .. Len(quantized_conv2d_options)
    BY DEF quantized_conv2d_options
  <2>3. Orderly("quantized_conv2d", quantized_conv2d_options)
    BY DEF quantized_conv2d_options, Orderly, Needs, Gaps, Spans
  <2> QED BY <1>3, <2>1, <2>2, <2>3
<1>4. CASE kind = "conv2d_transpose"
  <2>1. Written(kind) = conv2d_transpose_options
    BY <1>4 DEF Written
  <2>2. Len(conv2d_transpose_options) \in Nat /\ DOMAIN conv2d_transpose_options = 1 .. Len(conv2d_transpose_options)
    BY DEF conv2d_transpose_options
  <2>3. Orderly("conv2d_transpose", conv2d_transpose_options)
    BY DEF conv2d_transpose_options, Orderly, Needs, Gaps, Spans
  <2> QED BY <1>4, <2>1, <2>2, <2>3
<1>5. CASE kind = "matmul"
  <2>1. Written(kind) = matmul_options
    BY <1>5 DEF Written
  <2>2. Len(matmul_options) \in Nat /\ DOMAIN matmul_options = 1 .. Len(matmul_options)
    BY DEF matmul_options
  <2>3. Orderly("matmul", matmul_options)
    BY DEF matmul_options, Orderly, Needs, Gaps, Spans
  <2> QED BY <1>5, <2>1, <2>2, <2>3
<1>6. CASE kind = "quantized_matmul"
  <2>1. Written(kind) = quantized_matmul_options
    BY <1>6 DEF Written
  <2>2. Len(quantized_matmul_options) \in Nat /\ DOMAIN quantized_matmul_options = 1 .. Len(quantized_matmul_options)
    BY DEF quantized_matmul_options
  <2>3. Orderly("quantized_matmul", quantized_matmul_options)
    BY DEF quantized_matmul_options, Orderly, Needs, Gaps, Spans
  <2> QED BY <1>6, <2>1, <2>2, <2>3
<1>7. CASE kind = "nnil_unary_method"
  <2>1. Written(kind) = nnil_unary_method_options
    BY <1>7 DEF Written
  <2>2. Len(nnil_unary_method_options) \in Nat /\ DOMAIN nnil_unary_method_options = 1 .. Len(nnil_unary_method_options)
    BY DEF nnil_unary_method_options
  <2>3. Orderly("nnil_unary_method", nnil_unary_method_options)
    BY DEF nnil_unary_method_options, Orderly, Needs, Gaps, Spans
  <2> QED BY <1>7, <2>1, <2>2, <2>3
<1>8. CASE kind = "kpu_conv2d"
  <2>1. Written(kind) = kpu_conv2d_options
    BY <1>8 DEF Written
  <2>2. Len(kpu_conv2d_options) \in Nat /\ DOMAIN kpu_conv2d_options = 1 .. Len(kpu_conv2d_options)
    BY DEF kpu_conv2d_options
  <2>3. Orderly("kpu_conv2d", kpu_conv2d_options)
    BY DEF kpu_conv2d_options, Orderly, Needs, Gaps, Spans
  <2> QED BY <1>8, <2>1, <2>2, <2>3
<1> QED
  BY <1>1, <1>2, <1>3, <1>4, <1>5, <1>6, <1>7, <1>8 DEF Kinds

\* The length of a span is the same for fields that agree on what it is read from;
\* that of a body is what is left.
LEMMA LengthReads ==
  ASSUME NEW kind \in Kinds, NEW f \in Spans, f # "body", NEW g, NEW h, NEW left, NEW other,
         \A d \in Needs(kind, f) : d # "layer" => g[d] = h[d],
         "layer" \in Needs(kind, f) =>
           \A d \in {"ic", "oc", "filter", "depth_wise"} : g.layer[d] = h.layer[d]
  PROVE  LengthOf(kind, f, g, left) = LengthOf(kind, f, h, other)
<1>1. CASE f \in {"inputs", "dims"}
  BY <1>1 DEF LengthOf, Needs
<1>2. CASE f = "batch_norm"
  BY <1>2 DEF LengthOf, Needs
<1>3. CASE f = "bias"
  BY <1>3 DEF LengthOf, Needs
<1>4. CASE f = "weights"
  <2>1. CASE kind = "kpu_conv2d"
    <3>1. g.layer.ic = h.layer.ic /\ g.layer.oc = h.layer.oc /\ g.layer.filter = h.layer.filter
          /\ g.layer.depth_wise = h.layer.depth_wise
      BY <1>4, <2>1 DEF Needs
    <3> QED BY <1>4, <2>1, <3>1 DEF LengthOf
  <2>2. CASE kind = "conv2d_transpose"
    <3>1. g.out_shape = h.out_shape /\ g.in_shape = h.in_shape /\ g.groups = h.groups
          /\ g.filter_h = h.filter_h /\ g.filter_w = h.filter_w
      BY <1>4, <2>2 DEF Needs
    <3> QED BY <1>4, <2>2, <3>1 DEF LengthOf
  <2>3. CASE kind \notin {"kpu_conv2d", "conv2d_transpose"}
    <3>1. g.out_channels = h.out_channels /\ g.in_shape = h.in_shape /\ g.groups = h.groups
          /\ g.filter_h = h.filter_h /\ g.filter_w = h.filter_w
      BY <1>4, <2>3 DEF Needs
    <3> QED BY <1>4, <2>3, <3>1 DEF LengthOf
  <2> QED BY <2>1, <2>2, <2>3
<1> QED
  BY <1>1, <1>2, <1>3, <1>4 DEF Spans

\* A gap has a length.
LEMMA GapIsNat ==
  ASSUME NEW x \in Nat
  PROVE  GapAt(x) \in Nat
<1>1. Alignment \in Nat \ {0}
  BY OptionsAssumption
<1>2. x % Alignment \in 0 .. Alignment - 1
  BY <1>1
<1> QED
  BY <1>1, <1>2 DEF GapAt

\* What follows a gap is aligned.
LEMMA GapAligns ==
  ASSUME NEW x \in Nat
  PROVE  (x + GapAt(x)) % Alignment = 0
<1> DEFINE q == x \div Alignment
           r == x % Alignment
<1>1. Alignment \in Nat \ {0}
  BY OptionsAssumption
<1>2. q \in Int /\ r \in 0 .. Alignment - 1 /\ x = Alignment * q + r
  BY <1>1
<1>3. \A m \in Int : (Alignment * m) % Alignment = 0
  BY <1>1
<1>4. CASE r = 0
  BY <1>1, <1>4 DEF GapAt
<1>5. CASE r # 0
  <2>1. GapAt(x) = Alignment - r
    BY <1>1, <1>2, <1>5 DEF GapAt
  <2> HIDE DEF q, r
  <2>2. x + GapAt(x) = Alignment * (q + 1)
    BY <1>1, <1>2, <2>1
  <2> QED BY <1>2, <1>3, <2>2
<1> QED
  BY <1>4, <1>5

-----------------------------------------------------------------------------
\* The field f of options o lies in the cells of s after position i; layerOut is what
\* has been written for the field of that name.
FieldLaid(o, b, s, f, i, j, layerOut) ==
  /\ f \in Spans => /\ j = i + Len(o[f])
                    /\ \A m \in 1 .. Len(o[f]) : s[i + m] = Cell(f, o[f][m])
  /\ f \in Gaps  => /\ layerOut[f] = GapAt(b + i) /\ j = i + GapAt(b + i)
                    /\ \A m \in 1 .. GapAt(b + i) : s[i + m] = Cell("gap", 0)
  /\ f \notin Spans \cup Gaps => j = i + 1 /\ s[i + 1] = Cell(f, IF f = "layer" THEN layerOut ELSE o[f])

\* A stream s holds options o: field k lies between positions p[k - 1] and p[k].
Laid(o, b, s, p, layerOut) ==
  LET fields == Written(o.kind)
  IN  /\ p \in [0 .. Len(fields) -> Nat] /\ p[0] = 0 /\ p[Len(fields)] = Len(s)
      /\ DOMAIN layerOut = DOMAIN o.layer
      /\ \A f \in DOMAIN o.layer \ Gaps : layerOut[f] = o.layer[f]
      /\ \A k \in 1 .. Len(fields) : FieldLaid(o, b, s, fields[k], p[k - 1], p[k], layerOut)

\* A field takes as many cells as it has elements, is aligned by, or one.
LEMMA CellsRight ==
  ASSUME options \in Options, base \in Bases,
         NEW k \in 1 .. Len(Written(options.kind)), NEW q, Len(q) \in Nat
  PROVE  LET f == Written(options.kind)[k]
         IN  /\ f \in Spans => /\ Len(CellsOf(f, q)) = Len(options[f]) /\ Len(options[f]) \in Nat
                               /\ \A m \in 1 .. Len(options[f]) : CellsOf(f, q)[m] = Cell(f, options[f][m])
             /\ f \in Gaps  => /\ Len(CellsOf(f, q)) = GapAt(base + Len(q)) /\ GapAt(base + Len(q)) \in Nat
                               /\ \A m \in 1 .. GapAt(base + Len(q)) : CellsOf(f, q)[m] = Cell("gap", 0)
             /\ f \notin Spans \cup Gaps => CellsOf(f, q) = << Cell(f, options[f]) >>
<1> DEFINE f == Written(options.kind)[k]
<1>1. options.kind \in Kinds
  BY OptionsAssumption
<1>2. DOMAIN Written(options.kind) = 1 .. Len(Written(options.kind))
  BY <1>1, WrittenOrderly
<1>3. f \in Spans => options[f] \in Seq(Int)
  BY <1>2, OptionsAssumption
<1>4. base + Len(q) \in Nat
  BY OptionsAssumption
<1>5. GapAt(base + Len(q)) \in Nat
  BY <1>4, GapIsNat
<1> HIDE DEF f
<1>6. CASE f \in Spans
  <2>1. f \notin Gaps
    BY <1>6 DEF Spans, Gaps
  <2>2. CellsOf(f, q) = [m \in 1 .. Len(options[f]) |-> Cell(f, options[f][m])]
    BY <1>6 DEF CellsOf
  <2>3. Len(options[f]) \in Nat
    BY <1>3, <1>6
  <2>4. Len(CellsOf(f, q)) = Len(options[f])
    BY <2>2, <2>3
  <2> QED BY <1>6, <2>1, <2>2, <2>3, <2>4 DEF f
<1>7. CASE f \in Gaps
  <2>1. f \notin Spans
    BY <1>7 DEF Spans, Gaps
  <2>2. CellsOf(f, q) = [m \in 1 .. GapAt(base + Len(q)) |-> Cell("gap", 0)]
    BY <1>7, <2>1 DEF CellsOf
  <2>3. Len(CellsOf(f, q)) = GapAt(base + Len(q))
    BY <2>2, <1>5
  <2> QED BY <1>5, <1>7, <2>1, <2>2, <2>3 DEF f
<1>8. CASE f \notin Spans \cup Gaps
  BY <1>8 DEF CellsOf, f
<1> QED
  BY <1>6, <1>7, <1>8

\* Serializing lays out the options: the partial streams exist, each begins with the
\* one before, and the layerOut has the gaps that were left.
LEMMA SerializeLays ==
  ASSUME options \in Options, base \in Bases, Serialize
  PROVE  \E p, layerOut : Laid(options, base, stream', p, layerOut)
<1> DEFINE fields == Written(options.kind)
           n == Len(fields)
           Step(f) == [k \in 0 .. n |-> IF k = 0 THEN <<>> ELSE f[k - 1] \o CellsOf(fields[k], f[k - 1])]
           at == CHOOSE f : f = Step(f)
           GapOf(f) == LET k == CHOOSE j \in DOMAIN fields : fields[j] = f IN Len(at[k]) - Len(at[k - 1])
           layerOut == [options.layer EXCEPT !.bwsx = GapOf("bwsx"), !.active = GapOf("active"), !.para = GapOf("para")]
<1>1. options.kind \in Kinds
  BY OptionsAssumption
<1>2. n \in Nat /\ DOMAIN fields = 1 .. n /\ Orderly(options.kind, fields)
  BY <1>1, WrittenOrderly
<1>3. stream' = [c \in DOMAIN at[n] |-> IF at[n][c][1] = "layer" THEN Cell("layer", layerOut) ELSE at[n][c]]
  BY DEF Serialize
<1> DEFINE C == {Cell("gap", 0)} \cup {Cell(fields[k], options[fields[k]]) : k \in 1 .. n}
                 \cup UNION {{Cell(fields[k], options[fields[k]][m]) : m \in 1 .. Len(options[fields[k]])} : k \in 1 .. n}
<1>4. ASSUME NEW k \in 1 .. n, NEW q, Len(q) \in Nat PROVE CellsOf(fields[k], q) \in Seq(C)
  <2> DEFINE f == fields[k]
             new == CellsOf(f, q)
  <2>1. f \in Spans => /\ Len(new) = Len(options[f]) /\ Len(options[f]) \in Nat
                       /\ \A m \in 1 .. Len(options[f]) : new[m] = Cell(f, options[f][m])
    BY <1>4, CellsRight
  <2>2. f \in Gaps => /\ Len(new) = GapAt(base + Len(q)) /\ GapAt(base + Len(q)) \in Nat
                      /\ \A m \in 1 .. GapAt(base + Len(q)) : new[m] = Cell("gap", 0)
    BY <1>4, CellsRight
  <2>3. f \notin Spans \cup Gaps => new = << Cell(f, options[f]) >>
    BY <1>4, CellsRight
  <2>4. f \in Spans => new = [m \in 1 .. Len(options[f]) |-> new[m]]
    BY DEF CellsOf
  <2>5. f \in Gaps => new = [m \in 1 .. GapAt(base + Len(q)) |-> new[m]]
    BY DEF CellsOf, Gaps, Spans
  <2>6. Cell(f, options[f]) \in C /\ Cell("gap", 0) \in C
    OBVIOUS
  <2>7. \A m \in 1 .. Len(options[f]) : Cell(f, options[f][m]) \in C
    OBVIOUS
  <2> HIDE DEF f, new, C
  <2>8. f \in Spans => new \in Seq(C)
    BY <2>1, <2>4, <2>7
  <2>9. f \in Gaps => new \in Seq(C)
    BY <2>2, <2>5, <2>6
  <2>10. f \notin Spans \cup Gaps => new \in Seq(C)
    <3>1. \A x \in C : << x >> \in Seq(C)
      OBVIOUS
    <3> QED BY <2>3, <2>6, <3>1
  <2> QED BY <2>8, <2>9, <2>10 DEF new, f
<1>5. at[0] = <<>> /\ \A k \in 1 .. n : at[k] = at[k - 1] \o CellsOf(fields[k], at[k - 1])
  <2> DEFINE seqs == Seq(C)
             none == <<>>
             F == [k \in 1 .. n |-> [q \in seqs |-> q \o CellsOf(fields[k], q)]]
  <2>1. none \in seqs
    OBVIOUS
  <2>2. F \in [1 .. n -> [seqs -> seqs]]
    <3>1. ASSUME NEW k \in 1 .. n, NEW q \in seqs PROVE q \o CellsOf(fields[k], q) \in seqs
      <4>1. CellsOf(fields[k], q) \in seqs
        BY <1>4
      <4> HIDE DEF C
      <4> QED BY <4>1
    <3> HIDE DEF seqs
    <3> QED BY <3>1
  <2>3. \E f \in [0 .. n -> seqs] : f[0] = none /\ \A k \in 1 .. n : f[k] = F[k][f[k - 1]]
    <3> HIDE DEF seqs, F, none, n
    <3>1. Iterates(n, seqs, none, F)
      BY <1>2, <2>1, <2>2, IterationExists
    <3> QED BY <3>1 DEF Iterates
  <2>4. PICK f \in [0 .. n -> seqs] : f[0] = none /\ \A k \in 1 .. n : f[k] = F[k][f[k - 1]]
    BY <2>3
  <2>5. ASSUME NEW k \in 1 .. n PROVE f[k] = f[k - 1] \o CellsOf(fields[k], f[k - 1])
    <3>1. f[k - 1] \in seqs /\ f[k] = F[k][f[k - 1]]
      <4> HIDE DEF seqs, F, n
      <4> QED BY <1>2, <2>4
    <3>2. \A q \in seqs : F[k][q] = q \o CellsOf(fields[k], q)
      OBVIOUS
    <3> HIDE DEF seqs, F
    <3> QED BY <3>1, <3>2
  <2>6. f = Step(f)
    <3>1. \A k \in 0 .. n : f[k] = Step(f)[k]
      <4>1. \A k \in 0 .. n : k # 0 => k \in 1 .. n
        OBVIOUS
      <4> HIDE DEF F, n, fields, seqs
      <4> QED BY <2>4, <2>5, <4>1
    <3> HIDE DEF F, seqs
    <3> QED BY <3>1
  <2>7. at = Step(at)
    <3> HIDE DEF Step
    <3> QED BY <2>6
  <2> HIDE DEF at, fields
  <2>8. \A k \in 0 .. n : at[k] = IF k = 0 THEN <<>> ELSE at[k - 1] \o CellsOf(fields[k], at[k - 1])
    BY <2>7, Zenon
  <2>9. 0 \in 0 .. n /\ \A k \in 1 .. n : k \in 0 .. n /\ k # 0
    BY <1>2
  <2> QED BY <2>8, <2>9, Zenon
<1> HIDE DEF at, C, Step
<1>6. \A k \in 0 .. n : at[k] \in Seq(C)
  <2> DEFINE P == {k \in 0 .. n : at[k] \in Seq(C)}
  <2>1. 0 \in P
    <3>1. 0 \in 0 .. n
      BY <1>2
    <3>2. \A S : <<>> \in Seq(S)
      OBVIOUS
    <3> QED BY <1>5, <3>1, <3>2
  <2>2. ASSUME NEW k \in 1 .. n, k - 1 \in P PROVE k \in P
    <3>1. at[k - 1] \in Seq(C) /\ Len(at[k - 1]) \in Nat
      BY <2>2
    <3>2. CellsOf(fields[k], at[k - 1]) \in Seq(C)
      BY <1>4, <3>1
    <3>3. at[k] \in Seq(C)
      <4> DEFINE old == at[k - 1]
                 new == CellsOf(fields[k], old)
      <4>1. at[k] = old \o new
        BY <1>5
      <4>2. old \in Seq(C) /\ new \in Seq(C)
        BY <3>1, <3>2
      <4> HIDE DEF old, new
      <4> QED BY <4>1, <4>2
    <3> QED BY <3>3
  <2>3. \A k \in 0 .. n : k \in P
    <3> HIDE DEF P, n
    <3> QED BY <1>2, <2>1, <2>2, UpTo
  <2> QED BY <2>3
<1> DEFINE p == [k \in 0 .. n |-> Len(at[k])]
           New(k) == CellsOf(fields[k], at[k - 1])
<1>7. p \in [0 .. n -> Nat] /\ p[0] = 0 /\ \A k \in 0 .. n : p[k] = Len(at[k])
  <2>1. \A k \in 0 .. n : Len(at[k]) \in Nat
    BY <1>6
  <2>2. 0 \in 0 .. n /\ Len(at[0]) = 0
    BY <1>2, <1>5
  <2> QED BY <2>1, <2>2
<1> HIDE DEF p
<1>8. ASSUME NEW k \in 1 .. n
      PROVE  /\ Len(New(k)) \in Nat /\ p[k] = p[k - 1] + Len(New(k))
             /\ \A m \in 1 .. Len(New(k)) : at[k][p[k - 1] + m] = New(k)[m]
             /\ \A c \in 1 .. p[k - 1] : at[k][c] = at[k - 1][c]
  <2>1. k \in 0 .. n /\ k - 1 \in 0 .. n
    BY <1>2
  <2>2. at[k - 1] \in Seq(C) /\ p[k] = Len(at[k]) /\ p[k - 1] = Len(at[k - 1]) /\ Len(at[k - 1]) \in Nat
    BY <2>1, <1>6, <1>7
  <2>3. New(k) \in Seq(C) /\ Len(New(k)) \in Nat
    BY <1>4, <2>2
  <2>4. at[k] = at[k - 1] \o New(k)
    BY <1>5
  <2> HIDE DEF New
  <2> QED BY <2>2, <2>3, <2>4
<1> HIDE DEF New
<1>9. \A m \in 0 .. n : \A k \in 0 .. m : p[k] <= p[m] /\ \A c \in 1 .. p[k] : at[m][c] = at[k][c]
  <2> DEFINE P == {m \in 0 .. n : \A k \in 0 .. m : p[k] <= p[m] /\ \A c \in 1 .. p[k] : at[m][c] = at[k][c]}
  <2>1. 0 \in P
    BY <1>2, <1>7
  <2>2. ASSUME NEW m \in 1 .. n, m - 1 \in P PROVE m \in P
    <3>1. p[m] \in Nat /\ p[m - 1] \in Nat /\ p[m - 1] <= p[m]
      BY <1>2, <1>7, <1>8
    <3> SUFFICES ASSUME NEW k \in 0 .. m
                 PROVE  p[k] <= p[m] /\ \A c \in 1 .. p[k] : at[m][c] = at[k][c]
      BY <1>2
    <3>2. CASE k = m
      BY <3>1, <3>2
    <3>3. CASE k # m
      <4>1. k \in 0 .. m - 1 /\ p[k] \in Nat
        BY <3>3, <1>2, <1>7
      <4>2. p[k] <= p[m - 1] /\ \A c \in 1 .. p[k] : at[m - 1][c] = at[k][c]
        BY <2>2, <4>1
      <4>3. \A c \in 1 .. p[k] : c \in 1 .. p[m - 1]
        BY <3>1, <4>1, <4>2
      <4> QED BY <3>1, <4>1, <4>2, <4>3, <1>8
    <3> QED BY <3>2, <3>3
  <2>3. \A m \in 0 .. n : m \in P
    <3> HIDE DEF P, n
    <3> QED BY <1>2, <2>1, <2>2, UpTo
  <2> QED BY <2>3
<1>10. ASSUME NEW k \in 1 .. n, NEW m \in 1 .. Len(New(k))
       PROVE  p[k - 1] + m \in 1 .. p[n] /\ at[n][p[k - 1] + m] = New(k)[m]
  <2>1. k \in 0 .. n /\ k - 1 \in 0 .. n /\ n \in 0 .. n /\ p[k - 1] \in Nat /\ p[k] \in Nat /\ p[n] \in Nat
    BY <1>2, <1>7
  <2>2. p[k] = p[k - 1] + Len(New(k)) /\ Len(New(k)) \in Nat /\ at[k][p[k - 1] + m] = New(k)[m]
    BY <1>8
  <2>3. p[k - 1] + m \in 1 .. p[k]
    BY <2>1, <2>2
  <2>4. p[k] <= p[n] /\ \A c \in 1 .. p[k] : at[n][c] = at[k][c]
    BY <1>9, <2>1
  <2>5. at[n][p[k - 1] + m] = at[k][p[k - 1] + m]
    BY <2>3, <2>4
  <2>6. p[k - 1] + m \in 1 .. p[n]
    <3> DEFINE i == p[k - 1] + m
               j == p[k]
               l == p[n]
    <3>1. i \in 1 .. j /\ j <= l /\ j \in Nat /\ l \in Nat
      BY <2>1, <2>3, <2>4
    <3> HIDE DEF i, j, l
    <3>2. i \in 1 .. l
      BY <3>1
    <3> QED BY <3>2 DEF i, l
  <2> QED BY <2>2, <2>5, <2>6
<1>11. Len(stream') = p[n] /\ \A c \in 1 .. p[n] : stream'[c] = IF at[n][c][1] = "layer" THEN Cell("layer", layerOut) ELSE at[n][c]
  <2>1. n \in 0 .. n /\ at[n] \in Seq(C) /\ p[n] = Len(at[n])
    BY <1>2, <1>6, <1>7
  <2>2. DOMAIN at[n] = 1 .. p[n] /\ p[n] \in Nat
    BY <2>1
  <2> HIDE DEF layerOut
  <2> QED BY <1>3, <2>2
<1>12. ASSUME NEW k \in 1 .. n, fields[k] \in Gaps PROVE layerOut[fields[k]] = GapAt(base + p[k - 1])
  <2>1. options.kind = "kpu_conv2d"
    BY <1>2, <1>12 DEF Orderly
  <2>2. Gaps \subseteq DOMAIN options.layer
    BY <2>1, OptionsAssumption
  <2>3. layerOut[fields[k]] = GapOf(fields[k])
    <3> HIDE DEF GapOf, fields
    <3> QED BY <1>12, <2>2 DEF Gaps
  <2>4. GapOf(fields[k]) = p[k] - p[k - 1]
    <3>1. k = CHOOSE j \in DOMAIN fields : fields[j] = fields[k]
      <4>1. \A j \in DOMAIN fields : fields[j] = fields[k] => j = k
        BY <1>2 DEF Orderly
      <4> HIDE DEF fields
      <4> QED BY <1>2, <4>1
    <3>2. p[k] = Len(at[k]) /\ p[k - 1] = Len(at[k - 1])
      BY <1>2, <1>7
    <3> HIDE DEF fields
    <3> QED BY <3>1, <3>2
  <2>5. p[k - 1] = Len(at[k - 1]) /\ p[k - 1] \in Nat /\ p[k] = p[k - 1] + Len(New(k))
    BY <1>2, <1>7, <1>8
  <2>6. Len(New(k)) = GapAt(base + p[k - 1]) /\ GapAt(base + p[k - 1]) \in Nat
    BY <1>12, <2>5, CellsRight DEF New
  <2> HIDE DEF layerOut, fields, GapOf
  <2> QED BY <2>3, <2>4, <2>5, <2>6
<1>13. DOMAIN layerOut = DOMAIN options.layer /\ \A f \in DOMAIN options.layer \ Gaps : layerOut[f] = options.layer[f]
  BY DEF Gaps
<1> HIDE DEF layerOut
<1>14. ASSUME NEW k \in 1 .. n PROVE FieldLaid(options, base, stream', fields[k], p[k - 1], p[k], layerOut)
  <2> DEFINE f == fields[k]
             i == p[k - 1]
             new == New(k)
             s == stream'
  <2>1. i = Len(at[k - 1]) /\ i \in Nat /\ p[k] = i + Len(new) /\ Len(at[k - 1]) \in Nat
    BY <1>2, <1>7, <1>8
  <2>2. \A m \in 1 .. Len(new) : s[i + m] = IF new[m][1] = "layer" THEN Cell("layer", layerOut) ELSE new[m]
    BY <1>10, <1>11
  <2>3. f \in Spans => /\ Len(new) = Len(options[f])
                       /\ \A m \in 1 .. Len(options[f]) : new[m] = Cell(f, options[f][m])
    BY <2>1, CellsRight DEF New
  <2>4. f \in Gaps => /\ Len(new) = GapAt(base + i)
                      /\ \A m \in 1 .. GapAt(base + i) : new[m] = Cell("gap", 0)
    BY <2>1, CellsRight DEF New
  <2>5. f \notin Spans \cup Gaps => new = << Cell(f, options[f]) >>
    BY <2>1, CellsRight DEF New
  <2>6. f \in Gaps => layerOut[f] = GapAt(base + i)
    BY <1>12
  <2> HIDE DEF f, i, new, s
  <2>7. \A h, v : Cell(h, v)[1] = h
    BY DEF Cell
  <2>8. f \in Spans => /\ p[k] = i + Len(options[f])
                       /\ \A m \in 1 .. Len(options[f]) : s[i + m] = Cell(f, options[f][m])
    <3> SUFFICES ASSUME f \in Spans
                 PROVE  p[k] = i + Len(options[f]) /\ \A m \in 1 .. Len(options[f]) : s[i + m] = Cell(f, options[f][m])
      OBVIOUS
    <3>1. f # "layer"
      BY DEF Spans
    <3>2. ASSUME NEW m \in 1 .. Len(options[f]) PROVE s[i + m] = Cell(f, options[f][m])
      <4>1. new[m] = Cell(f, options[f][m]) /\ m \in 1 .. Len(new)
        BY <2>3
      <4> QED BY <2>2, <2>7, <3>1, <4>1
    <3> QED BY <2>1, <2>3, <3>2
  <2>9. f \in Gaps => /\ layerOut[f] = GapAt(base + i) /\ p[k] = i + GapAt(base + i)
                      /\ \A m \in 1 .. GapAt(base + i) : s[i + m] = Cell("gap", 0)
    <3> SUFFICES ASSUME f \in Gaps
                 PROVE  p[k] = i + GapAt(base + i) /\ \A m \in 1 .. GapAt(base + i) : s[i + m] = Cell("gap", 0)
      BY <2>6
    <3>1. ASSUME NEW m \in 1 .. GapAt(base + i) PROVE s[i + m] = Cell("gap", 0)
      <4>1. new[m] = Cell("gap", 0) /\ m \in 1 .. Len(new)
        BY <2>4
      <4> QED BY <2>2, <2>7, <4>1
    <3> QED BY <2>1, <2>4, <3>1
  <2>10. f \notin Spans \cup Gaps => p[k] = i + 1 /\ s[i + 1] = Cell(f, IF f = "layer" THEN layerOut ELSE options[f])
    <3> SUFFICES ASSUME f \notin Spans \cup Gaps
                 PROVE  p[k] = i + 1 /\ s[i + 1] = Cell(f, IF f = "layer" THEN layerOut ELSE options[f])
      OBVIOUS
    <3>1. Len(new) = 1 /\ new[1] = Cell(f, options[f])
      BY <2>5
    <3>2. s[i + 1] = IF f = "layer" THEN Cell("layer", layerOut) ELSE Cell(f, options[f])
      BY <2>2, <2>7, <3>1
    <3> QED BY <2>1, <3>1, <3>2
  <2> QED BY <2>8, <2>9, <2>10 DEF FieldLaid, f, i, s
<1> QED
  BY <1>7, <1>11, <1>13, <1>14, SMTT(30) DEF Laid

\* Deserializing stops at each field where serializing did, with the fields so far.
LEMMA DeserializeReads ==
  ASSUME options \in Options, base \in Bases, NEW p, NEW layerOut, Laid(options, base, stream, p, layerOut), Deserialize
  PROVE  /\ rest' = 0
         /\ \A f \in DOMAIN got' : got'[f] = IF f = "layer" THEN layerOut ELSE options[f]
<1> DEFINE fields == Written(options.kind)
           n == Len(fields)
           Value(f) == IF f = "layer" THEN layerOut ELSE options[f]
           Names(k) == {fields[j] : j \in 1 .. k} \ Gaps
           So(k) == [at |-> p[k], fields |-> [h \in Names(k) |-> Value(h)]]
           Step(g) == [k \in 0 .. n |-> IF k = 0 THEN [at |-> 0, fields |-> <<>>] ELSE Take(g[k - 1], fields[k])]
           after == CHOOSE g : g = Step(g)
<1>1. options.kind \in Kinds
  BY OptionsAssumption
<1>2. n \in Nat /\ DOMAIN fields = 1 .. n /\ Orderly(options.kind, fields)
  BY <1>1, WrittenOrderly
<1>3. got' = after[n].fields /\ rest' = Len(stream) - after[n].at
  BY DEF Deserialize, Read
<1>4. /\ p \in [0 .. n -> Nat] /\ p[0] = 0 /\ p[n] = Len(stream)
      /\ DOMAIN layerOut = DOMAIN options.layer /\ \A f \in DOMAIN options.layer \ Gaps : layerOut[f] = options.layer[f]
  BY DEF Laid
<1>5. ASSUME NEW k \in 1 .. n PROVE FieldLaid(options, base, stream, fields[k], p[k - 1], p[k], layerOut)
  BY DEF Laid
<1>6. ASSUME NEW k \in 1 .. n PROVE p[k] \in Nat /\ p[k - 1] \in Nat /\ Names(k) = Names(k - 1) \cup ({fields[k]} \ Gaps)
  <2>1. p[k] \in Nat /\ p[k - 1] \in Nat
    BY <1>2, <1>4
  <2>2. \A j : j \in 1 .. k <=> j \in 1 .. k - 1 \/ j = k
    BY <1>2
  <2> HIDE DEF fields
  <2> QED BY <2>1, <2>2
<1>7. ASSUME NEW k \in 1 .. n, fields[k] \in Gaps PROVE Take(So(k - 1), fields[k]) = So(k)
  <2> DEFINE f == fields[k]
  <2>1. f \notin Spans
    BY <1>7 DEF Gaps, Spans
  <2>2. "layer" \in Names(k - 1)
    BY <1>2, <1>7 DEF Orderly, Gaps
  <2>3. Names(k) = Names(k - 1)
    BY <1>6, <1>7
  <2>4. p[k] = p[k - 1] + layerOut[f]
    BY <1>5, <1>7 DEF FieldLaid
  <2> HIDE DEF f, Names
  <2>5. So(k - 1).fields.layer = layerOut
    BY <2>2
  <2>6. Take(So(k - 1), f) = [So(k - 1) EXCEPT !.at = @ + So(k - 1).fields.layer[f]]
    BY <1>7, <2>1 DEF Take, f
  <2> QED BY <2>3, <2>4, <2>5, <2>6 DEF f
<1>8. ASSUME NEW k \in 1 .. n, fields[k] \in Spans PROVE Take(So(k - 1), fields[k]) = So(k)
  <2> DEFINE f == fields[k]
             read == So(k - 1).fields
             left == Len(stream) - p[k - 1]
             L == Len(options[f])
  <2>1. f \notin Gaps /\ f # "layer"
    BY <1>8 DEF Gaps, Spans
  <2>2. /\ p[k] = p[k - 1] + L
        /\ \A m \in 1 .. L : stream[p[k - 1] + m] = Cell(f, options[f][m])
    BY <1>5, <1>8 DEF FieldLaid
  <2>3. options[f] \in Seq(Int) /\ L = LengthOf(options.kind, f, options, L)
    BY <1>2, <1>8, OptionsAssumption
  <2>4. \A h \in Names(k - 1) : read[h] = Value(h)
    OBVIOUS
  <2>5. LengthOf(options.kind, f, read, left) = L
    <3>1. CASE f = "body"
      <4>1. k = n
        BY <1>2, <3>1 DEF Orderly
      <4>2. left = p[n] - p[n - 1] /\ p[n] \in Nat /\ p[n - 1] \in Nat
        BY <1>4, <1>6, <4>1
      <4>3. left = L
        BY <1>6, <2>2, <2>3, <4>1, <4>2
      <4>4. LengthOf(options.kind, f, read, left) = left
        BY <3>1 DEF LengthOf
      <4> QED BY <4>3, <4>4
    <3>2. CASE f # "body"
      <4>1. \A d \in Needs(options.kind, f) : d \in Names(k - 1)
        <5>1. \A d \in Needs(options.kind, f) : d \notin Gaps /\ \E j \in 1 .. k - 1 : fields[j] = d
          BY <1>2, <1>8 DEF Orderly
        <5> HIDE DEF f, fields
        <5> QED BY <5>1
      <4>2. \A d \in Needs(options.kind, f) : d # "layer" => read[d] = options[d]
        BY <2>4, <4>1
      <4>3. "layer" \in Needs(options.kind, f) =>
              \A d \in {"ic", "oc", "filter", "depth_wise"} : read.layer[d] = options.layer[d]
        <5> SUFFICES ASSUME "layer" \in Needs(options.kind, f), NEW d \in {"ic", "oc", "filter", "depth_wise"}
                     PROVE  read.layer[d] = options.layer[d]
          OBVIOUS
        <5>1. "layer" \in Names(k - 1)
          BY <4>1
        <5>2. options.kind = "kpu_conv2d"
          BY <5>1, <1>2 DEF Orderly
        <5>3. d \in DOMAIN options.layer \ Gaps
          BY <5>2, OptionsAssumption DEF Gaps
        <5>4. read["layer"] = layerOut
          BY <2>4, <5>1
        <5> HIDE DEF read
        <5> QED BY <1>4, <5>3, <5>4
      <4>4. f \in Spans
        BY <1>8
      <4> HIDE DEF f, read, left, L
      <4>5. LengthOf(options.kind, f, read, left) = LengthOf(options.kind, f, options, L)
        BY <1>1, <3>2, <4>2, <4>3, <4>4, LengthReads
      <4> QED BY <2>3, <4>5
    <3> QED BY <3>1, <3>2
  <2> DEFINE value == [j \in 1 .. L |-> stream[p[k - 1] + j][2]]
  <2>6. value = options[f]
    <3>1. \A m \in 1 .. L : value[m] = options[f][m]
      <4>1. \A v : Cell(f, v)[2] = v
        BY DEF Cell
      <4> HIDE DEF f, L
      <4> QED BY <2>2, <4>1
    <3>2. options[f] = [m \in 1 .. L |-> options[f][m]]
      BY <2>3
    <3> HIDE DEF f
    <3> QED BY <3>1, <3>2
  <2>7. Take(So(k - 1), f) = [at |-> p[k - 1] + L, fields |-> [h \in Names(k - 1) \cup {f} |-> IF h = f THEN options[f] ELSE Value(h)]]
    <3>1. Take(So(k - 1), f) =
            [at |-> So(k - 1).at + L, fields |-> [h \in DOMAIN read \cup {f} |-> IF h = f THEN value ELSE read[h]]]
      <4>1. So(k - 1).at = p[k - 1]
        OBVIOUS
      <4> HIDE DEF Names, Value, So
      <4> QED BY <1>8, <2>1, <2>5, <4>1 DEF Take
    <3>2. So(k - 1).at = p[k - 1] /\ DOMAIN read = Names(k - 1)
      OBVIOUS
    <3> HIDE DEF So, Names, f, value, read, Value
    <3> QED BY <2>4, <2>6, <3>1, <3>2
  <2>8. Names(k) = Names(k - 1) \cup {f}
    BY <1>6, <2>1
  <2> HIDE DEF Names, L, f
  <2>9. [h \in Names(k - 1) \cup {f} |-> IF h = f THEN options[f] ELSE Value(h)] = [h \in Names(k) |-> Value(h)]
    BY <2>1, <2>8
  <2> QED BY <2>2, <2>7, <2>9 DEF f
<1>9. ASSUME NEW k \in 1 .. n, fields[k] \notin Spans \cup Gaps PROVE Take(So(k - 1), fields[k]) = So(k)
  <2> DEFINE f == fields[k]
             read == So(k - 1).fields
  <2>1. p[k] = p[k - 1] + 1 /\ stream[p[k - 1] + 1] = Cell(f, Value(f))
    BY <1>5, <1>9 DEF FieldLaid
  <2>2. stream[p[k - 1] + 1][2] = Value(f)
    BY <2>1 DEF Cell
  <2>3. Names(k) = Names(k - 1) \cup {f}
    BY <1>6, <1>9
  <2>4. So(k - 1).at = p[k - 1] /\ DOMAIN read = Names(k - 1) /\ \A h \in Names(k - 1) : read[h] = Value(h)
    OBVIOUS
  <2>5. Take(So(k - 1), f) =
          [at |-> So(k - 1).at + 1,
           fields |-> [h \in DOMAIN read \cup {f} |-> IF h = f THEN stream[So(k - 1).at + 1][2] ELSE read[h]]]
    <3> HIDE DEF So, Names, Value
    <3> QED BY <1>9 DEF Take
  <2>6. Take(So(k - 1), f) = [at |-> p[k - 1] + 1, fields |-> [h \in Names(k - 1) \cup {f} |-> Value(h)]]
    <3> HIDE DEF So, Names, f, read, Value
    <3> QED BY <2>2, <2>4, <2>5
  <2> HIDE DEF Names, f, Value
  <2> QED BY <2>1, <2>3, <2>6 DEF f
<1>10. So(0) = [at |-> 0, fields |-> <<>>]
  <2>1. Names(0) = {}
    OBVIOUS
  <2>2. [h \in {} |-> Value(h)] = <<>>
    OBVIOUS
  <2> HIDE DEF Value, Names
  <2> QED BY <1>4, <2>1, <2>2
<1> HIDE DEF So
<1>11. after[0] = So(0) /\ \A k \in 1 .. n : after[k] = Take(after[k - 1], fields[k])
  <2> DEFINE f == [k \in 0 .. n |-> So(k)]
  <2>1. f = Step(f)
    <3>1. ASSUME NEW k \in 0 .. n PROVE f[k] = Step(f)[k]
      <4>1. CASE k = 0
        BY <4>1, <1>10
      <4>2. CASE k # 0
        <5>1. k \in 1 .. n /\ k - 1 \in 0 .. n
          BY <4>2, <1>2
        <5>2. f[k - 1] = So(k - 1) /\ f[k] = So(k) /\ Step(f)[k] = Take(f[k - 1], fields[k])
          BY <4>2, <5>1
        <5>3. Take(So(k - 1), fields[k]) = So(k)
          BY <5>1, <1>7, <1>8, <1>9
        <5> QED BY <5>2, <5>3
      <4> QED BY <4>1, <4>2
    <3> HIDE DEF fields, n
    <3> QED BY <3>1
  <2>2. after = Step(after)
    <3> HIDE DEF Step, f
    <3> QED BY <2>1
  <2> HIDE DEF after, fields
  <2>3. \A k \in 0 .. n : after[k] = IF k = 0 THEN [at |-> 0, fields |-> <<>>] ELSE Take(after[k - 1], fields[k])
    BY <2>2, Zenon
  <2>4. 0 \in 0 .. n /\ \A k \in 1 .. n : k \in 0 .. n /\ k # 0
    BY <1>2
  <2> QED BY <1>10, <2>3, <2>4, Zenon
<1> HIDE DEF after
<1>12. \A k \in 0 .. n : after[k] = So(k)
  <2> DEFINE P == {k \in 0 .. n : after[k] = So(k)}
  <2>1. 0 \in P
    BY <1>2, <1>11
  <2>2. ASSUME NEW k \in 1 .. n, k - 1 \in P PROVE k \in P
    <3>1. after[k - 1] = So(k - 1)
      BY <2>2
    <3>2. Take(So(k - 1), fields[k]) = So(k)
      BY <1>7, <1>8, <1>9
    <3>3. after[k] = So(k)
      BY <1>11, <3>1, <3>2
    <3> QED BY <3>3
  <2>3. \A k \in 0 .. n : k \in P
    <3> HIDE DEF P, n
    <3> QED BY <1>2, <2>1, <2>2, UpTo
  <2> QED BY <2>3
<1>13. after[n] = So(n)
  BY <1>2, <1>12
<1>14. So(n).at = p[n] /\ So(n).fields = [h \in Names(n) |-> Value(h)]
  BY DEF So
<1>15. rest' = 0
  BY <1>2, <1>3, <1>4, <1>13, <1>14
<1> QED
  BY <1>3, <1>13, <1>14, <1>15

\* Each cell lies in one of the fields.
LEMMA CellInField ==
  ASSUME NEW n \in Nat, NEW p \in [0 .. n -> Nat], p[0] = 0, NEW c \in 1 .. p[n]
  PROVE  \E k \in 1 .. n : p[k - 1] < c /\ c <= p[k]
<1> DEFINE reached == {k \in 0 .. n : c <= p[k]}
<1>1. reached \in SUBSET Nat /\ reached # {}
  <2>1. n \in reached
    OBVIOUS
  <2> QED BY <2>1
<1>2. PICK k \in reached : \A m \in reached : k <= m
  <2> HIDE DEF reached
  <2> QED BY <1>1, LeastNat
<1>3. k \in 1 .. n /\ k - 1 \in 0 .. n
  <2>1. k \in 0 .. n /\ k # 0
    BY <1>2
  <2> QED BY <2>1
<1>4. ~(c <= p[k - 1])
  BY <1>2, <1>3
<1> QED
  BY <1>2, <1>3, <1>4

\* The tables of a layerOut follow a gap, which ends on an aligned address.
LEMMA LaidAligned ==
  ASSUME options \in Options, base \in Bases, options.kind = "kpu_conv2d",
         NEW p, NEW layerOut, Laid(options, base, stream, p, layerOut),
         NEW c \in 2 .. Len(stream), stream[c][1] \in {"batch_norm", "activation", "weights"},
         stream[c - 1][1] # stream[c][1]
  PROVE  (base + c - 1) % Alignment = 0
<1> DEFINE fields == kpu_conv2d_options
<1>1. fields = Written(options.kind) /\ Len(fields) = 10
  BY DEF Written, kpu_conv2d_options
<1>2. p \in [0 .. 10 -> Nat] /\ p[0] = 0 /\ p[10] = Len(stream)
  BY <1>1 DEF Laid
<1>3. ASSUME NEW k \in 1 .. 10 PROVE FieldLaid(options, base, stream, fields[k], p[k - 1], p[k], layerOut)
  BY <1>1 DEF Laid
<1>4. PICK k \in 1 .. 10 : p[k - 1] < c /\ c <= p[k]
  <2>1. c \in 1 .. p[10]
    BY <1>2
  <2> DEFINE n == 10
  <2>2. n \in Nat /\ p \in [0 .. n -> Nat] /\ c \in 1 .. p[n]
    BY <1>2, <2>1
  <2> HIDE DEF n
  <2>3. \E k \in 1 .. n : p[k - 1] < c /\ c <= p[k]
    BY <1>2, <2>2, CellInField
  <2> QED BY <2>3 DEF n
<1> DEFINE f == fields[k]
           i == p[k - 1]
<1>5. i \in Nat /\ p[k] \in Nat /\ base \in Nat /\ c \in Nat
  <2>1. k - 1 \in 0 .. 10 /\ k \in 0 .. 10 /\ 10 \in 0 .. 10
    OBVIOUS
  <2>2. i \in Nat /\ p[k] \in Nat /\ p[10] \in Nat
    BY <1>2, <2>1
  <2>3. base \in Nat
    BY OptionsAssumption
  <2>4. c \in Nat
    BY <1>2, <2>2
  <2> QED BY <2>2, <2>3, <2>4
<1>6. \A m \in 1 .. p[k] - i : stream[i + m][1] = IF f \in Gaps THEN "gap" ELSE f
  <2>1. FieldLaid(options, base, stream, f, i, p[k], layerOut)
    BY <1>3
  <2>2. \A h, v : Cell(h, v)[1] = h
    BY DEF Cell
  <2>3. f \in Spans => options[f] \in Seq(Int)
    <3>1. k \in DOMAIN Written(options.kind)
      BY <1>1 DEF kpu_conv2d_options
    <3> HIDE DEF fields
    <3> QED BY <1>1, <3>1, OptionsAssumption
  <2>4. GapAt(base + i) \in Nat
    <3>1. base + i \in Nat
      BY <1>5
    <3> QED BY <3>1, GapIsNat
  <2>5. f \in Spans => f \notin Gaps
    BY DEF Spans, Gaps
  <2> HIDE DEF f, i
  <2>6. CASE f \in Spans
    <3>1. p[k] - i = Len(options[f]) /\ \A m \in 1 .. Len(options[f]) : stream[i + m] = Cell(f, options[f][m])
      <4>1. Len(options[f]) \in Nat
        BY <2>3, <2>6
      <4> QED BY <1>5, <2>1, <2>6, <4>1 DEF FieldLaid
    <3> QED BY <2>2, <2>5, <2>6, <3>1
  <2>7. CASE f \in Gaps
    <3>1. p[k] - i = GapAt(base + i) /\ \A m \in 1 .. GapAt(base + i) : stream[i + m] = Cell("gap", 0)
      BY <1>5, <2>1, <2>4, <2>7 DEF FieldLaid
    <3> QED BY <2>2, <2>7, <3>1
  <2>8. CASE f \notin Spans \cup Gaps
    <3>1. p[k] - i = 1 /\ stream[i + 1] = Cell(f, IF f = "layer" THEN layerOut ELSE options[f])
      BY <1>5, <2>1, <2>8 DEF FieldLaid
    <3>2. \A m \in 1 .. 1 : m = 1
      OBVIOUS
    <3>3. stream[i + 1][1] = f
      BY <2>2, <3>1
    <3> QED BY <2>8, <3>1, <3>2, <3>3
  <2> QED BY <2>6, <2>7, <2>8
<1>7. stream[c][1] = IF f \in Gaps THEN "gap" ELSE f
  <2>1. c - i \in 1 .. p[k] - i /\ i + (c - i) = c
    BY <1>4, <1>5
  <2> HIDE DEF f, i
  <2> QED BY <1>6, <2>1
<1>8. f \in {"batch_norm", "activation", "weights"}
  BY <1>7
<1>9. k \in {6, 8, 10}
  BY <1>8 DEF kpu_conv2d_options
<1>10. c = i + 1
  <2> SUFFICES ASSUME c # i + 1 PROVE FALSE
    OBVIOUS
  <2>1. c - 1 - i \in 1 .. p[k] - i /\ i + (c - 1 - i) = c - 1
    BY <1>4, <1>5
  <2>2. stream[c - 1][1] = IF f \in Gaps THEN "gap" ELSE f
    <3> HIDE DEF f, i
    <3> QED BY <1>6, <2>1
  <2> QED BY <1>7, <2>2
<1>11. fields[k - 1] \in Gaps /\ k - 1 \in 1 .. 10
  BY <1>9 DEF kpu_conv2d_options, Gaps
<1>12. i = p[k - 2] + GapAt(base + p[k - 2]) /\ p[k - 2] \in Nat
  <2>1. FieldLaid(options, base, stream, fields[k - 1], p[k - 1 - 1], p[k - 1], layerOut)
    BY <1>3, <1>11
  <2>2. k - 1 - 1 = k - 2 /\ k - 2 \in 0 .. 10
    BY <1>9
  <2> HIDE DEF fields
  <2> QED BY <1>2, <1>11, <2>1, <2>2 DEF FieldLaid
<1>13. (base + p[k - 2] + GapAt(base + p[k - 2])) % Alignment = 0
  <2>1. base + p[k - 2] \in Nat
    BY <1>5, <1>12
  <2> QED BY <2>1, GapAligns
<1>14. GapAt(base + p[k - 2]) \in Nat
  <2>1. base + p[k - 2] \in Nat
    BY <1>5, <1>12
  <2> QED BY <2>1, GapIsNat
<1>15. base + c - 1 = base + p[k - 2] + GapAt(base + p[k - 2])
  BY <1>5, <1>10, <1>12, <1>14, SMTT(30)
<1> QED
  BY <1>13, <1>15

-----------------------------------------------------------------------------
\* The inductive invariant: what is in the stream is laid out, and what was read is
\* what was written.
BodyInv ==
  /\ options \in Options /\ base \in Bases
  /\ stream # <<>> => \E p, layerOut : Laid(options, base, stream, p, layerOut)
  /\ got # <<>> => stream # <<>>
  /\ BodiesRoundTrip

\* It holds for any options.
THEOREM BodyInvAlways == BodySpec => []BodyInv
<1>1. BodyInit => BodyInv
  BY DEF BodyInit, BodyInv, BodiesRoundTrip
<1>2. BodyInv /\ [BodyNext]_bodyVars => BodyInv'
  <2> SUFFICES ASSUME BodyInv, [BodyNext]_bodyVars PROVE BodyInv'
    OBVIOUS
  <2>1. CASE Serialize
    <3>1. options' = options /\ base' = base /\ got' = got /\ rest' = rest /\ stream = <<>>
      BY <2>1 DEF Serialize
    <3>2. \E p, layerOut : Laid(options, base, stream', p, layerOut)
      BY <2>1, SerializeLays DEF BodyInv
    <3>3. got = <<>>
      BY <3>1 DEF BodyInv
    <3> QED BY <3>1, <3>2, <3>3 DEF BodyInv, BodiesRoundTrip
  <2>2. CASE Deserialize
    <3>1. options' = options /\ base' = base /\ stream' = stream /\ stream # <<>>
      BY <2>2 DEF Deserialize
    <3>2. PICK p, layerOut : Laid(options, base, stream, p, layerOut)
      BY <3>1 DEF BodyInv
    <3>3. rest' = 0 /\ \A f \in DOMAIN got' : got'[f] = IF f = "layer" THEN layerOut ELSE options[f]
      BY <2>2, <3>2, DeserializeReads DEF BodyInv
    <3>4. DOMAIN layerOut = DOMAIN options.layer /\ \A f \in DOMAIN options.layer \ Gaps : layerOut[f] = options.layer[f]
      BY <3>2 DEF Laid
    <3>5. BodiesRoundTrip'
      BY <3>1, <3>3, <3>4 DEF BodiesRoundTrip
    <3> QED BY <3>1, <3>5 DEF BodyInv
  <2>3. CASE UNCHANGED bodyVars
    BY <2>3 DEF BodyInv, BodiesRoundTrip, bodyVars
  <2> QED BY <2>1, <2>2, <2>3 DEF BodyNext
<1> QED
  BY <1>1, <1>2, PTL DEF BodySpec

\* A body is read back whole, and the tables the KPU is pointed at are aligned, for
\* any options, any alignment and any position in the file.
THEOREM BodiesPreservedCorrect == BodySpec => []BodiesPreserved
<1>1. BodyInv => BodiesPreserved
  <2> SUFFICES ASSUME BodyInv PROVE TablesAligned
    BY DEF BodyInv, BodiesPreserved
  <2> SUFFICES ASSUME got # <<>>, options.kind = "kpu_conv2d", NEW k \in 2 .. Len(stream),
                      stream[k][1] \in {"batch_norm", "activation", "weights"}, stream[k - 1][1] # stream[k][1]
               PROVE  (base + k - 1) % Alignment = 0
    BY DEF TablesAligned
  <2>1. PICK p, layerOut : Laid(options, base, stream, p, layerOut)
    BY DEF BodyInv
  <2> QED BY <2>1, LaidAligned DEF BodyInv
<1> QED
  BY <1>1, BodyInvAlways, PTL

-----------------------------------------------------------------------------
\* What an instruction makes of stack s when the argument is x.
Effect(op, x, s, u) ==
  \/ op = "nop" /\ u = s
  \/ op = "dup" /\ Len(s) >= 1 /\ u = Append(s, s[Len(s)])
  \/ op = "lda_0" /\ u = Append(s, x)
  \/ op = "ldc_r4_0" /\ u = Append(s, 0)
  \/ op = "ldc_r4_1" /\ u = Append(s, 1)
  \/ op \in DOMAIN Literals /\ u = Append(s, Literals[op])
  \/ op \in Unary /\ Len(s) >= 1 /\ u = Append(SubSeq(s, 1, Len(s) - 1), OfOne(op, s[Len(s)]))
  \/ op \in Binary /\ Len(s) >= 2
     /\ u = Append(SubSeq(s, 1, Len(s) - 2), OfTwo(op, s[Len(s) - 1], s[Len(s)]))
  \/ op = "clamp" /\ Len(s) >= 3
     /\ u = Append(SubSeq(s, 1, Len(s) - 3), OfThree(s[Len(s) - 2], s[Len(s) - 1], s[Len(s)]))

\* t is the stack before, between and after the instructions of code, never higher than room.
IsRun(t, code, x, s, u, room) ==
  /\ t \in [0 .. Len(code) -> Seq(Int)]
  /\ t[0] = s /\ t[Len(code)] = u
  /\ \A k \in 0 .. Len(code) : Len(t[k]) <= room
  /\ \A k \in 1 .. Len(code) : Effect(code[k], x, t[k - 1], t[k])
\* Some stacks are such a run.
Runs(code, x, s, u, room) == \E t : IsRun(t, code, x, s, u, room)

\* One instruction is a code.
LEMMA OneCode ==
  ASSUME NEW op \in Opcodes
  PROVE  <<op>> \in Seq(Opcodes)
  OBVIOUS

\* A code that goes on is a code.
LEMMA CodeAndOp ==
  ASSUME NEW S, NEW c \in Seq(S), NEW op \in S
  PROVE  /\ c \o <<op>> \in Seq(S)
         /\ Len(c \o <<op>>) = Len(c) + 1
         /\ (c \o <<op>>)[Len(c) + 1] = op
         /\ \A k \in 1 .. Len(c) : (c \o <<op>>)[k] = c[k]
<1> DEFINE d == <<op>>
<1>1. d \in Seq(S) /\ Len(d) = 1 /\ d[1] = op
  OBVIOUS
<1> HIDE DEF d
<1>2. Len(c) \in Nat /\ Len(c \o d) = Len(c) + Len(d)
  OBVIOUS
<1>3. (c \o d)[Len(c) + 1] = op
  BY <1>1, <1>2
<1>4. \A k \in 1 .. Len(c) : (c \o d)[k] = c[k]
  BY <1>1
<1>5. c \o d \in Seq(S)
  BY <1>1
<1> QED
  BY <1>2, <1>3, <1>4, <1>5 DEF d

\* One instruction runs by itself.
LEMMA One ==
  ASSUME NEW op \in Opcodes, NEW x, NEW s \in Seq(Int), NEW u \in Seq(Int), NEW room \in Nat,
         Effect(op, x, s, u), Len(s) <= room, Len(u) <= room
  PROVE  Runs(<<op>>, x, s, u, room)
<1> DEFINE t == [k \in 0 .. 1 |-> IF k = 0 THEN s ELSE u]
<1>1. Len(<<op>>) = 1 /\ <<op>>[1] = op
  OBVIOUS
<1>2. t \in [0 .. 1 -> Seq(Int)] /\ t[0] = s /\ t[1] = u
  OBVIOUS
<1>3. \A k \in 0 .. 1 : Len(t[k]) <= room
  OBVIOUS
<1>4. ASSUME NEW k \in 1 .. 1 PROVE Effect(<<op>>[k], x, t[k - 1], t[k])
  <2>1. k = 1 /\ k - 1 = 0
    OBVIOUS
  <2> HIDE DEF t
  <2> QED BY <2>1, <1>1, <1>2
<1>5. IsRun(t, <<op>>, x, s, u, room)
  <2> HIDE DEF t
  <2> QED BY <1>1, <1>2, <1>3, <1>4 DEF IsRun
<1> QED
  BY <1>5 DEF Runs

\* One code runs after the other.
LEMMA Join ==
  ASSUME NEW c \in Seq(Opcodes), NEW d \in Seq(Opcodes), NEW x, NEW s, NEW u, NEW v, NEW room \in Nat,
         Runs(c, x, s, u, room), Runs(d, x, u, v, room)
  PROVE  Runs(c \o d, x, s, v, room)
<1>1. PICK f : IsRun(f, c, x, s, u, room)
  BY DEF Runs
<1>2. PICK g : IsRun(g, d, x, u, v, room)
  BY DEF Runs
<1> DEFINE n == Len(c)
           m == Len(d)
           t == [k \in 0 .. (n + m) |-> IF k <= n THEN f[k] ELSE g[k - n]]
<1>3. n \in Nat /\ m \in Nat /\ Len(c \o d) = n + m
  OBVIOUS
<1>4. f \in [0 .. n -> Seq(Int)] /\ g \in [0 .. m -> Seq(Int)] /\ f[0] = s /\ f[n] = u /\ g[0] = u /\ g[m] = v
  BY <1>1, <1>2 DEF IsRun
<1>5. \A k \in 0 .. (n + m) : k > n => k - n \in 1 .. m
  BY <1>3
<1>6. t \in [0 .. (n + m) -> Seq(Int)]
  BY <1>3, <1>4, <1>5
<1>7. t[0] = s /\ t[n + m] = v
  <2>1. CASE m = 0
    BY <2>1, <1>3, <1>4
  <2>2. CASE m # 0
    BY <2>2, <1>3, <1>4
  <2> QED BY <2>1, <2>2
<1>8. ASSUME NEW k \in 0 .. (n + m) PROVE Len(t[k]) <= room
  <2>1. k <= n => k \in 0 .. n
    BY <1>3
  <2>2. \A j \in 0 .. n : Len(f[j]) <= room
    BY <1>1 DEF IsRun
  <2>3. \A j \in 0 .. m : Len(g[j]) <= room
    BY <1>2 DEF IsRun
  <2>4. t[k] = IF k <= n THEN f[k] ELSE g[k - n]
    OBVIOUS
  <2> HIDE DEF t
  <2> QED BY <2>1, <2>2, <2>3, <2>4, <1>3, <1>5
<1>9. ASSUME NEW k \in 1 .. (n + m) PROVE Effect((c \o d)[k], x, t[k - 1], t[k])
  <2>1. CASE k <= n
    <3>1. k \in 1 .. n /\ t[k] = f[k] /\ t[k - 1] = f[k - 1] /\ (c \o d)[k] = c[k]
      BY <2>1, <1>3
    <3>2. Effect(c[k], x, f[k - 1], f[k])
      BY <3>1, <1>1 DEF IsRun
    <3> HIDE DEF t
    <3> QED BY <3>1, <3>2
  <2>2. CASE k > n
    <3>1. k - n \in 1 .. m /\ t[k] = g[k - n] /\ (c \o d)[k] = d[k - n]
      BY <2>2, <1>3
    <3>2. t[k - 1] = g[(k - n) - 1]
      <4>1. CASE k - 1 = n
        BY <4>1, <1>3, <1>4
      <4>2. CASE k - 1 > n
        BY <4>2, <1>3, (k - 1) - n = (k - n) - 1
      <4> QED BY <4>1, <4>2, <2>2, <1>3
    <3>3. Effect(d[k - n], x, g[(k - n) - 1], g[k - n])
      BY <3>1, <1>2 DEF IsRun
    <3> HIDE DEF t
    <3> QED BY <3>1, <3>2, <3>3
  <2> QED BY <2>1, <2>2, <1>3
<1>10. IsRun(t, c \o d, x, s, v, room)
  <2> HIDE DEF t
  <2> QED BY <1>3, <1>6, <1>7, <1>8, <1>9 DEF IsRun
<1> QED
  BY <1>10 DEF Runs

\* A code that runs in some room runs in more.
LEMMA MoreRoom ==
  ASSUME NEW c \in Seq(Opcodes), NEW x, NEW s, NEW u, NEW little \in Nat, NEW room \in Nat, little <= room,
         Runs(c, x, s, u, little)
  PROVE  Runs(c, x, s, u, room)
<1>1. PICK t : IsRun(t, c, x, s, u, little)
  BY DEF Runs
<1>2. IsRun(t, c, x, s, u, room)
  <2>1. \A k \in 0 .. Len(c) : t[k] \in Seq(Int) /\ Len(t[k]) <= little
    BY <1>1 DEF IsRun
  <2>2. \A k \in 0 .. Len(c) : Len(t[k]) <= room
    BY <2>1
  <2> QED BY <1>1, <2>2 DEF IsRun
<1> QED
  BY <1>2 DEF Runs

-----------------------------------------------------------------------------
\* The value of e is on the stack when its code has run.
Correct(e) ==
  /\ e.code \in Seq(Opcodes) /\ e.depth \in Nat
  /\ \A x \in Arguments : e.value[x] \in Int
  /\ \A x \in Arguments, s \in Seq(Int) : Runs(e.code, x, s, Append(s, e.value[x]), Len(s) + e.depth)

\* The arguments of a method are numbers.
LEMMA ArgumentsAreInt == Arguments \subseteq Int
  BY NnilAssumption DEF Arguments

\* What an operator on one value makes is a number.
LEMMA OneIsInt ==
  ASSUME NEW op \in Unary, NEW v \in Int
  PROVE  OfOne(op, v) \in Int
<1>1. op = "abs" \/ op = "neg" \/ op = "square"
  BY DEF Unary
<1>2. v * v \in Int /\ -v \in Int
  OBVIOUS
<1> QED
  BY <1>1, <1>2 DEF OfOne

\* The machine computes what an operator means.
LEMMA TwoMeans ==
  ASSUME NEW op \in Binary, NEW v \in Int, NEW w \in Int
  PROVE  Meaning(op, v, w) = OfTwo(op, v, w) /\ OfTwo(op, v, w) \in Int
<1>1. op = "add" \/ op = "sub" \/ op = "mul" \/ op = "min" \/ op = "max"
  BY DEF Binary
<1>2. v + w \in Int /\ v - w \in Int /\ v * w \in Int
  OBVIOUS
<1> QED
  BY <1>1, <1>2 DEF OfTwo, Meaning

\* So is what clamp makes.
LEMMA ThreeIsInt ==
  ASSUME NEW v \in Int, NEW low \in Int, NEW high \in Int
  PROVE  OfThree(v, low, high) \in Int
  BY DEF OfThree

\* What the tops of a stack are.
LEMMA Tops ==
  ASSUME NEW s \in Seq(Int), NEW a \in Int
  PROVE  /\ Append(s, a) \in Seq(Int) /\ Len(Append(s, a)) = Len(s) + 1
         /\ Append(s, a)[Len(s) + 1] = a
         /\ \A k \in 1 .. Len(s) : Append(s, a)[k] = s[k]
         /\ SubSeq(Append(s, a), 1, Len(s)) = s
<1>1. \A k \in 1 .. Len(s) : SubSeq(Append(s, a), 1, Len(s))[k] = s[k]
  OBVIOUS
<1>2. Len(SubSeq(Append(s, a), 1, Len(s))) = Len(s) /\ SubSeq(Append(s, a), 1, Len(s)) \in Seq(Int)
  OBVIOUS
<1>3. SubSeq(Append(s, a), 1, Len(s)) = s
  BY <1>1, <1>2
<1> QED
  BY <1>3

\* An operator works on what its operands leave on the stack.
LEMMA UnaryEffect ==
  ASSUME NEW op \in Unary, NEW x, NEW s \in Seq(Int), NEW a \in Int
  PROVE  Effect(op, x, Append(s, a), Append(s, OfOne(op, a)))
<1> DEFINE one == Append(s, a)
<1>1. one \in Seq(Int) /\ Len(one) = Len(s) + 1 /\ one[Len(one)] = a /\ SubSeq(one, 1, Len(one) - 1) = s /\ Len(s) \in Nat
  <2>1. (Len(s) + 1) - 1 = Len(s) /\ Len(s) \in Nat
    OBVIOUS
  <2> QED BY <2>1, Tops
<1> HIDE DEF one
<1>2. Effect(op, x, one, Append(s, OfOne(op, a)))
  BY <1>1 DEF Effect
<1> QED
  BY <1>2 DEF one

\* The operand pushed last is the right one.
LEMMA BinaryEffect ==
  ASSUME NEW op \in Binary, NEW x, NEW s \in Seq(Int), NEW a \in Int, NEW b \in Int
  PROVE  Effect(op, x, Append(Append(s, a), b), Append(s, OfTwo(op, a, b)))
<1> DEFINE one == Append(s, a)
           two == Append(one, b)
<1>1. one \in Seq(Int) /\ Len(one) = Len(s) + 1 /\ one[Len(s) + 1] = a /\ SubSeq(one, 1, Len(s)) = s /\ Len(s) \in Nat
  BY Tops
<1>2. two \in Seq(Int) /\ Len(two) = Len(one) + 1 /\ two[Len(one) + 1] = b
      /\ \A k \in 1 .. Len(one) : two[k] = one[k]
  <2> HIDE DEF one
  <2> QED BY <1>1, Tops
<1>3. Len(two) = Len(s) + 2 /\ two[Len(two)] = b /\ two[Len(two) - 1] = a
  <2> HIDE DEF one, two
  <2> QED BY <1>1, <1>2
<1>4. SubSeq(two, 1, Len(two) - 2) = s
  <2>1. Len(two) - 2 = Len(s)
    <3> HIDE DEF one, two
    <3> QED BY <1>1, <1>3
  <2>2. \A k \in 1 .. Len(s) : two[k] = s[k]
    BY <1>1, <1>2, Tops
  <2>3. SubSeq(two, 1, Len(s)) \in Seq(Int) /\ Len(SubSeq(two, 1, Len(s))) = Len(s)
        /\ \A k \in 1 .. Len(s) : SubSeq(two, 1, Len(s))[k] = s[k]
    <3> HIDE DEF two
    <3> QED BY <1>1, <1>2, <1>3, <2>2
  <2>4. SubSeq(two, 1, Len(s)) = s
    <3> HIDE DEF two
    <3> QED BY <2>3
  <2> QED BY <2>1, <2>4
<1>5. Effect(op, x, two, Append(s, OfTwo(op, a, b)))
  <2> HIDE DEF one, two
  <2>1. Len(two) >= 2
    BY <1>1, <1>3
  <2> QED BY <1>3, <1>4, <2>1 DEF Effect
<1> QED
  BY <1>5

\* clamp finds the value under its two bounds.
LEMMA ClampEffect ==
  ASSUME NEW x, NEW s \in Seq(Int), NEW a \in Int, NEW b \in Int, NEW c \in Int
  PROVE  Effect("clamp", x, Append(Append(Append(s, a), b), c), Append(s, OfThree(a, b, c)))
<1> DEFINE one == Append(s, a)
           two == Append(one, b)
           all == Append(two, c)
<1>1. one \in Seq(Int) /\ Len(one) = Len(s) + 1 /\ one[Len(s) + 1] = a
      /\ (\A k \in 1 .. Len(s) : one[k] = s[k]) /\ Len(s) \in Nat
  BY Tops
<1>2. two \in Seq(Int) /\ Len(two) = Len(one) + 1 /\ two[Len(one) + 1] = b
      /\ \A k \in 1 .. Len(one) : two[k] = one[k]
  <2> HIDE DEF one
  <2> QED BY <1>1, Tops
<1>3. all \in Seq(Int) /\ Len(all) = Len(two) + 1 /\ all[Len(two) + 1] = c
      /\ \A k \in 1 .. Len(two) : all[k] = two[k]
  <2> HIDE DEF two
  <2> QED BY <1>2, Tops
<1> HIDE DEF one, two, all
<1>4. Len(all) = Len(s) + 3 /\ all[Len(all)] = c /\ all[Len(all) - 1] = b /\ all[Len(all) - 2] = a
  <2>1. Len(one) = Len(s) + 1 /\ Len(two) = Len(s) + 2 /\ Len(all) = Len(s) + 3
    BY <1>1, <1>2, <1>3
  <2>2. all[Len(s) + 3] = c
    BY <1>3, <2>1
  <2>3. all[Len(s) + 2] = two[Len(s) + 2] /\ all[Len(s) + 1] = two[Len(s) + 1]
    <3>1. Len(s) + 1 \in 1 .. Len(s) + 2 /\ Len(s) + 2 \in 1 .. Len(s) + 2
      BY <1>1
    <3> QED BY <1>3, <2>1, <3>1
  <2>4. two[Len(s) + 2] = b /\ two[Len(s) + 1] = one[Len(s) + 1]
    BY <1>1, <1>2, <2>1
  <2>5. Len(all) - 1 = Len(s) + 2 /\ Len(all) - 2 = Len(s) + 1
    BY <1>1, <2>1
  <2> QED BY <1>1, <2>1, <2>2, <2>3, <2>4, <2>5
<1>5. SubSeq(all, 1, Len(all) - 3) = s
  <2>1. Len(all) - 3 = Len(s)
    BY <1>1, <1>4
  <2>2. \A k \in 1 .. Len(s) : all[k] = s[k]
    BY <1>1, <1>2, <1>3
  <2>3. SubSeq(all, 1, Len(s)) \in Seq(Int) /\ Len(SubSeq(all, 1, Len(s))) = Len(s)
        /\ \A k \in 1 .. Len(s) : SubSeq(all, 1, Len(s))[k] = s[k]
    BY <1>1, <1>3, <1>4, <2>2
  <2>4. SubSeq(all, 1, Len(s)) = s
    BY <2>3
  <2> QED BY <2>1, <2>4
<1>6. Effect("clamp", x, all, Append(s, OfThree(a, b, c)))
  <2>1. Len(all) >= 3
    BY <1>1, <1>4
  <2> QED BY <1>4, <1>5, <2>1 DEF Effect
<1> QED
  BY <1>6 DEF all, two, one

\* dup finds what the operand left.
LEMMA DupEffect ==
  ASSUME NEW x, NEW s \in Seq(Int), NEW a \in Int
  PROVE  Effect("dup", x, Append(s, a), Append(Append(s, a), a))
<1> DEFINE one == Append(s, a)
<1>1. one \in Seq(Int) /\ Len(one) = Len(s) + 1 /\ one[Len(one)] = a /\ Len(s) \in Nat
  BY Tops
<1> HIDE DEF one
<1>2. Effect("dup", x, one, Append(one, a))
  BY <1>1 DEF Effect
<1> QED
  BY <1>2 DEF one

-----------------------------------------------------------------------------
\* An instruction that loads a value.
LEMMA LeafCorrect ==
  ASSUME NEW e \in Leaves
  PROVE  Correct(e)
<1>1. PICK op \in {"lda_0", "ldc_r4_0", "ldc_r4_1"} \cup DOMAIN Literals :
         e.code = <<op>> /\ e.depth = 1
         /\ \A x \in Arguments : \/ op = "lda_0" /\ e.value[x] = x
                                 \/ op = "ldc_r4_0" /\ e.value[x] = 0
                                 \/ op = "ldc_r4_1" /\ e.value[x] = 1
                                 \/ op \in DOMAIN Literals /\ e.value[x] = Literals[op]
  <2>1. CASE \E l \in DOMAIN Literals : e = [code |-> <<l>>, value |-> [x \in Arguments |-> Literals[l]], depth |-> 1]
    <3>1. PICK l \in DOMAIN Literals : e = [code |-> <<l>>, value |-> [x \in Arguments |-> Literals[l]], depth |-> 1]
      BY <2>1
    <3>2. e.code = <<l>> /\ e.depth = 1
      BY <3>1
    <3>3. \A x \in Arguments : e.value[x] = Literals[l]
      BY <3>1
    <3> QED BY <3>2, <3>3
  <2>2. CASE e = [code |-> <<"lda_0">>, value |-> [x \in Arguments |-> x], depth |-> 1]
    BY <2>2
  <2>3. CASE e = [code |-> <<"ldc_r4_0">>, value |-> [x \in Arguments |-> 0], depth |-> 1]
    BY <2>3
  <2>4. CASE e = [code |-> <<"ldc_r4_1">>, value |-> [x \in Arguments |-> 1], depth |-> 1]
    BY <2>4
  <2> QED BY <2>1, <2>2, <2>3, <2>4 DEF Leaves
<1>2. <<op>> \in Seq(Opcodes)
  <2>1. op \in Opcodes
    BY DEF Opcodes, OneByte
  <2> QED BY <2>1, OneCode
<1>3. ASSUME NEW x \in Arguments, NEW s \in Seq(Int)
      PROVE  e.value[x] \in Int /\ Runs(<<op>>, x, s, Append(s, e.value[x]), Len(s) + 1)
  <2> DEFINE u == Append(s, e.value[x])
  <2>1. e.value[x] \in Int
    BY <1>1, ArgumentsAreInt, NnilAssumption
  <2>2. Effect(op, x, s, u)
    BY <1>1 DEF Effect
  <2>3. u \in Seq(Int) /\ Len(u) = Len(s) + 1 /\ Len(s) \in Nat
    BY <2>1
  <2>4. Runs(<<op>>, x, s, u, Len(s) + 1)
    <3> DEFINE room == Len(s) + 1
    <3>1. room \in Nat /\ Len(s) <= room /\ Len(u) <= room /\ op \in Opcodes
      BY <2>3 DEF Opcodes, OneByte
    <3> HIDE DEF u, room
    <3>2. Runs(<<op>>, x, s, u, room)
      BY <2>2, <2>3, <3>1, One
    <3> QED BY <3>2 DEF room
  <2> QED BY <2>1, <2>4
<1>20. ASSUME NEW x \in Arguments PROVE e.value[x] \in Int
  <2>1. <<>> \in Seq(Int)
    OBVIOUS
  <2> QED BY <1>3, <2>1
<1>21. ASSUME NEW x \in Arguments, NEW s \in Seq(Int) PROVE Runs(e.code, x, s, Append(s, e.value[x]), Len(s) + e.depth)
  BY <1>1, <1>3
<1>22. e.code \in Seq(Opcodes) /\ e.depth \in Nat
  BY <1>1, <1>2
<1> QED
  BY <1>20, <1>21, <1>22 DEF Correct

\* What an operand leaves, in room that is as large as needed.
LEMMA OperandRuns ==
  ASSUME NEW a, Correct(a), NEW x \in Arguments, NEW s \in Seq(Int), NEW room \in Nat, Len(s) + a.depth <= room
  PROVE  /\ a.value[x] \in Int /\ Append(s, a.value[x]) \in Seq(Int) /\ Len(Append(s, a.value[x])) = Len(s) + 1
         /\ Runs(a.code, x, s, Append(s, a.value[x]), room)
         /\ Len(s) + 1 <= room
<1>1. a.code \in Seq(Opcodes) /\ a.depth \in Nat /\ a.value[x] \in Int
      /\ Runs(a.code, x, s, Append(s, a.value[x]), Len(s) + a.depth)
  BY DEF Correct
<1>2. Append(s, a.value[x]) \in Seq(Int) /\ Len(Append(s, a.value[x])) = Len(s) + 1 /\ Len(s) \in Nat
  BY <1>1
<1>3. Len(s) + a.depth \in Nat
  BY <1>1, <1>2
<1>4. Runs(a.code, x, s, Append(s, a.value[x]), room)
  BY <1>1, <1>3, MoreRoom
<1>5. Len(s) + 1 <= room
  <2>1. PICK t : IsRun(t, a.code, x, s, Append(s, a.value[x]), room)
    BY <1>4 DEF Runs
  <2>2. Len(t[Len(a.code)]) <= room /\ t[Len(a.code)] = Append(s, a.value[x])
    <3>1. Len(a.code) \in 0 .. Len(a.code)
      BY <1>1
    <3> QED BY <2>1, <3>1 DEF IsRun
  <2> QED BY <2>2, <1>2
<1> QED
  BY <1>1, <1>2, <1>4, <1>5

\* An operator after the code of its operands.
LEMMA Then ==
  ASSUME NEW c \in Seq(Opcodes), NEW op \in Opcodes, NEW x, NEW s, NEW u \in Seq(Int), NEW v \in Seq(Int), NEW room \in Nat,
         Runs(c, x, s, u, room), Effect(op, x, u, v), Len(u) <= room, Len(v) <= room
  PROVE  Runs(c \o <<op>>, x, s, v, room)
<1>1. Runs(<<op>>, x, u, v, room)
  BY One
<1>2. <<op>> \in Seq(Opcodes)
  BY OneCode
<1> HIDE DEF Runs
<1> DEFINE one == <<op>>
<1> HIDE DEF one
<1> QED
  BY <1>1, <1>2, Join DEF one

\* An expression and a nop.
LEMMA PaddedCorrect ==
  ASSUME NEW a, Correct(a), NEW e, e = Padded(a)
  PROVE  Correct(e)
<1>1. e.code = a.code \o <<"nop">> /\ e.value = a.value /\ e.depth = a.depth
  BY DEF Padded
<1>2. a.code \in Seq(Opcodes) /\ a.depth \in Nat /\ \A x \in Arguments : a.value[x] \in Int
  BY DEF Correct
<1>3. "nop" \in Opcodes /\ a.code \o <<"nop">> \in Seq(Opcodes)
  <2>1. "nop" \in Opcodes
    BY DEF Opcodes, OneByte
  <2> QED BY <1>2, <2>1, CodeAndOp
<1>4. ASSUME NEW x \in Arguments, NEW s \in Seq(Int)
      PROVE  Runs(a.code \o <<"nop">>, x, s, Append(s, a.value[x]), Len(s) + a.depth)
  <2> DEFINE u == Append(s, a.value[x])
             room == Len(s) + a.depth
  <2>1. room \in Nat
    BY <1>2
  <2>2. u \in Seq(Int) /\ Len(u) <= room /\ Runs(a.code, x, s, u, room)
    <3> HIDE DEF room
    <3>1. Len(s) + a.depth <= room
      BY <1>2 DEF room
    <3> QED BY <2>1, <3>1, OperandRuns
  <2>3. Effect("nop", x, u, u)
    BY DEF Effect
  <2> HIDE DEF u, room
  <2>4. Runs(a.code \o <<"nop">>, x, s, u, room)
    BY <1>2, <1>3, <2>1, <2>2, <2>3, Then
  <2> QED BY <2>4 DEF u, room
<1>20. ASSUME NEW x \in Arguments PROVE e.value[x] \in Int
  <2>1. <<>> \in Seq(Int)
    OBVIOUS
  <2> QED BY <1>1, <1>2, <2>1
<1>21. ASSUME NEW x \in Arguments, NEW s \in Seq(Int) PROVE Runs(e.code, x, s, Append(s, e.value[x]), Len(s) + e.depth)
  BY <1>1, <1>4
<1>22. e.code \in Seq(Opcodes) /\ e.depth \in Nat
  BY <1>1, <1>3, <1>2
<1> QED
  BY <1>20, <1>21, <1>22 DEF Correct

\* An operator on one operand.
LEMMA OfOperandCorrect ==
  ASSUME NEW a, Correct(a), NEW op \in Unary, NEW e, e = OfOperand(op, a)
  PROVE  Correct(e)
<1>1. e.code = a.code \o <<op>> /\ e.depth = a.depth /\ \A x \in Arguments : e.value[x] = OfOne(op, a.value[x])
  BY DEF OfOperand
<1>2. a.code \in Seq(Opcodes) /\ a.depth \in Nat /\ op \in Opcodes /\ \A x \in Arguments : a.value[x] \in Int
  BY DEF Correct, Unary, Opcodes, OneByte
<1>3. a.code \o <<op>> \in Seq(Opcodes)
  BY <1>2, CodeAndOp
<1>4. ASSUME NEW x \in Arguments, NEW s \in Seq(Int)
      PROVE  /\ e.value[x] \in Int
             /\ Runs(a.code \o <<op>>, x, s, Append(s, e.value[x]), Len(s) + a.depth)
  <2> DEFINE u == Append(s, a.value[x])
             v == Append(s, e.value[x])
             room == Len(s) + a.depth
  <2>1. room \in Nat
    BY <1>2
  <2>2. u \in Seq(Int) /\ Len(u) <= room /\ Runs(a.code, x, s, u, room)
    <3> HIDE DEF room
    <3>1. Len(s) + a.depth <= room
      BY <1>2 DEF room
    <3> QED BY <2>1, <3>1, OperandRuns
  <2>3. e.value[x] \in Int
    BY <1>1, <1>2, OneIsInt
  <2>4. Effect(op, x, u, v)
    BY <1>1, <1>2, UnaryEffect
  <2>5. v \in Seq(Int) /\ Len(v) = Len(u)
    BY <1>2, <2>3
  <2> HIDE DEF u, v, room
  <2>6. Runs(a.code \o <<op>>, x, s, v, room)
    BY <1>2, <2>1, <2>2, <2>4, <2>5, Then
  <2> QED BY <2>3, <2>6 DEF v, room
<1>20. ASSUME NEW x \in Arguments PROVE e.value[x] \in Int
  <2>1. <<>> \in Seq(Int)
    OBVIOUS
  <2> QED BY <1>4, <2>1
<1>21. ASSUME NEW x \in Arguments, NEW s \in Seq(Int) PROVE Runs(e.code, x, s, Append(s, e.value[x]), Len(s) + e.depth)
  BY <1>1, <1>4
<1>22. e.code \in Seq(Opcodes) /\ e.depth \in Nat
  BY <1>1, <1>3, <1>2
<1> QED
  BY <1>20, <1>21, <1>22 DEF Correct

\* An operator on an operand and its copy.
LEMMA OfItselfCorrect ==
  ASSUME NEW a, Correct(a), NEW op \in Binary, NEW e, e = OfItself(op, a)
  PROVE  Correct(e)
<1>1. e.code = a.code \o <<"dup">> \o <<op>> /\ e.depth = Deeper(a.depth, 2)
      /\ \A x \in Arguments : e.value[x] = Meaning(op, a.value[x], a.value[x])
  BY DEF OfItself
<1>2. a.code \in Seq(Opcodes) /\ a.depth \in Nat /\ op \in Opcodes /\ \A x \in Arguments : a.value[x] \in Int
  BY DEF Correct, Binary, Opcodes, OneByte
<1>3. "dup" \in Opcodes /\ a.code \o <<"dup">> \in Seq(Opcodes)
  <2>1. "dup" \in Opcodes
    BY DEF Opcodes, OneByte
  <2> QED BY <1>2, <2>1, CodeAndOp
<1>5. e.depth \in Nat /\ e.depth >= a.depth /\ e.depth >= 2
  BY <1>1, <1>2 DEF Deeper
<1>6. ASSUME NEW x \in Arguments, NEW s \in Seq(Int)
      PROVE  /\ e.value[x] \in Int
             /\ Runs(e.code, x, s, Append(s, e.value[x]), Len(s) + e.depth)
  <2> DEFINE va == a.value[x]
             u == Append(s, va)
             w == Append(u, va)
             v == Append(s, e.value[x])
             room == Len(s) + e.depth
  <2>1. room \in Nat /\ Len(s) + 2 <= room /\ Len(s) + a.depth <= room /\ Len(s) \in Nat
    BY <1>2, <1>5
  <2>2. va \in Int /\ u \in Seq(Int) /\ Len(u) = Len(s) + 1 /\ Runs(a.code, x, s, u, room)
    <3> HIDE DEF room
    <3> QED BY <2>1, OperandRuns
  <2>3. w \in Seq(Int) /\ Len(w) = Len(s) + 2
    <3> HIDE DEF u
    <3> QED BY <2>1, <2>2
  <2>4. e.value[x] = OfTwo(op, va, va) /\ e.value[x] \in Int
    <3> HIDE DEF va
    <3>1. e.value[x] = Meaning(op, va, va)
      BY <1>1 DEF va
    <3> QED BY <2>2, <3>1, TwoMeans
  <2>5. Effect("dup", x, u, w)
    BY <2>2, DupEffect
  <2>6. Effect(op, x, w, v)
    BY <2>2, <2>4, BinaryEffect
  <2>7. v \in Seq(Int) /\ Len(v) = Len(s) + 1
    BY <2>4
  <2> HIDE DEF va, u, w, v, room
  <2>8. Len(u) <= room /\ Len(w) <= room /\ Len(v) <= room
    BY <2>1, <2>2, <2>3, <2>7
  <2>9. Runs(a.code \o <<"dup">>, x, s, w, room)
    BY <1>2, <1>3, <2>1, <2>2, <2>3, <2>5, <2>8, Then
  <2> DEFINE c == a.code \o <<"dup">>
  <2>10. c \in Seq(Opcodes) /\ Runs(c, x, s, w, room)
    BY <1>3, <2>9
  <2>11. Runs(c \o <<op>>, x, s, v, room)
    <3> HIDE DEF c
    <3> QED BY <1>2, <2>1, <2>3, <2>6, <2>7, <2>8, <2>10, Then
  <2> QED BY <1>1, <2>4, <2>11 DEF v, room
<1>7. e.code \in Seq(Opcodes)
  <2> DEFINE c == a.code \o <<"dup">>
  <2>1. c \in Seq(Opcodes)
    BY <1>3
  <2> HIDE DEF c
  <2>2. c \o <<op>> \in Seq(Opcodes)
    BY <1>2, <2>1, CodeAndOp
  <2> QED BY <1>1, <2>2 DEF c
<1>20. ASSUME NEW x \in Arguments PROVE e.value[x] \in Int
  <2>1. <<>> \in Seq(Int)
    OBVIOUS
  <2> QED BY <1>6, <2>1
<1>21. ASSUME NEW x \in Arguments, NEW s \in Seq(Int) PROVE Runs(e.code, x, s, Append(s, e.value[x]), Len(s) + e.depth)
  BY <1>1, <1>6
<1>22. e.code \in Seq(Opcodes) /\ e.depth \in Nat
  BY <1>1, <1>7, <1>2, <1>5
<1> QED
  BY <1>20, <1>21, <1>22 DEF Correct

\* An operator on two operands.
LEMMA OfOperandsCorrect ==
  ASSUME NEW a, Correct(a), NEW b, Correct(b), NEW op \in Binary, NEW e, e = OfOperands(op, a, b)
  PROVE  Correct(e)
<1>1. e.code = a.code \o b.code \o <<op>> /\ e.depth = Deeper(a.depth, b.depth + 1)
      /\ \A x \in Arguments : e.value[x] = Meaning(op, a.value[x], b.value[x])
  BY DEF OfOperands
<1>2. a.code \in Seq(Opcodes) /\ a.depth \in Nat /\ b.code \in Seq(Opcodes) /\ b.depth \in Nat /\ op \in Opcodes
  BY DEF Correct, Binary, Opcodes, OneByte
<1> DEFINE c == a.code \o b.code
<1>3. c \in Seq(Opcodes)
  BY <1>2
<1>4. c \o <<op>> \in Seq(Opcodes)
  <2> HIDE DEF c
  <2> QED BY <1>2, <1>3, CodeAndOp
<1>5. e.depth \in Nat /\ e.depth >= a.depth /\ e.depth >= b.depth + 1
  BY <1>1, <1>2 DEF Deeper
<1>6. ASSUME NEW x \in Arguments, NEW s \in Seq(Int)
      PROVE  /\ e.value[x] \in Int
             /\ Runs(c \o <<op>>, x, s, Append(s, e.value[x]), Len(s) + e.depth)
  <2> DEFINE va == a.value[x]
             vb == b.value[x]
             u == Append(s, va)
             w == Append(u, vb)
             v == Append(s, e.value[x])
             room == Len(s) + e.depth
  <2>1. room \in Nat /\ Len(s) + a.depth <= room /\ (Len(s) + 1) + b.depth <= room /\ Len(s) \in Nat
    <3> DEFINE h  == Len(s)
               da == a.depth
               db == b.depth
               de == e.depth
    <3>1. h \in Nat /\ da \in Nat /\ db \in Nat /\ de \in Nat /\ de >= da /\ de >= db + 1
      BY <1>2, <1>5
    <3> HIDE DEF h, da, db, de
    <3>2. h + de \in Nat /\ h + da <= h + de /\ (h + 1) + db <= h + de
      BY <3>1
    <3> QED BY <3>1, <3>2 DEF h, da, db, de
  <2>2. va \in Int /\ u \in Seq(Int) /\ Len(u) = Len(s) + 1 /\ Runs(a.code, x, s, u, room) /\ Len(s) + 1 <= room
    <3> HIDE DEF room
    <3> QED BY <2>1, OperandRuns
  <2>3. vb \in Int /\ w \in Seq(Int) /\ Len(w) = Len(u) + 1 /\ Runs(b.code, x, u, w, room) /\ Len(u) + 1 <= room
    <3> HIDE DEF room, u
    <3>1. Len(u) + b.depth <= room
      BY <2>1, <2>2
    <3> QED BY <2>1, <2>2, <3>1, OperandRuns
  <2>4. e.value[x] = OfTwo(op, va, vb) /\ e.value[x] \in Int
    <3> HIDE DEF va, vb
    <3>1. e.value[x] = Meaning(op, va, vb)
      BY <1>1 DEF va, vb
    <3> QED BY <2>2, <2>3, <3>1, TwoMeans
  <2>5. Effect(op, x, w, v)
    BY <2>2, <2>3, <2>4, BinaryEffect
  <2>6. v \in Seq(Int) /\ Len(v) = Len(s) + 1
    BY <2>4
  <2> HIDE DEF va, vb, u, w, v, room
  <2>7. Runs(c, x, s, w, room)
    BY <1>2, <2>1, <2>2, <2>3, Join
  <2>8. Len(w) <= room /\ Len(v) <= room
    BY <2>1, <2>2, <2>3, <2>6
  <2>9. Runs(c \o <<op>>, x, s, v, room)
    <3> HIDE DEF c
    <3> QED BY <1>2, <1>3, <2>1, <2>3, <2>5, <2>6, <2>7, <2>8, Then
  <2> QED BY <2>4, <2>9 DEF v, room
<1>20. ASSUME NEW x \in Arguments PROVE e.value[x] \in Int
  <2>1. <<>> \in Seq(Int)
    OBVIOUS
  <2> QED BY <1>6, <2>1
<1>21. ASSUME NEW x \in Arguments, NEW s \in Seq(Int) PROVE Runs(e.code, x, s, Append(s, e.value[x]), Len(s) + e.depth)
  BY <1>1, <1>6
<1>22. e.code \in Seq(Opcodes) /\ e.depth \in Nat
  BY <1>1, <1>4, <1>2, <1>5
<1> QED
  BY <1>20, <1>21, <1>22 DEF Correct

\* A value clamped between two others.
LEMMA LimitedCorrect ==
  ASSUME NEW a, Correct(a), NEW low, Correct(low), NEW high, Correct(high), NEW e, e = Limited(a, low, high)
  PROVE  Correct(e)
<1>1. e.code = a.code \o low.code \o high.code \o <<"clamp">>
      /\ e.depth = Deeper(a.depth, Deeper(low.depth + 1, high.depth + 2))
      /\ \A x \in Arguments : e.value[x] = OfThree(a.value[x], low.value[x], high.value[x])
  BY DEF Limited
<1>2. a.code \in Seq(Opcodes) /\ a.depth \in Nat /\ low.code \in Seq(Opcodes) /\ low.depth \in Nat
      /\ high.code \in Seq(Opcodes) /\ high.depth \in Nat
  BY DEF Correct
<1> DEFINE c == a.code \o low.code
           d == c \o high.code
<1>3. c \in Seq(Opcodes)
  BY <1>2
<1>4. d \in Seq(Opcodes)
  <2> HIDE DEF c
  <2> QED BY <1>2, <1>3
<1>5. "clamp" \in Opcodes /\ d \o <<"clamp">> \in Seq(Opcodes)
  <2>1. "clamp" \in Opcodes
    BY DEF Opcodes, OneByte
  <2> HIDE DEF d
  <2> QED BY <1>4, <2>1, CodeAndOp
<1>6. e.depth \in Nat /\ e.depth >= a.depth /\ e.depth >= low.depth + 1 /\ e.depth >= high.depth + 2
  BY <1>1, <1>2 DEF Deeper
<1>7. ASSUME NEW x \in Arguments, NEW s \in Seq(Int)
      PROVE  /\ e.value[x] \in Int
             /\ Runs(d \o <<"clamp">>, x, s, Append(s, e.value[x]), Len(s) + e.depth)
  <2> DEFINE va == a.value[x]
             vl == low.value[x]
             vh == high.value[x]
             u == Append(s, va)
             w == Append(u, vl)
             z == Append(w, vh)
             v == Append(s, e.value[x])
             room == Len(s) + e.depth
  <2>1. room \in Nat /\ Len(s) + a.depth <= room /\ (Len(s) + 1) + low.depth <= room
        /\ (Len(s) + 2) + high.depth <= room /\ Len(s) \in Nat
    <3> DEFINE h  == Len(s)
               da == a.depth
               dl == low.depth
               dh == high.depth
               de == e.depth
    <3>1. h \in Nat /\ da \in Nat /\ dl \in Nat /\ dh \in Nat /\ de \in Nat
          /\ de >= da /\ de >= dl + 1 /\ de >= dh + 2
      BY <1>2, <1>6
    <3> HIDE DEF h, da, dl, dh, de
    <3>2. h + de \in Nat /\ h + da <= h + de /\ (h + 1) + dl <= h + de /\ (h + 2) + dh <= h + de
      BY <3>1
    <3> QED BY <3>1, <3>2 DEF h, da, dl, dh, de
  <2>2. va \in Int /\ u \in Seq(Int) /\ Len(u) = Len(s) + 1 /\ Runs(a.code, x, s, u, room) /\ Len(s) + 1 <= room
    <3> HIDE DEF room
    <3> QED BY <2>1, OperandRuns
  <2>3. vl \in Int /\ w \in Seq(Int) /\ Len(w) = Len(u) + 1 /\ Runs(low.code, x, u, w, room)
    <3> HIDE DEF room, u
    <3>1. Len(u) + low.depth <= room
      BY <2>1, <2>2
    <3> QED BY <2>1, <2>2, <3>1, OperandRuns
  <2>4. vh \in Int /\ z \in Seq(Int) /\ Len(z) = Len(w) + 1 /\ Runs(high.code, x, w, z, room) /\ Len(w) + 1 <= room
    <3> HIDE DEF room, u, w
    <3>1. Len(w) + high.depth <= room
      BY <2>1, <2>2, <2>3, <1>2
    <3> QED BY <2>1, <2>3, <3>1, OperandRuns
  <2>5. e.value[x] = OfThree(va, vl, vh) /\ e.value[x] \in Int
    <3> HIDE DEF va, vl, vh
    <3>1. e.value[x] = OfThree(va, vl, vh)
      BY <1>1 DEF va, vl, vh
    <3> QED BY <2>2, <2>3, <2>4, <3>1, ThreeIsInt
  <2>6. Effect("clamp", x, z, v)
    BY <2>2, <2>3, <2>4, <2>5, ClampEffect
  <2>7. v \in Seq(Int) /\ Len(v) = Len(s) + 1
    BY <2>5
  <2> HIDE DEF va, vl, vh, u, w, z, v, room
  <2>8. Runs(c, x, s, w, room)
    BY <1>2, <2>1, <2>2, <2>3, Join
  <2>9. Runs(d, x, s, z, room)
    <3> HIDE DEF c
    <3> QED BY <1>2, <1>3, <2>1, <2>4, <2>8, Join
  <2>10. Len(z) <= room /\ Len(v) <= room
    BY <2>1, <2>2, <2>3, <2>4, <2>7
  <2>11. Runs(d \o <<"clamp">>, x, s, v, room)
    <3> HIDE DEF d
    <3> QED BY <1>4, <1>5, <2>1, <2>4, <2>6, <2>7, <2>9, <2>10, Then
  <2> QED BY <2>5, <2>11 DEF v, room
<1>20. ASSUME NEW x \in Arguments PROVE e.value[x] \in Int
  <2>1. <<>> \in Seq(Int)
    OBVIOUS
  <2> QED BY <1>7, <2>1
<1>21. ASSUME NEW x \in Arguments, NEW s \in Seq(Int) PROVE Runs(e.code, x, s, Append(s, e.value[x]), Len(s) + e.depth)
  BY <1>1, <1>7
<1>22. e.code \in Seq(Opcodes) /\ e.depth \in Nat
  BY <1>1, <1>5, <1>2, <1>6
<1> QED
  BY <1>20, <1>21, <1>22 DEF Correct

-----------------------------------------------------------------------------
\* Whatever the compiler emits of right parts is right.
LEMMA EmittedCorrect ==
  ASSUME NEW parts, \A a \in parts : Correct(a), NEW e, Emitted(e, parts)
  PROVE  Correct(e)
<1>1. CASE e \in Leaves
  BY <1>1, LeafCorrect
<1>2. ASSUME NEW a \in parts, e = Padded(a) PROVE Correct(e)
  BY <1>2, PaddedCorrect
<1>3. ASSUME NEW a \in parts, NEW op \in Unary, e = OfOperand(op, a) PROVE Correct(e)
  BY <1>3, OfOperandCorrect
<1>4. ASSUME NEW a \in parts, NEW op \in Binary, e = OfItself(op, a) PROVE Correct(e)
  BY <1>4, OfItselfCorrect
<1>5. ASSUME NEW a \in parts, NEW b \in parts, NEW op \in Binary, e = OfOperands(op, a, b) PROVE Correct(e)
  BY <1>5, OfOperandsCorrect
<1>6. ASSUME NEW a \in parts, NEW b \in parts, NEW c \in parts, e = Limited(a, b, c) PROVE Correct(e)
  BY <1>6, LimitedCorrect
<1> QED
  BY <1>1, <1>2, <1>3, <1>4, <1>5, <1>6 DEF Emitted

\* The last of the parts of a compiled method, what it returns.
Whole(m) == m.parts[Len(m.parts)]

\* Every expression the compiler emitted leaves its value on the stack.
THEOREM CompiledCorrect ==
  ASSUME NEW m \in Methods, m.compiled
  PROVE  Correct(Whole(m)) /\ m.body = Whole(m).code \o <<"ret">> /\ Whole(m).depth <= StackSize
<1> DEFINE n == Len(m.parts)
           S == {k \in 0 .. n : \A j \in 1 .. k : Correct(m.parts[j])}
<1>1. n \in Nat \ {0} /\ m.body = Whole(m).code \o <<"ret">> /\ Whole(m).depth <= StackSize
  BY CompiledAssumption DEF Whole
<1>2. 0 \in S
  BY <1>1
<1>3. ASSUME NEW k \in 1 .. n, k - 1 \in S PROVE k \in S
  <2>1. \A j \in 1 .. (k - 1) : Correct(m.parts[j])
    BY <1>3
  <2>2. Emitted(m.parts[k], {m.parts[j] : j \in 1 .. (k - 1)})
    BY CompiledAssumption
  <2>3. \A a \in {m.parts[j] : j \in 1 .. (k - 1)} : Correct(a)
    BY <2>1
  <2>4. Correct(m.parts[k])
    <3> DEFINE parts == {m.parts[j] : j \in 1 .. (k - 1)}
    <3> HIDE DEF parts
    <3> QED BY <2>2, <2>3, EmittedCorrect DEF parts
  <2>5. \A j \in 1 .. k : j = k \/ j \in 1 .. (k - 1)
    BY <1>1
  <2> QED BY <1>1, <2>1, <2>4, <2>5
<1>4. \A k \in 0 .. n : k \in S
  <2> HIDE DEF S, n
  <2> QED BY <1>1, <1>2, <1>3, UpTo
<1>5. n \in S
  <2> HIDE DEF S
  <2> QED BY <1>1, <1>4
<1>6. Correct(m.parts[n])
  BY <1>1, <1>5
<1> QED
  BY <1>1, <1>6 DEF Whole

\* Its code runs on an empty stack within the room there is.
LEMMA CompiledRuns ==
  ASSUME NEW m \in Methods, m.compiled, NEW k \in DOMAIN Elements
  PROVE  /\ Whole(m).value[Elements[k]] \in Int
         /\ Runs(Whole(m).code, Elements[k], <<>>, <<Whole(m).value[Elements[k]]>>, StackSize)
<1> DEFINE e == Whole(m)
           x == Elements[k]
<1>1. Correct(e) /\ e.depth <= StackSize
  BY CompiledCorrect
<1>2. x \in Arguments
  BY DEF Arguments
<1>3. <<>> \in Seq(Int) /\ Len(<<>>) = 0
  OBVIOUS
<1> DEFINE none == <<>>
<1>4. none \in Seq(Int) /\ Len(none) = 0
  BY <1>3
<1>5. StackSize \in Nat
  BY NnilAssumption
<1>6. e.depth \in Nat
  BY <1>1 DEF Correct
<1>7. e.value[x] \in Int /\ Runs(e.code, x, none, Append(none, e.value[x]), StackSize)
  <2> HIDE DEF none, e, x
  <2>1. Len(none) + e.depth <= StackSize
    BY <1>1, <1>4, <1>5, <1>6
  <2> QED BY <1>1, <1>2, <1>4, <1>5, <2>1, OperandRuns
<1>8. Append(none, e.value[x]) = <<e.value[x]>>
  OBVIOUS
<1> QED
  BY <1>7, <1>8

-----------------------------------------------------------------------------
\* A run of a compiled method is at its element where the run of its expression is.
AtIts ==
  \E t : /\ IsRun(t, Whole(method).code, Elements[element], <<>>, <<Whole(method).value[Elements[element]]>>, StackSize)
         /\ next \in 1 .. Len(Whole(method).code) + 1
         /\ stack = t[next - 1]

\* The values that the variables take.
NnilType ==
  /\ method \in Methods
  /\ element \in 1 .. Len(Elements) + 1
  /\ stack \in Seq(Int)
  /\ DOMAIN produced = DOMAIN Elements

\* What is proved inductive about the methods.
NnilInv ==
  /\ NnilType
  /\ MethodsRun
  /\ method.compiled /\ element <= Len(Elements) => AtIts

\* Pushes keep to the evaluation stack.
LEMMA PushFits ==
  ASSUME NnilType, OnlyDupOverruns, NEW k \in Nat, NEW v, Len(stack) >= k => v \in Int, state = "running", Push(k, v)
  PROVE  /\ stack' \in Seq(Int) /\ Len(stack') <= StackSize
         /\ state' \in {"running", "thrown"}
         /\ UNCHANGED <<method, element, produced>>
<1>1. StackSize \in Nat /\ Len(stack) \in Nat /\ stack \in Seq(Int) /\ Len(stack) <= StackSize
  BY NnilAssumption DEF NnilType, OnlyDupOverruns
<1>2. CASE Throw
  BY <1>1, <1>2 DEF Throw
<1>3. CASE Len(stack) >= k /\ Room(Len(stack) - k) /\ Continue(Append(Popped(k), v))
  <2>1. Popped(k) \in Seq(Int) /\ Len(Popped(k)) = Len(stack) - k
    BY <1>1, <1>3 DEF Popped
  <2>2. Append(Popped(k), v) \in Seq(Int) /\ Len(Append(Popped(k), v)) = Len(stack) - k + 1
    BY <1>3, <2>1
  <2> QED BY <1>1, <1>3, <2>2 DEF Continue, Room
<1> QED
  BY <1>1, <1>2, <1>3 DEF Push

\* What is on top of a stack that is high enough.
LEMMA TopIsInt ==
  ASSUME NnilType, NEW k \in Nat \ {0}, Len(stack) >= k
  PROVE  Top(k) \in Int
<1>1. Len(stack) - k + 1 \in 1 .. Len(stack) /\ stack \in Seq(Int)
  BY DEF NnilType
<1> QED
  BY <1>1 DEF Top

\* Every instruction keeps the types, and only dup leaves the evaluation stack.
LEMMA StackKept ==
  ASSUME NnilType, OnlyDupOverruns, [NnilNext]_nnilVars
  PROVE  NnilType' /\ OnlyDupOverruns'
<1>1. StackSize \in Nat /\ Len(stack) \in Nat /\ Elements \in Seq(Int) /\ Len(Elements) \in Nat
      /\ stack \in Seq(Int) /\ Len(stack) <= StackSize /\ element \in 1 .. Len(Elements) + 1
  BY NnilAssumption DEF NnilType, OnlyDupOverruns
<1>2. ASSUME stack' \in Seq(Int), Len(stack') <= StackSize, state' \in {"running", "thrown"},
             UNCHANGED <<method, element, produced>>
      PROVE  NnilType' /\ OnlyDupOverruns'
  BY <1>2, <1>1 DEF NnilType, OnlyDupOverruns
<1>3. CASE UNCHANGED nnilVars
  BY <1>3 DEF nnilVars, NnilType, OnlyDupOverruns, Op
<1>4. CASE Nop
  BY <1>1, <1>2, <1>4 DEF Nop, Continue, Running
<1>5. CASE Dup
  <2>1. CASE stack = <<>>
    BY <1>1, <1>2, <1>5, <2>1 DEF Dup, Throw, Running
  <2>2. CASE stack # <<>> /\ Len(stack) < StackSize
    <3>1. Top(1) \in Int
      BY <1>1, <2>2, TopIsInt
    <3>2. stack' = Append(stack, Top(1)) /\ state' = "running" /\ UNCHANGED <<method, element, produced>>
      BY <1>5, <2>2 DEF Dup, Continue, Running
    <3>3. stack' \in Seq(Int) /\ Len(stack') <= StackSize
      BY <1>1, <2>2, <3>1, <3>2
    <3> QED BY <1>2, <3>2, <3>3
  <2>3. CASE stack # <<>> /\ ~(Len(stack) < StackSize)
    <3>1. UNCHANGED <<method, element, next, stack, produced>> /\ Op = "dup"
      BY <1>5, <2>3 DEF Dup
    <3>2. Len(stack) = StackSize
      BY <1>1, <2>3
    <3> QED BY <1>1, <3>1, <3>2 DEF NnilType, OnlyDupOverruns, Op
  <2> QED BY <2>1, <2>2, <2>3
<1>6. CASE Pop
  <2>1. CASE stack = <<>>
    BY <1>1, <1>2, <1>6, <2>1 DEF Pop, Throw, Running
  <2>2. CASE stack # <<>>
    <3>1. stack' = SubSeq(stack, 1, Len(stack) - 1) /\ state' = "running" /\ UNCHANGED <<method, element, produced>>
      BY <1>6, <2>2 DEF Pop, Popped, Continue, Running
    <3>2. stack' \in Seq(Int) /\ Len(stack') <= StackSize
      BY <1>1, <2>2, <3>1
    <3> QED BY <1>2, <3>1, <3>2
  <2> QED BY <2>1, <2>2
<1>7. CASE LoadValue
  <2>1. Elements[element] \in Int
    BY <1>1, <1>7 DEF LoadValue, Running
  <2>2. PICK v \in Int : Push(0, v)
    BY <1>7, <2>1, NnilAssumption DEF LoadValue
  <2>3. state = "running"
    BY <1>7 DEF LoadValue, Running
  <2>4. /\ stack' \in Seq(Int) /\ Len(stack') <= StackSize
        /\ state' \in {"running", "thrown"}
        /\ UNCHANGED <<method, element, produced>>
    BY <2>2, <2>3, PushFits
  <2> QED BY <1>2, <2>4
<1>8. CASE Compute
  <2>1. PICK k, v : k \in Nat /\ Push(k, v) /\ (Len(stack) >= k => v \in Int)
    <3>1. CASE Op \in Unary /\ Push(1, OfOne(Op, Top(1)))
      <4>1. Len(stack) >= 1 => OfOne(Op, Top(1)) \in Int
        BY <3>1, TopIsInt, OneIsInt
      <4> QED BY <3>1, <4>1
    <3>2. CASE Op \in Binary /\ Push(2, OfTwo(Op, Top(2), Top(1)))
      <4>1. Len(stack) >= 2 => Top(1) \in Int /\ Top(2) \in Int
        BY <1>1, TopIsInt
      <4>2. Len(stack) >= 2 => OfTwo(Op, Top(2), Top(1)) \in Int
        BY <3>2, <4>1, TwoMeans
      <4> QED BY <3>2, <4>2
    <3>3. CASE Op = "clamp" /\ Push(3, OfThree(Top(3), Top(2), Top(1)))
      <4>1. Len(stack) >= 3 => Top(1) \in Int /\ Top(2) \in Int /\ Top(3) \in Int
        BY <1>1, TopIsInt
      <4>2. Len(stack) >= 3 => OfThree(Top(3), Top(2), Top(1)) \in Int
        BY <4>1, ThreeIsInt
      <4> QED BY <3>3, <4>2
    <3> QED BY <1>8, <3>1, <3>2, <3>3 DEF Compute
  <2>2. state = "running"
    BY <1>8 DEF Compute, Running
  <2>3. /\ stack' \in Seq(Int) /\ Len(stack') <= StackSize
        /\ state' \in {"running", "thrown"}
        /\ UNCHANGED <<method, element, produced>>
    BY <2>1, <2>2, PushFits
  <2> QED BY <1>2, <2>3
<1>9. ASSUME NextElement, UNCHANGED <<method, state>>, state = "running", element <= Len(Elements),
             DOMAIN produced' = DOMAIN produced
      PROVE  NnilType' /\ OnlyDupOverruns'
  <2>1. stack' = <<>> /\ element' \in 1 .. Len(Elements) + 1
    BY <1>1, <1>9 DEF NextElement
  <2>2. <<>> \in Seq(Int) /\ Len(<<>>) = 0
    OBVIOUS
  <2> QED BY <1>1, <1>9, <2>1, <2>2 DEF NnilType, OnlyDupOverruns
<1>10. CASE Ret
  <2>1. CASE stack = <<>>
    BY <1>1, <1>2, <1>10, <2>1 DEF Ret, Throw, Running
  <2>2. CASE stack # <<>>
    BY <1>9, <1>10, <2>2 DEF Ret, Running
  <2> QED BY <2>1, <2>2
<1>11. CASE RunOut
  BY <1>9, <1>11 DEF RunOut
<1>12. CASE Invalid
  BY <1>1, <1>2, <1>12 DEF Invalid, Throw, Running
<1> QED
  BY <1>3, <1>4, <1>5, <1>6, <1>7, <1>8, <1>10, <1>11, <1>12 DEF NnilNext

\* The instruction that is next determines the step.
LEMMA OfTheOp ==
  ASSUME NnilNext, ~(next > Len(method.body))
  PROVE  \/ Op = "nop" /\ Nop
         \/ Op = "dup" /\ Dup
         \/ Op = "pop" /\ Pop
         \/ Op = "lda_0" /\ Push(0, Elements[element])
         \/ Op = "ldc_r4_0" /\ Push(0, 0)
         \/ Op = "ldc_r4_1" /\ Push(0, 1)
         \/ Op \in DOMAIN Literals /\ Push(0, Literals[Op])
         \/ Op \in Unary /\ Push(1, OfOne(Op, Top(1)))
         \/ Op \in Binary /\ Push(2, OfTwo(Op, Top(2), Top(1)))
         \/ Op = "clamp" /\ Push(3, OfThree(Top(3), Top(2), Top(1)))
         \/ Op = "ret" /\ Ret
         \/ Op \notin Opcodes
<1>1. ~RunOut
  BY DEF RunOut
<1> QED
  BY <1>1 DEF NnilNext, Nop, Dup, Pop, LoadValue, Compute, Ret, Invalid

\* No two of them are the same.
LEMMA OpsDiffer ==
  /\ Unary \cap Binary = {} /\ Unary \cup Binary \subseteq Opcodes
  /\ {"nop", "dup", "pop", "lda_0", "ldc_r4_0", "ldc_r4_1", "clamp", "ret"} \subseteq Opcodes
  /\ {"nop", "dup", "pop", "lda_0", "ldc_r4_0", "ldc_r4_1", "clamp", "ret"} \cap (Unary \cup Binary) = {}
  /\ DOMAIN Literals \subseteq Opcodes
  /\ DOMAIN Literals \cap ({"nop", "dup", "pop", "lda_0", "ldc_r4_0", "ldc_r4_1", "clamp", "ret"} \cup Unary \cup Binary) = {}
<1>1. /\ Unary \cap Binary = {} /\ Unary \cup Binary \subseteq Opcodes
      /\ {"nop", "dup", "pop", "lda_0", "ldc_r4_0", "ldc_r4_1", "clamp", "ret"} \subseteq Opcodes
      /\ {"nop", "dup", "pop", "lda_0", "ldc_r4_0", "ldc_r4_1", "clamp", "ret"} \cap (Unary \cup Binary) = {}
  BY DEF Unary, Binary, Opcodes, OneByte
<1>2. DOMAIN Literals \subseteq Opcodes
  BY DEF Opcodes
<1>3. DOMAIN Literals \cap ({"nop", "dup", "pop", "lda_0", "ldc_r4_0", "ldc_r4_1", "clamp", "ret"} \cup Unary \cup Binary) = {}
  BY NnilAssumption DEF OneByte
<1> QED
  BY <1>1, <1>2, <1>3

\* An instruction of a compiled body does what the run of its expression does.
LEMMA FollowsItsRun ==
  ASSUME NnilType, state = "running", NEW u \in Seq(Int), Len(u) <= StackSize,
         Effect(Op, Elements[element], stack, u), NnilNext, ~(next > Len(method.body))
  PROVE  stack' = u /\ next' = next + 1 /\ UNCHANGED <<method, element, produced, state>>
<1>1. StackSize \in Nat /\ Len(stack) \in Nat /\ stack \in Seq(Int)
  BY NnilAssumption DEF NnilType
<1>2. CASE Op = "nop" /\ u = stack
  BY <1>2, OfTheOp, OpsDiffer DEF Nop, Continue
<1>3. CASE Op = "dup" /\ Len(stack) >= 1 /\ u = Append(stack, stack[Len(stack)])
  <2>1. Dup
    BY <1>3, OfTheOp, OpsDiffer
  <2>2. stack # <<>> /\ Len(stack) < StackSize /\ Top(1) = stack[Len(stack)]
    <3>1. Len(u) = Len(stack) + 1
      BY <1>1, <1>3
    <3>2. Len(stack) - 1 + 1 = Len(stack)
      BY <1>1
    <3> QED BY <1>1, <1>3, <3>1, <3>2 DEF Top
  <2> QED BY <1>3, <2>1, <2>2 DEF Dup, Continue
<1>4. ASSUME NEW k \in Nat, NEW v, Push(k, v), Len(stack) >= k, u = Append(SubSeq(stack, 1, Len(stack) - k), v)
      PROVE  stack' = u /\ next' = next + 1 /\ UNCHANGED <<method, element, produced, state>>
  <2>1. Len(u) = Len(stack) - k + 1
    BY <1>1, <1>4
  <2>2. Room(Len(stack) - k) /\ ~(Len(stack) < k)
    BY <1>1, <1>4, <2>1 DEF Room
  <2> QED BY <1>4, <2>2 DEF Push, Continue, Popped
<1>5. SubSeq(stack, 1, Len(stack) - 0) = stack
  BY <1>1
<1>6. ASSUME NEW v, Push(0, v), u = Append(stack, v)
      PROVE  stack' = u /\ next' = next + 1 /\ UNCHANGED <<method, element, produced, state>>
  BY <1>1, <1>4, <1>5, <1>6
<1>7. CASE Op = "lda_0" /\ u = Append(stack, Elements[element])
  <2>1. Push(0, Elements[element])
    BY <1>7, OfTheOp, OpsDiffer
  <2> QED BY <1>6, <1>7, <2>1
<1>8. CASE Op = "ldc_r4_0" /\ u = Append(stack, 0)
  <2>1. Push(0, 0)
    BY <1>8, OfTheOp, OpsDiffer
  <2> QED BY <1>6, <1>8, <2>1
<1>9. CASE Op = "ldc_r4_1" /\ u = Append(stack, 1)
  <2>1. Push(0, 1)
    BY <1>9, OfTheOp, OpsDiffer
  <2> QED BY <1>6, <1>9, <2>1
<1>10. CASE Op \in Unary /\ Len(stack) >= 1 /\ u = Append(SubSeq(stack, 1, Len(stack) - 1), OfOne(Op, stack[Len(stack)]))
  <2>1. Push(1, OfOne(Op, Top(1)))
    BY <1>10, OfTheOp, OpsDiffer
  <2>2. Len(stack) - 1 + 1 = Len(stack)
    BY <1>1
  <2>3. Top(1) = stack[Len(stack)]
    BY <2>2 DEF Top
  <2> QED BY <1>4, <1>10, <2>1, <2>3
<1>11. CASE Op \in Binary /\ Len(stack) >= 2
            /\ u = Append(SubSeq(stack, 1, Len(stack) - 2), OfTwo(Op, stack[Len(stack) - 1], stack[Len(stack)]))
  <2>1. Push(2, OfTwo(Op, Top(2), Top(1)))
    BY <1>11, OfTheOp, OpsDiffer
  <2>2. Len(stack) - 1 + 1 = Len(stack) /\ Len(stack) - 2 + 1 = Len(stack) - 1
    BY <1>1
  <2>3. Top(1) = stack[Len(stack)] /\ Top(2) = stack[Len(stack) - 1]
    BY <2>2 DEF Top
  <2> QED BY <1>4, <1>11, <2>1, <2>3
<1>12. CASE Op = "clamp" /\ Len(stack) >= 3
            /\ u = Append(SubSeq(stack, 1, Len(stack) - 3), OfThree(stack[Len(stack) - 2], stack[Len(stack) - 1], stack[Len(stack)]))
  <2>1. Push(3, OfThree(Top(3), Top(2), Top(1)))
    BY <1>12, OfTheOp, OpsDiffer
  <2>2. Len(stack) - 1 + 1 = Len(stack) /\ Len(stack) - 2 + 1 = Len(stack) - 1 /\ Len(stack) - 3 + 1 = Len(stack) - 2
    BY <1>1
  <2>3. Top(1) = stack[Len(stack)] /\ Top(2) = stack[Len(stack) - 1] /\ Top(3) = stack[Len(stack) - 2]
    BY <2>2 DEF Top
  <2> QED BY <1>4, <1>12, <2>1, <2>3
<1>13. CASE Op \in DOMAIN Literals /\ u = Append(stack, Literals[Op])
  <2>1. Push(0, Literals[Op])
    BY <1>13, OfTheOp, OpsDiffer
  <2> QED BY <1>6, <1>13, <2>1
<1> QED
  BY <1>2, <1>3, <1>7, <1>8, <1>9, <1>10, <1>11, <1>12, <1>13 DEF Effect

\* A compiled method begins where the run of its expression does.
LEMMA BeginsIt ==
  ASSUME method \in Methods, method.compiled, element \in DOMAIN Elements, next = 1, stack = <<>>
  PROVE  AtIts
<1>1. Runs(Whole(method).code, Elements[element], <<>>, <<Whole(method).value[Elements[element]]>>, StackSize)
  BY CompiledRuns
<1>2. PICK t : IsRun(t, Whole(method).code, Elements[element], <<>>, <<Whole(method).value[Elements[element]]>>, StackSize)
  BY <1>1 DEF Runs
<1>3. t[0] = <<>> /\ Whole(method).code \in Seq(Opcodes)
  BY <1>2, CompiledCorrect DEF IsRun, Correct
<1>4. next \in 1 .. Len(Whole(method).code) + 1 /\ next - 1 = 0
  BY <1>3
<1> QED
  BY <1>2, <1>3, <1>4 DEF AtIts

\* The invariant that is inductive: a compiled method is where the run of its expression is.
THEOREM NnilInvAlways == NnilSpec => []NnilInv
<1>1. NnilInit => NnilInv
  <2> SUFFICES ASSUME NnilInit PROVE NnilInv
    OBVIOUS
  <2>1. StackSize \in Nat /\ Elements \in Seq(Int) /\ Len(Elements) \in Nat
    BY NnilAssumption
  <2>2. <<>> \in Seq(Int) /\ Len(<<>>) = 0
    OBVIOUS
  <2>3. NnilType /\ OnlyDupOverruns /\ NnilComputes
    BY <2>1, <2>2 DEF NnilInit, NnilType, OnlyDupOverruns, NnilComputes
  <2>4. ASSUME method.compiled, element <= Len(Elements) PROVE AtIts
    <3>1. element \in DOMAIN Elements
      BY <2>1, <2>4 DEF NnilInit
    <3> QED BY <2>4, <3>1, BeginsIt DEF NnilInit
  <2> QED BY <2>3, <2>4 DEF NnilInv, MethodsRun
<1>2. NnilInv /\ [NnilNext]_nnilVars => NnilInv'
  <2> SUFFICES ASSUME NnilInv, [NnilNext]_nnilVars PROVE NnilInv'
    OBVIOUS
  <2>1. NnilType /\ OnlyDupOverruns /\ NnilComputes
    BY DEF NnilInv, MethodsRun
  <2>2. NnilType' /\ OnlyDupOverruns'
    BY <2>1, StackKept
  <2>3. CASE UNCHANGED nnilVars
    BY <2>3, <2>1, <2>2 DEF nnilVars, NnilInv, MethodsRun, NnilComputes, AtIts
  <2>4. CASE NnilNext
    <3>1. method' = method
      BY <2>4 DEF NnilNext, Nop, Dup, Pop, LoadValue, Compute, Ret, RunOut, Invalid, Push, Throw, Continue
    <3>2. CASE ~method.compiled
      BY <2>2, <3>1, <3>2 DEF NnilInv, MethodsRun, NnilComputes
    <3>3. CASE method.compiled
      <4> DEFINE e == Whole(method)
                 n == Len(e.code)
                 x == Elements[element]
                 v == e.value[x]
      <4>1. Correct(e) /\ method.body = e.code \o <<"ret">>
        BY <3>3, <2>1, CompiledCorrect DEF NnilType
      <4>2. state = "running" /\ element <= Len(Elements)
        BY <3>3, <2>1, <2>4 DEF NnilComputes, NnilNext, Nop, Dup, Pop, LoadValue, Compute, Ret, RunOut, Invalid, Running
      <4>3. PICK t : /\ IsRun(t, e.code, x, <<>>, <<v>>, StackSize)
                     /\ next \in 1 .. n + 1
                     /\ stack = t[next - 1]
        BY <3>3, <4>2 DEF NnilInv, AtIts
      <4>4. n \in Nat /\ e.code \in Seq(Opcodes)
        BY <4>1 DEF Correct
      <4>5. Len(method.body) = n + 1 /\ method.body[n + 1] = "ret" /\ \A k \in 1 .. n : method.body[k] = e.code[k]
        <5>1. "ret" \in Opcodes
          BY OpsDiffer
        <5> HIDE DEF e
        <5> QED BY <4>1, <4>4, <5>1, CodeAndOp
      <4>6. element \in DOMAIN Elements /\ Len(Elements) \in Nat /\ element \in Nat \ {0}
        BY <2>1, <4>2, NnilAssumption DEF NnilType
      <4>7. ~(next > Len(method.body))
        BY <4>3, <4>4, <4>5
      <4> HIDE DEF e, n, x, v
      <4>8. CASE next <= n
        <5>1. next \in 1 .. n /\ next \in 0 .. n /\ Op = e.code[next]
          BY <4>3, <4>4, <4>5, <4>8 DEF Op
        <5>2. Effect(e.code[next], x, t[next - 1], t[next]) /\ t[next] \in Seq(Int) /\ Len(t[next]) <= StackSize
          BY <4>3, <5>1 DEF IsRun, n
        <5>3. stack' = t[next] /\ next' = next + 1 /\ UNCHANGED <<method, element, produced, state>>
          BY <2>1, <2>4, <4>2, <4>3, <4>7, <5>1, <5>2, FollowsItsRun DEF x
        <5>4. next' \in 1 .. n + 1 /\ next' - 1 = next
          BY <5>1, <5>3, <4>4
        <5>5. AtIts'
          BY <4>3, <5>3, <5>4 DEF AtIts, e, n, x, v
        <5>6. NnilComputes'
          BY <2>1, <5>3 DEF NnilComputes
        <5> QED BY <2>2, <5>5, <5>6 DEF NnilInv, MethodsRun
      <4>9. CASE next = n + 1
        <5>1. Op = "ret" /\ stack = <<v>>
          <6>1. Op = "ret" /\ next - 1 = n
            BY <4>4, <4>5, <4>9 DEF Op
          <6>2. t[n] = <<v>>
            BY <4>3 DEF IsRun, n
          <6> QED BY <4>3, <6>1, <6>2
        <5>2. Ret
          BY <2>4, <4>7, <5>1, OfTheOp, OpsDiffer
        <5>3. stack # <<>> /\ Top(1) = v
          BY <5>1 DEF Top
        <5>4. produced' = [produced EXCEPT ![element] = v] /\ element' = element + 1 /\ next' = 1 /\ stack' = <<>> /\ state' = state
          BY <5>2, <5>3 DEF Ret, NextElement
        <5>5. NnilComputes'
          <6>1. ASSUME NEW k \in 1 .. (element' - 1) PROVE produced'[k] = e.value[Elements[k]]
            <7>1. CASE k = element
              BY <2>1, <4>6, <5>4, <7>1 DEF NnilType, v, x
            <7>2. CASE k # element
              <8>1. k \in 1 .. (element - 1)
                BY <4>6, <5>4, <7>2
              <8>2. produced[k] = e.value[Elements[k]]
                BY <2>1, <3>3, <8>1 DEF NnilComputes, e, Whole
              <8> QED BY <5>4, <7>2, <8>2
            <7> QED BY <7>1, <7>2
          <6> QED BY <3>1, <4>2, <5>4, <6>1 DEF NnilComputes, e, Whole
        <5>6. ASSUME element' <= Len(Elements) PROVE AtIts'
          <6>1. element' \in DOMAIN Elements
            BY <4>6, <5>4, <5>6, NnilAssumption
          <6>2. (method \in Methods /\ method.compiled /\ element \in DOMAIN Elements /\ next = 1 /\ stack = <<>> => AtIts)'
            BY BeginsIt, PTL
          <6> QED BY <2>2, <3>1, <3>3, <5>4, <6>1, <6>2 DEF NnilType
        <5> QED BY <2>2, <5>5, <5>6 DEF NnilInv, MethodsRun
      <4> QED BY <4>3, <4>4, <4>8, <4>9
    <3> QED BY <3>2, <3>3
  <2> QED BY <2>3, <2>4
<1> QED
  BY <1>1, <1>2, PTL DEF NnilSpec

\* Whatever the expressions and the arguments.
THEOREM MethodsRunCorrect == NnilSpec => []MethodsRun
<1>1. NnilInv => MethodsRun
  BY DEF NnilInv
<1> QED
  BY <1>1, NnilInvAlways, PTL

-----------------------------------------------------------------------------
\* What a division gives.
LEMMA DivMod ==
  ASSUME NEW p \in Nat, NEW n \in Nat \ {0}
  PROVE  p \div n \in Nat /\ p % n \in 0 .. n - 1 /\ p = (p \div n) * n + (p % n)
  OBVIOUS

\* Multiplying keeps the order.
LEMMA Grows ==
  ASSUME NEW m \in Nat, NEW q \in Nat, q >= m, NEW n \in Nat
  PROVE  q * n >= m * n /\ q * n \in Nat /\ m * n \in Nat
<1>1. q * n = m * n + (q - m) * n /\ (q - m) * n >= 0 /\ m * n >= 0 /\ q * n \in Int /\ m * n \in Int /\ (q - m) * n \in Int
  OBVIOUS
<1> DEFINE a == q * n
           b == m * n
           c == (q - m) * n
<1>2. a = b + c /\ c >= 0 /\ b >= 0 /\ a \in Int /\ b \in Int /\ c \in Int
  BY <1>1
<1> HIDE DEF a, b, c
<1>3. a >= b /\ a \in Nat /\ b \in Nat
  BY <1>2
<1> QED
  BY <1>3 DEF a, b

\* Digits are unique.
LEMMA Digits ==
  ASSUME NEW n \in Nat \ {0}, NEW a \in Nat, NEW b \in Nat, NEW r \in 0 .. n - 1, NEW s \in 0 .. n - 1,
         a * n + r = b * n + s
  PROVE  a = b /\ r = s
<1>1. ASSUME NEW c \in Nat, NEW d \in Nat, c < d PROVE c * n + n <= d * n
  <2>1. c + 1 <= d
    BY <1>1
  <2>2. (c + 1) * n <= d * n
    <3>1. PICK e \in Nat : d = (c + 1) + e
      <4>1. d - (c + 1) \in Nat /\ d = (c + 1) + (d - (c + 1))
        BY <2>1
      <4> QED BY <4>1
    <3>2. d * n = (c + 1) * n + e * n /\ e * n >= 0
      BY <3>1
    <3>3. (c + 1) * n \in Int /\ e * n \in Int /\ d * n \in Int
      OBVIOUS
    <3> QED BY <3>2, <3>3
  <2>3. (c + 1) * n = c * n + n
    OBVIOUS
  <2> QED BY <2>2, <2>3
<1>2. a * n \in Int /\ b * n \in Int
  OBVIOUS
<1>3. ~(a < b)
  <2> SUFFICES ASSUME a < b PROVE FALSE
    OBVIOUS
  <2>1. a * n + n <= b * n
    BY <1>1
  <2> QED BY <1>2, <2>1
<1>4. ~(b < a)
  <2> SUFFICES ASSUME b < a PROVE FALSE
    OBVIOUS
  <2>1. b * n + n <= a * n
    BY <1>1
  <2> QED BY <1>2, <2>1
<1>5. a = b
  BY <1>3, <1>4
<1> QED
  BY <1>2, <1>5

\* Dividing by a product is dividing by one factor and then by the other.
LEMMA DivDiv ==
  ASSUME NEW p \in Nat, NEW m \in Nat \ {0}, NEW n \in Nat \ {0}
  PROVE  p \div (m * n) = (p \div n) \div m
<1> DEFINE q == p \div n
           r == p % n
           s == q \div m
           t == q % m
           k == m * n
<1>1. q \in Nat /\ r \in 0 .. n - 1 /\ p = q * n + r
  BY DivMod
<1>2. s \in Nat /\ t \in 0 .. m - 1 /\ q = s * m + t
  <2> HIDE DEF q
  <2> QED BY <1>1, DivMod
<1>3. k \in Nat \ {0}
  <2>1. m * n >= m
    BY m * n = m + m * (n - 1), m * (n - 1) >= 0, m * (n - 1) \in Int
  <2> QED BY <2>1
<1>4. p \div k \in Nat /\ p % k \in 0 .. k - 1 /\ p = (p \div k) * k + (p % k)
  <2> HIDE DEF k
  <2> QED BY <1>3, DivMod
<1> DEFINE d == p \div k
           e == p % k
<1> HIDE DEF q, r, s, t, d, e
<1>5. t * n + r \in 0 .. k - 1
  <2>1. t * n \in Nat /\ t * n + n <= k
    <3>1. (m - 1 - t) * n >= 0 /\ (m - 1 - t) * n = k - n - t * n /\ t * n \in Int /\ k \in Int /\ t * n >= 0
      BY <1>2
    <3> HIDE DEF k
    <3> QED BY <3>1
  <2> HIDE DEF k
  <2> QED BY <1>1, <1>3, <2>1
<1>6. p = s * k + (t * n + r)
  <2>1. p = (s * m + t) * n + r
    BY <1>1, <1>2
  <2>2. (s * m + t) * n = s * (m * n) + t * n
    BY <1>2
  <2>3. s * (m * n) \in Int /\ t * n \in Int
    BY <1>2
  <2> DEFINE a == s * (m * n)
             b == t * n
             c == (s * m + t) * n
  <2>4. a \in Int /\ b \in Int /\ c = a + b /\ p = c + r /\ r \in Int
    BY <1>1, <2>1, <2>2, <2>3
  <2> HIDE DEF a, b, c
  <2>5. p = a + (b + r)
    BY <2>4
  <2> QED BY <2>5 DEF a, b
<1>7. d = s
  <2> DEFINE u == t * n + r
  <2>1. u \in 0 .. k - 1 /\ s * k + u = d * k + e
    BY <1>4, <1>5, <1>6 DEF d, e
  <2> HIDE DEF u, k
  <2> QED BY <1>2, <1>3, <1>4, <2>1, Digits DEF d, e
<1> QED
  BY <1>7 DEF d, s, q

\* A shape of four extents, none of them empty.
Shape(s) == s \in [1 .. 4 -> Nat \ {0}]

\* Every address of a tensor is the offset of its index.
LEMMA OffsetOfIndex ==
  ASSUME NEW s, Shape(s), NEW p \in 0 .. compute_size(s) - 1
  PROVE  /\ \A k \in 1 .. 4 : Index(s, p)[k] \in 0 .. s[k] - 1
         /\ offset(s, Index(s, p)) = p
<1> DEFINE n1 == s[1]
           n2 == s[2]
           n3 == s[3]
           n4 == s[4]
           q3 == p \div n4
           q2 == q3 \div n3
           q1 == q2 \div n2
           i == Index(s, p)
<1>1. n1 \in Nat \ {0} /\ n2 \in Nat \ {0} /\ n3 \in Nat \ {0} /\ n4 \in Nat \ {0}
  BY DEF Shape
<1>2. p \in Nat /\ p < n1 * n2 * n3 * n4 /\ n1 * n2 * n3 * n4 \in Int
  BY <1>1 DEF compute_size
<1>3. q3 \in Nat /\ p % n4 \in 0 .. n4 - 1 /\ p = q3 * n4 + (p % n4)
  <2> HIDE DEF n4
  <2> QED BY <1>1, <1>2, DivMod
<1>4. q2 \in Nat /\ q3 % n3 \in 0 .. n3 - 1 /\ q3 = q2 * n3 + (q3 % n3)
  <2> HIDE DEF q3, n3
  <2> QED BY <1>1, <1>3, DivMod
<1>5. q1 \in Nat /\ q2 % n2 \in 0 .. n2 - 1 /\ q2 = q1 * n2 + (q2 % n2)
  <2> HIDE DEF q2, n2
  <2> QED BY <1>1, <1>4, DivMod
<1>6. n3 * n4 \in Nat \ {0} /\ n2 * n3 \in Nat \ {0}
  <2> HIDE DEF n2, n3, n4
  <2>1. n3 * n4 >= n3 /\ n2 * n3 >= n2
    BY <1>1, n3 * n4 = n3 + n3 * (n4 - 1), n3 * (n4 - 1) >= 0, n3 * (n4 - 1) \in Int,
       n2 * n3 = n2 + n2 * (n3 - 1), n2 * (n3 - 1) >= 0, n2 * (n3 - 1) \in Int
  <2> QED BY <1>1, <2>1
<1>7. p \div (n3 * n4) = q2
  <2> HIDE DEF n3, n4
  <2> QED BY <1>1, <1>2, DivDiv
<1>8. p \div (n2 * n3 * n4) = q1
  <2> HIDE DEF n2, n3, n4
  <2>1. n2 * n3 * n4 = n2 * (n3 * n4)
    BY <1>1
  <2>2. p \div (n2 * (n3 * n4)) = (p \div (n3 * n4)) \div n2
    BY <1>1, <1>2, <1>6, DivDiv
  <2> QED BY <1>7, <2>1, <2>2
<1>9. i[1] = q1 /\ i[2] = q2 % n2 /\ i[3] = q3 % n3 /\ i[4] = p % n4
  BY <1>7, <1>8 DEF Index
<1>10. q1 < n1
  <2> SUFFICES ASSUME q1 >= n1 PROVE FALSE
    <3> HIDE DEF q1, n1
    <3> QED BY <1>1, <1>5
  <2> HIDE DEF n1, n2, n3, n4, q1, q2, q3
  <2>1. q2 >= n1 * n2 /\ n1 * n2 \in Nat
    BY <1>1, <1>5, q1 * n2 = n1 * n2 + (q1 - n1) * n2, (q1 - n1) * n2 >= 0
  <2>2. q3 >= n1 * n2 * n3 /\ n1 * n2 * n3 \in Nat
    <3> DEFINE m == n1 * n2
    <3>1. m \in Nat /\ q2 >= m
      BY <2>1
    <3> HIDE DEF m
    <3>2. q2 * n3 >= m * n3 /\ q2 * n3 \in Nat /\ m * n3 \in Nat
      BY <1>1, <1>4, <3>1, Grows
    <3>3. q3 >= m * n3
      <4> DEFINE a == q2 * n3
                 b == m * n3
                 c == q3 % n3
      <4>1. a >= b /\ a \in Nat /\ b \in Nat /\ c >= 0 /\ c \in Int /\ q3 = a + c
        BY <1>1, <1>4, <3>2
      <4> HIDE DEF a, b, c
      <4>2. q3 >= b
        BY <4>1
      <4> QED BY <4>2 DEF b
    <3> QED BY <3>2, <3>3 DEF m
  <2>3. p >= n1 * n2 * n3 * n4
    <3> DEFINE m == n1 * n2 * n3
    <3>1. m \in Nat /\ q3 >= m
      BY <2>2
    <3> HIDE DEF m
    <3>2. q3 * n4 >= m * n4 /\ q3 * n4 \in Nat /\ m * n4 \in Nat
      BY <1>1, <1>3, <3>1, Grows
    <3>3. p >= m * n4
      <4> DEFINE a == q3 * n4
                 b == m * n4
                 c == p % n4
      <4>1. a >= b /\ a \in Nat /\ b \in Nat /\ c >= 0 /\ c \in Int /\ p = a + c
        BY <1>1, <1>3, <3>2
      <4> HIDE DEF a, b, c
      <4>2. p >= b
        BY <4>1
      <4> QED BY <4>2 DEF b
    <3> QED BY <3>3 DEF m
  <2> QED BY <1>2, <2>3
<1>11. \A k \in 1 .. 4 : i[k] \in 0 .. s[k] - 1
  <2>1. i[1] \in 0 .. n1 - 1
    <3> HIDE DEF q1, n1, i
    <3> QED BY <1>1, <1>5, <1>9, <1>10
  <2>2. i[2] \in 0 .. n2 - 1 /\ i[3] \in 0 .. n3 - 1 /\ i[4] \in 0 .. n4 - 1
    <3> HIDE DEF q2, q3, n2, n3, n4, i
    <3> QED BY <1>3, <1>4, <1>5, <1>9
  <2>3. \A k \in 1 .. 4 : k = 1 \/ k = 2 \/ k = 3 \/ k = 4
    OBVIOUS
  <2> HIDE DEF i
  <2> QED BY <2>1, <2>2, <2>3
<1>12. offset(s, i) = p
  <2>1. offset(s, i) = ((i[1] * n2 + i[2]) * n3 + i[3]) * n4 + i[4]
    BY DEF offset
  <2> HIDE DEF i, n2, n3, n4, q1, q2, q3
  <2>2. i[1] * n2 + i[2] = q2
    BY <1>5, <1>9
  <2>3. q2 * n3 + i[3] = q3
    BY <1>4, <1>9
  <2>4. q3 * n4 + i[4] = p
    BY <1>3, <1>9
  <2> QED BY <2>1, <2>2, <2>3, <2>4
<1> QED
  BY <1>11, <1>12

-----------------------------------------------------------------------------
\* A row of the KPU holds the groups it is shared by, each in its pitch.
LEMMA RowShared ==
  ASSUME NEW w \in Nat \ {0}
  PROVE  LET l == get_kpu_row_layout(w)
         IN  /\ l.groups \in Nat \ {0} /\ l.row_len \in Nat \ {0} /\ l.row_pitch \in Nat \ {0}
             /\ l.groups = 1 => w <= l.row_len * 64
             /\ l.groups # 1 => w <= l.row_pitch /\ l.groups * l.row_pitch = l.row_len * 64
<1> DEFINE l == get_kpu_row_layout(w)
<1>1. CASE w <= 16
  BY <1>1 DEF get_kpu_row_layout
<1>2. CASE w > 16 /\ w <= 32
  BY <1>2 DEF get_kpu_row_layout
<1>3. CASE w > 32
  <2>1. l = [groups |-> 1, row_len |-> (w + 63) \div 64, row_pitch |-> 64]
    BY <1>3 DEF get_kpu_row_layout
  <2>2. (w + 63) \div 64 \in Nat \ {0} /\ w <= ((w + 63) \div 64) * 64
    BY <1>3
  <2> HIDE DEF l
  <2>3. l.groups = 1 /\ l.row_len = (w + 63) \div 64 /\ l.row_pitch = 64
    BY <2>1
  <2> QED BY <2>2, <2>3 DEF l
<1> QED
  BY <1>1, <1>2, <1>3

\* A channel has a block of rows; there are as many blocks as are counted.
LEMMA BlockCounted ==
  ASSUME NEW c \in Nat, NEW channels \in Nat \ {0}, c < channels, NEW g \in Nat \ {0}
  PROVE  LET line == IF channels < g THEN channels ELSE g
             blocks == (channels + line - 1) \div line
         IN  /\ blocks \in Nat /\ c \div g < blocks
             /\ c \div g \in Nat /\ c % g \in 0 .. g - 1 /\ c = (c \div g) * g + (c % g)
<1> DEFINE line == IF channels < g THEN channels ELSE g
           blocks == (channels + line - 1) \div line
           d == c \div g
           m == c % g
<1>1. d \in Nat /\ m \in 0 .. g - 1 /\ c = d * g + m
  BY DivMod
<1>2. line \in Nat \ {0} /\ line <= g /\ (line = g \/ (line = channels /\ channels < g))
  OBVIOUS
<1>3. channels + line - 1 \in Nat
  BY <1>2
<1> DEFINE a == channels + line - 1
<1>4. blocks \in Nat /\ a % line \in 0 .. line - 1 /\ a = blocks * line + (a % line)
  <2> HIDE DEF line, a
  <2>1. a \div line \in Nat /\ a % line \in 0 .. line - 1 /\ a = (a \div line) * line + (a % line)
    BY <1>2, <1>3, DivMod DEF a
  <2> QED BY <2>1 DEF a
<1>5. d < blocks
  <2> SUFFICES ASSUME d >= blocks PROVE FALSE
    <3> HIDE DEF d, blocks
    <3> QED BY <1>1, <1>4
  <2> DEFINE r == a % line
  <2> HIDE DEF d, m, blocks, line, r
  <2>1. blocks * line >= channels
    <3> DEFINE e == blocks * line
    <3>1. e \in Int /\ channels + line - 1 = e + r /\ r <= line - 1 /\ r \in Int /\ line \in Int
      BY <1>2, <1>4 DEF r
    <3> HIDE DEF e
    <3>2. e >= channels
      BY <3>1
    <3> QED BY <3>2 DEF e
  <2>2. CASE line = g
    <3>1. d * g >= blocks * g /\ d * g \in Nat /\ blocks * g \in Nat
      BY <1>1, <1>4, Grows
    <3> DEFINE e == d * g
               f == blocks * g
    <3>2. e >= f /\ e \in Nat /\ f \in Nat /\ f >= channels /\ c = e + m /\ m >= 0 /\ m \in Int
      BY <1>1, <2>1, <2>2, <3>1
    <3> HIDE DEF e, f
    <3> QED BY <3>2
  <2>3. CASE line = channels /\ channels < g
    <3>1. blocks # 0
      <4> SUFFICES ASSUME blocks = 0 PROVE FALSE
        OBVIOUS
      <4>1. 0 * line = 0
        BY <1>2
      <4> QED BY <2>1, <4>1
    <3>2. d * g >= 1 * g /\ d * g \in Nat
      BY <1>1, <1>4, <3>1, Grows
    <3> DEFINE e == d * g
    <3>3. e >= g /\ e \in Nat /\ c = e + m /\ m >= 0 /\ m \in Int
      BY <1>1, <3>2
    <3> HIDE DEF e
    <3> QED BY <2>3, <3>3
  <2> QED BY <1>2, <2>2, <2>3
<1> QED
  BY <1>1, <1>4, <1>5

\* A number of two digits.
Joined(a, n, r) == a * n + r

\* Its digits are its own.
LEMMA DigitsOf ==
  ASSUME NEW n \in Nat \ {0}, NEW a \in Nat, NEW b \in Nat, NEW r \in 0 .. n - 1, NEW s \in 0 .. n - 1,
         Joined(a, n, r) = Joined(b, n, s)
  PROVE  a = b /\ r = s
<1>1. a * n + r = b * n + s
  BY DEF Joined
<1> QED
  BY <1>1, Digits

\* The digits of a number keep it below the product of their bases.
LEMMA Below ==
  ASSUME NEW n \in Nat \ {0}, NEW m \in Nat, NEW a \in Nat, a < m, NEW r \in 0 .. n - 1
  PROVE  a * n + r \in 0 .. m * n - 1
<1>1. (a + 1) * n <= m * n /\ (a + 1) * n \in Nat /\ m * n \in Nat
  BY Grows
<1>2. (a + 1) * n = a * n + n /\ a * n \in Nat
  <2>1. a * n \in Nat
    BY Grows
  <2> QED BY <2>1
<1> DEFINE x == a * n
           y == m * n
<1>3. x + n <= y /\ x \in Nat /\ y \in Nat
  BY <1>1, <1>2
<1> HIDE DEF x, y
<1>4. x + r \in 0 .. y - 1
  BY <1>3
<1> QED
  BY <1>4 DEF x, y

\* The bytes of a row: those of a group do not meet those of another.
LEMMA InRow ==
  ASSUME NEW w \in Nat \ {0}, NEW x \in 0 .. w - 1, NEW l, l = get_kpu_row_layout(w), NEW m \in 0 .. l.groups - 1
  PROVE  m * l.row_pitch + x \in 0 .. l.row_len * 64 - 1
<1>1. /\ l.groups \in Nat \ {0} /\ l.row_len \in Nat \ {0} /\ l.row_pitch \in Nat \ {0}
      /\ l.groups = 1 => w <= l.row_len * 64
      /\ l.groups # 1 => w <= l.row_pitch /\ l.groups * l.row_pitch = l.row_len * 64
  BY RowShared
<1>2. CASE l.groups = 1
  <2>1. m = 0
    BY <1>2
  <2>2. 0 * l.row_pitch = 0
    BY <1>1
  <2> QED BY <1>1, <1>2, <2>1, <2>2
<1>3. CASE l.groups # 1
  <2>1. x \in 0 .. l.row_pitch - 1 /\ m \in Nat /\ m < l.groups
    BY <1>1, <1>3
  <2>2. m * l.row_pitch + x \in 0 .. l.groups * l.row_pitch - 1
    BY <1>1, <2>1, Below
  <2> QED BY <1>1, <1>3, <2>2
<1> QED
  BY <1>2, <1>3

\* Two channels of a group of a row, or two columns, do not share a place.
LEMMA InRowApart ==
  ASSUME NEW w \in Nat \ {0}, NEW x \in 0 .. w - 1, NEW z \in 0 .. w - 1, NEW l, l = get_kpu_row_layout(w),
         NEW m \in 0 .. l.groups - 1, NEW k \in 0 .. l.groups - 1,
         m * l.row_pitch + x = k * l.row_pitch + z
  PROVE  m = k /\ x = z
<1>1. /\ l.groups \in Nat \ {0} /\ l.row_len \in Nat \ {0} /\ l.row_pitch \in Nat \ {0}
      /\ l.groups = 1 => w <= l.row_len * 64
      /\ l.groups # 1 => w <= l.row_pitch /\ l.groups * l.row_pitch = l.row_len * 64
  BY RowShared
<1>2. CASE l.groups = 1
  <2>1. m = 0 /\ k = 0
    BY <1>2
  <2>2. 0 * l.row_pitch = 0
    BY <1>1
  <2> QED BY <1>1, <1>2, <2>1, <2>2
<1>3. CASE l.groups # 1
  <2>1. x \in 0 .. l.row_pitch - 1 /\ z \in 0 .. l.row_pitch - 1 /\ m \in Nat /\ k \in Nat
    BY <1>1, <1>3
  <2> DEFINE n == l.row_pitch
  <2>2. n \in Nat \ {0} /\ x \in 0 .. n - 1 /\ z \in 0 .. n - 1 /\ m * n + x = k * n + z
    BY <1>1, <2>1
  <2> HIDE DEF n
  <2> QED BY <2>1, <2>2, Digits
<1> QED
  BY <1>2, <1>3

\* What places a byte: the channel, its block of rows and its group in them.
PlaceFacts(w, h, channels, c, y, x) ==
  LET l == get_kpu_row_layout(w)
  IN  /\ w \in Nat \ {0} /\ h \in Nat \ {0} /\ channels \in Nat \ {0}
      /\ c \in 0 .. channels - 1 /\ y \in 0 .. h - 1 /\ x \in 0 .. w - 1

\* A place is a block, a row in it and a byte in that, in a base of their own.
LEMMA PlaceDigits ==
  ASSUME NEW w, NEW h, NEW channels, NEW c, NEW y, NEW x, PlaceFacts(w, h, channels, c, y, x),
         NEW l, l = get_kpu_row_layout(w), NEW u, u = l.row_len * 64,
         NEW m, m = (c % l.groups) * l.row_pitch + x
  PROVE  /\ u \in Nat \ {0} /\ h * u \in Nat \ {0} /\ l.groups \in Nat \ {0}
         /\ m \in 0 .. u - 1 /\ y * u + m \in 0 .. h * u - 1
         /\ c \div l.groups \in Nat /\ c % l.groups \in 0 .. l.groups - 1
         /\ c = (c \div l.groups) * l.groups + (c % l.groups)
         /\ Place(w, h, c, y, x) = (c \div l.groups) * (h * u) + (y * u + m)
         /\ Place(w, h, c, y, x) \in 0 .. get_kpu_bytes(w, h, channels) - 1
         /\ get_kpu_bytes(w, h, channels) \in Nat
<1>1. /\ w \in Nat \ {0} /\ h \in Nat \ {0} /\ channels \in Nat \ {0}
      /\ c \in 0 .. channels - 1 /\ y \in 0 .. h - 1 /\ x \in 0 .. w - 1
  BY DEF PlaceFacts
<1>2. l.groups \in Nat \ {0} /\ l.row_len \in Nat \ {0} /\ l.row_pitch \in Nat \ {0}
  BY <1>1, RowShared
<1> DEFINE g == l.groups
           line == IF channels < g THEN channels ELSE g
           blocks == (channels + line - 1) \div line
           d == c \div g
<1>3. blocks \in Nat /\ d < blocks /\ d \in Nat /\ c % g \in 0 .. g - 1 /\ c = d * g + (c % g)
  <2>1. c \in Nat /\ c < channels
    BY <1>1
  <2> HIDE DEF g
  <2> QED BY <1>1, <1>2, <2>1, BlockCounted DEF g
<1>4. m \in 0 .. u - 1
  BY <1>1, <1>3, InRow
<1>5. u \in Nat \ {0}
  BY <1>2
<1>6. y * u + m \in 0 .. h * u - 1
  <2>1. y \in Nat /\ y < h
    BY <1>1
  <2> QED BY <1>1, <1>4, <1>5, <2>1, Below
<1> DEFINE v == h * u
           r == y * u + m
<1>7. v \in Nat \ {0}
  <2>1. h * u \in Nat
    BY <1>1, <1>5, Grows
  <2> QED BY <1>6, <2>1
<1>8. d * v + r \in 0 .. blocks * v - 1
  <2> HIDE DEF v, r, d, blocks
  <2>1. r \in 0 .. v - 1
    BY <1>6 DEF v, r
  <2> QED BY <1>3, <1>7, <2>1, Below
<1>9. get_kpu_bytes(w, h, channels) = blocks * v
  <2>1. get_kpu_bytes(w, h, channels) = (l.row_len * h * blocks) * 64
    BY DEF get_kpu_bytes, get_kpu_rows, LineBytes
  <2> HIDE DEF blocks
  <2> DEFINE rl == l.row_len
  <2>2. rl \in Int /\ h \in Int /\ blocks \in Int
    BY <1>1, <1>2, <1>3
  <2>3. v = h * (rl * 64)
    OBVIOUS
  <2> HIDE DEF rl
  <2>4. (rl * h * blocks) * 64 = blocks * (h * (rl * 64))
    BY <2>2
  <2> HIDE DEF v
  <2> QED BY <2>1, <2>3, <2>4 DEF rl
<1>10. Place(w, h, c, y, x) = d * v + r
  <2> DEFINE rl == l.row_len
             i == (c % g) * l.row_pitch
  <2>1. Place(w, h, c, y, x) = d * rl * h * 64 + i + y * rl * 64 + x
    BY DEF Place, LineBytes
  <2>2. rl \in Int /\ h \in Int /\ d \in Int /\ y \in Int /\ x \in Int
    BY <1>1, <1>2, <1>3
  <2>3. i \in Int
    BY <1>2, <1>3
  <2>4. u = rl * 64 /\ m = i + x
    OBVIOUS
  <2> HIDE DEF d, rl, i
  <2>5. d * rl * h * 64 = d * (h * (rl * 64)) /\ y * rl * 64 = y * (rl * 64)
    BY <2>2
  <2>6. d * (h * (rl * 64)) \in Int /\ y * (rl * 64) \in Int
    BY <2>2
  <2> DEFINE a == d * (h * (rl * 64))
             b == y * (rl * 64)
  <2>7. a \in Int /\ b \in Int /\ Place(w, h, c, y, x) = a + i + b + x /\ d * v = a /\ r = b + m
    BY <2>1, <2>4, <2>5, <2>6
  <2> HIDE DEF a, b, v, r
  <2> QED BY <2>2, <2>3, <2>4, <2>7
<1>11. blocks * v \in Nat
  <2> HIDE DEF blocks, v
  <2> QED BY <1>3, <1>7, Grows
<1>12. d * v + r \in 0 .. get_kpu_bytes(w, h, channels) - 1 /\ get_kpu_bytes(w, h, channels) \in Nat
  <2> HIDE DEF d, v, r, blocks
  <2> QED BY <1>8, <1>9, <1>11
<1> HIDE DEF blocks
<1> QED
  BY <1>2, <1>3, <1>4, <1>5, <1>6, <1>7, <1>10, <1>12

\* No two bytes of a feature map have one place.
LEMMA PlacesApart ==
  ASSUME NEW w, NEW h, NEW channels, NEW c, NEW y, NEW x, PlaceFacts(w, h, channels, c, y, x),
         NEW d, NEW z, NEW q, PlaceFacts(w, h, channels, d, z, q),
         Place(w, h, c, y, x) = Place(w, h, d, z, q)
  PROVE  c = d /\ y = z /\ x = q
<1> DEFINE l == get_kpu_row_layout(w)
           u == l.row_len * 64
           m == (c % l.groups) * l.row_pitch + x
           k == (d % l.groups) * l.row_pitch + q
           v == h * u
           g == l.groups
<1>1. /\ u \in Nat \ {0} /\ v \in Nat \ {0} /\ g \in Nat \ {0}
      /\ m \in 0 .. u - 1 /\ y * u + m \in 0 .. v - 1
      /\ c \div g \in Nat /\ c % g \in 0 .. g - 1 /\ c = (c \div g) * g + (c % g)
      /\ Place(w, h, c, y, x) = (c \div g) * v + (y * u + m)
  <2> HIDE DEF l
  <2>1. l = get_kpu_row_layout(w)
    BY DEF l
  <2> QED BY <2>1, PlaceDigits
<1>2. /\ k \in 0 .. u - 1 /\ z * u + k \in 0 .. v - 1
      /\ d \div g \in Nat /\ d % g \in 0 .. g - 1 /\ d = (d \div g) * g + (d % g)
      /\ Place(w, h, d, z, q) = (d \div g) * v + (z * u + k)
  <2> HIDE DEF l
  <2>1. l = get_kpu_row_layout(w)
    BY DEF l
  <2> QED BY <2>1, PlaceDigits
<1>3. y \in Nat /\ z \in Nat /\ w \in Nat \ {0} /\ x \in 0 .. w - 1 /\ q \in 0 .. w - 1
  BY DEF PlaceFacts
<1> DEFINE e == c \div g
           f == d \div g
           r == y * u + m
           s == z * u + k
<1>4. e = f /\ r = s
  <2>1. e \in Nat /\ f \in Nat /\ r \in 0 .. v - 1 /\ s \in 0 .. v - 1 /\ e * v + r = f * v + s
    BY <1>1, <1>2
  <2>2. v \in Nat \ {0}
    BY <1>1
  <2> HIDE DEF e, f, r, s, v
  <2>3. Joined(e, v, r) = Joined(f, v, s)
    BY <2>1 DEF Joined
  <2> QED BY <2>1, <2>2, <2>3, DigitsOf
<1>5. y = z /\ m = k
  <2>1. y * u + m = z * u + k
    BY <1>4
  <2>2. u \in Nat \ {0} /\ m \in 0 .. u - 1 /\ k \in 0 .. u - 1
    BY <1>1, <1>2
  <2> HIDE DEF u, m, k
  <2>3. Joined(y, u, m) = Joined(z, u, k)
    BY <2>1 DEF Joined
  <2> QED BY <1>3, <2>2, <2>3, DigitsOf
<1>6. c % g = d % g /\ x = q
  <2> DEFINE i == c % g
             j == d % g
  <2>1. i \in 0 .. g - 1 /\ j \in 0 .. g - 1 /\ i * l.row_pitch + x = j * l.row_pitch + q
    BY <1>1, <1>2, <1>5
  <2> HIDE DEF i, j, l
  <2>2. l = get_kpu_row_layout(w)
    BY DEF l
  <2>3. i = j /\ x = q
    BY <1>3, <2>1, <2>2, InRowApart
  <2> QED BY <2>3 DEF i, j
<1>7. c = d
  <2> HIDE DEF g
  <2> QED BY <1>1, <1>2, <1>4, <1>6
<1> QED
  BY <1>5, <1>6, <1>7

-----------------------------------------------------------------------------
\* The index of an element lies in the feature map.
LEMMA IndexPlaced ==
  ASSUME NEW s, Shape(s), NEW p \in 0 .. compute_size(s) - 1, NEW i, i = Index(s, p)
  PROVE  PlaceFacts(s[4], s[3], s[2], i[2], i[3], i[4]) /\ i[1] \in 0 .. s[1] - 1
<1>1. \A k \in 1 .. 4 : i[k] \in 0 .. s[k] - 1
  BY OffsetOfIndex
<1>2. \A k \in 1 .. 4 : s[k] \in Nat \ {0}
  BY DEF Shape
<1> QED
  BY <1>1, <1>2 DEF PlaceFacts

\* A map whose rows fill the lines of the KPU takes its own size.
LEMMA WideFits ==
  ASSUME NEW s, Shape(s), s[4] % 64 = 0
  PROVE  compute_size(s) <= s[1] * get_kpu_bytes(s[4], s[3], s[2])
<1> DEFINE n1 == s[1]
           n2 == s[2]
           n3 == s[3]
           n4 == s[4]
<1>1. n1 \in Nat \ {0} /\ n2 \in Nat \ {0} /\ n3 \in Nat \ {0} /\ n4 \in Nat \ {0} /\ n4 % 64 = 0
  BY DEF Shape
<1> HIDE DEF n1, n2, n3, n4
<1>2. n4 >= 64
  BY <1>1
<1> DEFINE rl == (n4 + 63) \div 64
<1>3. rl * 64 = n4 /\ rl \in Nat
  BY <1>1, <1>2
<1>4. get_kpu_row_layout(n4) = [groups |-> 1, row_len |-> rl, row_pitch |-> 64]
  BY <1>1, <1>2 DEF get_kpu_row_layout
<1>5. get_kpu_bytes(n4, n3, n2) = (rl * n3 * ((n2 + 1 - 1) \div 1)) * 64
  <2>1. ~(n2 < 1)
    BY <1>1
  <2> HIDE DEF rl
  <2> QED BY <1>4, <2>1 DEF get_kpu_bytes, get_kpu_rows, LineBytes
<1>6. (n2 + 1 - 1) \div 1 = n2
  BY <1>1
<1> HIDE DEF rl
<1>7. (rl * n3 * n2) * 64 = n2 * n3 * (rl * 64)
  BY <1>1, <1>3
<1>8. get_kpu_bytes(n4, n3, n2) = n2 * n3 * n4
  BY <1>3, <1>5, <1>6, <1>7
<1>9. n1 * (n2 * n3 * n4) = n1 * n2 * n3 * n4 /\ n1 * n2 * n3 * n4 \in Int
  BY <1>1
<1>10. compute_size(s) = n1 * n2 * n3 * n4
  BY DEF compute_size, n1, n2, n3, n4
<1>11. compute_size(s) = n1 * get_kpu_bytes(n4, n3, n2) /\ compute_size(s) \in Int
  BY <1>8, <1>9, <1>10
<1> QED
  BY <1>11 DEF n1, n2, n3, n4

\* Every byte has a place of its own in the memory of the KPU.
THEOREM AddressesApart ==
  ASSUME NEW n, NEW s, s = n.in_shape, Shape(s),
         NEW p \in 0 .. compute_size(s) - 1, NEW q \in 0 .. compute_size(s) - 1
  PROVE  /\ KpuAddress(n, Index(s, p)) \in 0 .. KpuSize(n) - 1
         /\ KpuAddress(n, Index(s, p)) = KpuAddress(n, Index(s, q)) => p = q
<1> DEFINE i == Index(s, p)
           j == Index(s, q)
           bytes == get_kpu_bytes(s[4], s[3], s[2])
<1>1. i[1] \in 0 .. s[1] - 1 /\ j[1] \in 0 .. s[1] - 1 /\ offset(s, i) = p /\ offset(s, j) = q
  <2>1. 1 \in 1 .. 4
    OBVIOUS
  <2> QED BY <2>1, OffsetOfIndex
<1>2. PlaceFacts(s[4], s[3], s[2], i[2], i[3], i[4]) /\ PlaceFacts(s[4], s[3], s[2], j[2], j[3], j[4])
  BY IndexPlaced
<1>3. s[1] \in Nat \ {0}
  BY DEF Shape
<1>4. KpuSize(n) = s[1] * bytes
  BY DEF KpuSize
<1>5. CASE s[4] % 64 = 0
  <2>1. KpuAddress(n, i) = p /\ KpuAddress(n, j) = q
    BY <1>1, <1>5 DEF KpuAddress, LineBytes
  <2>2. compute_size(s) <= KpuSize(n)
    BY <1>4, <1>5, WideFits
  <2>3. KpuSize(n) \in Int
    <3>1. bytes \in Nat
      BY <1>2, PlaceDigits
    <3> HIDE DEF bytes
    <3> QED BY <1>3, <1>4, <3>1
  <2>4. compute_size(s) \in Int
    <3>1. s[1] \in Int /\ s[2] \in Int /\ s[3] \in Int /\ s[4] \in Int
      BY DEF Shape
    <3> QED BY <3>1 DEF compute_size
  <2> HIDE DEF i, j
  <2>5. p \in 0 .. KpuSize(n) - 1
    BY <2>2, <2>3, <2>4
  <2> QED BY <2>1, <2>5 DEF i, j
<1>6. CASE s[4] % 64 # 0
  <2> DEFINE a == Place(s[4], s[3], i[2], i[3], i[4])
             b == Place(s[4], s[3], j[2], j[3], j[4])
  <2>1. KpuAddress(n, i) = i[1] * bytes + a /\ KpuAddress(n, j) = j[1] * bytes + b
    BY <1>6 DEF KpuAddress, LineBytes
  <2>2. a \in 0 .. bytes - 1 /\ b \in 0 .. bytes - 1 /\ bytes \in Nat
    <3> HIDE DEF i, j
    <3> QED BY <1>2, PlaceDigits
  <2>3. a = b => i[2] = j[2] /\ i[3] = j[3] /\ i[4] = j[4]
    <3> HIDE DEF i, j
    <3> QED BY <1>2, PlacesApart
  <2> DEFINE x == i[1]
             y == j[1]
  <2>4. x \in Nat /\ x < s[1] /\ y \in Nat
    BY <1>1, <1>3
  <2> HIDE DEF i, j, a, b, bytes, x, y
  <2>5. bytes \in Nat \ {0}
    BY <2>2
  <2>6. x * bytes + a \in 0 .. s[1] * bytes - 1
    BY <1>3, <2>2, <2>4, <2>5, Below
  <2>7. ASSUME KpuAddress(n, i) = KpuAddress(n, j) PROVE p = q
    <3>1. Joined(x, bytes, a) = Joined(y, bytes, b)
      BY <2>1, <2>7 DEF Joined, x, y
    <3>2. x = y /\ a = b
      BY <2>2, <2>4, <2>5, <3>1, DigitsOf
    <3>3. i[1] = j[1] /\ i[2] = j[2] /\ i[3] = j[3] /\ i[4] = j[4]
      BY <2>3, <3>2 DEF x, y
    <3>4. offset(s, i) = offset(s, j)
      BY <3>3 DEF offset
    <3> QED BY <1>1, <3>4
  <2>8. KpuAddress(n, i) \in 0 .. KpuSize(n) - 1
    BY <1>4, <2>1, <2>6 DEF x
  <2> QED BY <2>7, <2>8 DEF i, j
<1> QED
  BY <1>5, <1>6

\* What a download reads from where an upload wrote is what was uploaded.
LEMMA DownloadReads ==
  ASSUME NEW n, Shape(n.in_shape), n.input = [p \in 0 .. compute_size(n.in_shape) - 1 |-> n.input[p]],
         NEW d, d.in_shape = n.in_shape, d.input = kpu_upload(n)
  PROVE  kpu_download(d) = n.input
<1> DEFINE s == n.in_shape
           size == compute_size(s)
           place == [p \in 0 .. size - 1 |-> KpuAddress(n, Index(s, p))]
<1>1. kpu_upload(n) = [a \in 0 .. KpuSize(n) - 1 |->
                         IF \E p \in DOMAIN place : place[p] = a
                         THEN n.input[CHOOSE p \in DOMAIN place : place[p] = a]
                         ELSE Stale]
  BY DEF kpu_upload
<1>2. \A i : KpuAddress(d, i) = KpuAddress(n, i)
  BY DEF KpuAddress
<1>3. kpu_download(d) = [p \in 0 .. size - 1 |-> d.input[KpuAddress(d, Index(s, p))]]
  BY DEF kpu_download, Tensor
<1>4. ASSUME NEW p \in 0 .. size - 1 PROVE d.input[KpuAddress(d, Index(s, p))] = n.input[p]
  <2> DEFINE a == KpuAddress(n, Index(s, p))
  <2>1. a \in 0 .. KpuSize(n) - 1
    BY AddressesApart
  <2>2. place[p] = a /\ DOMAIN place = 0 .. size - 1 /\ p \in DOMAIN place
    OBVIOUS
  <2>3. \A q \in DOMAIN place : place[q] = a => q = p
    <3> SUFFICES ASSUME NEW q \in 0 .. size - 1, place[q] = a PROVE q = p
      OBVIOUS
    <3>1. KpuAddress(n, Index(s, p)) = KpuAddress(n, Index(s, q))
      OBVIOUS
    <3>2. s = n.in_shape /\ Shape(s) /\ p \in 0 .. compute_size(s) - 1 /\ q \in 0 .. compute_size(s) - 1
      OBVIOUS
    <3> HIDE DEF place, a, size, s
    <3> QED BY <3>1, <3>2, AddressesApart
  <2> HIDE DEF place, a
  <2>4. (CHOOSE q \in DOMAIN place : place[q] = a) = p
    BY <2>2, <2>3
  <2>5. kpu_upload(n)[a] = n.input[p]
    <3> DEFINE read == n.input
    <3> HIDE DEF read
    <3>1. kpu_upload(n) = [x \in 0 .. KpuSize(n) - 1 |->
                             IF \E q \in DOMAIN place : place[q] = x
                             THEN read[CHOOSE q \in DOMAIN place : place[q] = x]
                             ELSE Stale]
      BY <1>1 DEF read
    <3>2. kpu_upload(n)[a] = read[p]
      BY <2>1, <2>2, <2>4, <3>1
    <3> QED BY <3>2 DEF read
  <2> QED BY <1>2, <2>5 DEF a
<1>5. [p \in 0 .. size - 1 |-> d.input[KpuAddress(d, Index(s, p))]] = [p \in 0 .. size - 1 |-> n.input[p]]
  <2> HIDE DEF size, s
  <2> QED BY <1>4
<1> QED
  BY <1>3, <1>5

-----------------------------------------------------------------------------
\* Both ways of rounding give a nearest number.
LEMMA RoundsNear ==
  ASSUME NEW q \in Int, NEW r \in {NearestEven(q), RoundAway(q)}
  PROVE  r \in Int /\ 4 * r - q \in -2 .. 2
<1>1. CASE r = NearestEven(q)
  <2>1. q \div 4 \in Int /\ q % 4 \in 0 .. 3 /\ q = 4 * (q \div 4) + (q % 4)
    OBVIOUS
  <2>2. r = q \div 4 \/ r = q \div 4 + 1
    BY <1>1 DEF NearestEven
  <2>3. r = q \div 4 => ~(q % 4 > 2)
    <3>1. q % 4 > 2 => r = q \div 4 + 1
      BY <1>1 DEF NearestEven
    <3> QED BY <2>1, <3>1
  <2>4. r = q \div 4 + 1 => q % 4 >= 2
    <3>1. ~(q % 4 >= 2) => r = q \div 4
      BY <1>1, <2>1 DEF NearestEven
    <3> QED BY <2>1, <3>1
  <2> DEFINE d == q \div 4
             m == q % 4
  <2>5. d \in Int /\ m \in 0 .. 3 /\ q = 4 * d + m /\ (r = d \/ r = d + 1) /\ (r = d => ~(m > 2)) /\ (r = d + 1 => m >= 2)
    BY <2>1, <2>2, <2>3, <2>4
  <2> HIDE DEF d, m
  <2> QED BY <2>5
<1>2. CASE r = RoundAway(q) /\ q >= 0
  BY <1>2 DEF RoundAway
<1>3. CASE r = RoundAway(q) /\ q < 0
  BY <1>3 DEF RoundAway
<1> QED
  BY <1>1, <1>2, <1>3

\* A number further from zero has the larger square.
LEMMA Squares ==
  ASSUME NEW a \in Int, NEW b \in Int, (a <= b /\ -a <= b) \/ (a <= -b /\ -a <= -b)
  PROVE  a * a <= b * b
<1>1. b * b - a * a = (b - a) * (b + a) /\ b * b \in Int /\ a * a \in Int
  OBVIOUS
<1>2. (b - a) * (b + a) >= 0
  <2> DEFINE x == b - a
             y == b + a
  <2>1. x \in Int /\ y \in Int /\ ((x >= 0 /\ y >= 0) \/ (x <= 0 /\ y <= 0))
    OBVIOUS
  <2> HIDE DEF x, y
  <2>2. x * y >= 0
    BY <2>1
  <2> QED BY <2>2 DEF x, y
<1> QED
  BY <1>1, <1>2

\* The byte nearest to a number: neither of its neighbours is nearer.
LEMMA ByteNear ==
  ASSUME NEW q \in Int, NEW r \in Int, 4 * r - q \in -2 .. 2, NEW b \in {Byte(Byte(r) - 1), Byte(Byte(r) + 1)}
  PROVE  (4 * Byte(r) - q) * (4 * Byte(r) - q) <= (4 * b - q) * (4 * b - q)
<1> DEFINE m == Byte(r)
<1>1. m \in 0 .. 255 /\ b \in 0 .. 255 /\ (b = m \/ b = m - 1 \/ b = m + 1)
      /\ (r \in 0 .. 255 => m = r) /\ (r < 0 => m = 0) /\ (r > 255 => m = 255)
  BY DEF Byte, Clamp, Least2, Most2
<1> HIDE DEF m
<1> DEFINE x == 4 * m - q
           y == 4 * b - q
<1>2. x \in Int /\ y \in Int /\ ((x <= y /\ -x <= y) \/ (x <= -y /\ -x <= -y))
  BY <1>1
<1> HIDE DEF x, y
<1>3. x * x <= y * y
  BY <1>2, Squares
<1> QED
  BY <1>3 DEF x, y, m

\* The quarters that dequantizing a byte gives, and quantizing starts from.
ThereAndBack(b, zero, scale) == CDiv((b - zero) * 4, scale) * scale + 4 * zero

\* A byte comes back from the quarters it was turned into.
LEMMA ByteReturns ==
  ASSUME NEW b \in 0 .. 255, NEW zero \in Int, NEW scale \in {1, 2, 4}, NEW real,
         real = ThereAndBack(b, zero, scale)
  PROVE  Byte(RoundAway(real)) = b /\ Byte(NearestEven(real)) = b
<1>1. real = 4 * b
  <2>1. CDiv((b - zero) * 4, scale) * scale = (b - zero) * 4
    <3>1. CASE scale = 1
      BY <3>1 DEF CDiv
    <3>2. CASE scale = 2
      BY <3>2 DEF CDiv
    <3>3. CASE scale = 4
      BY <3>3 DEF CDiv
    <3> QED BY <3>1, <3>2, <3>3
  <2> QED BY <2>1 DEF ThereAndBack
<1>2. RoundAway(real) = b
  BY <1>1 DEF RoundAway
<1>3. NearestEven(real) = b
  BY <1>1 DEF NearestEven
<1> QED
  BY <1>2, <1>3 DEF Byte, Clamp, Least2, Most2

-----------------------------------------------------------------------------
\* An offset reads no more of an index than its four numbers.
LEMMA OffsetReads ==
  ASSUME NEW s, NEW i, NEW j, \A k \in 1 .. 4 : i[k] = j[k]
  PROVE  offset(s, i) = offset(s, j)
<1>1. i[1] = j[1] /\ i[2] = j[2] /\ i[3] = j[3] /\ i[4] = j[4]
  OBVIOUS
<1> QED
  BY <1>1 DEF offset

\* The product of the extents, and where they go, are natural numbers.
LEMMA SizeIsNat ==
  ASSUME NEW s, Shape(s)
  PROVE  compute_size(s) \in Nat \ {0}
<1>1. s[1] \in Nat \ {0} /\ s[2] \in Nat \ {0} /\ s[3] \in Nat \ {0} /\ s[4] \in Nat \ {0}
  BY DEF Shape
<1>2. ASSUME NEW m \in Nat \ {0}, NEW n \in Nat \ {0} PROVE m * n \in Nat \ {0}
  <2>1. m * n >= 1 * n /\ m * n \in Nat
    BY Grows
  <2> QED BY <2>1
<1> DEFINE n1 == s[1]
           n2 == s[2]
           n3 == s[3]
           n4 == s[4]
           a == n1 * n2
           b == a * n3
<1>3. n1 \in Nat \ {0} /\ n2 \in Nat \ {0} /\ n3 \in Nat \ {0} /\ n4 \in Nat \ {0}
  BY <1>1
<1> HIDE DEF n1, n2, n3, n4
<1>4. a \in Nat \ {0}
  BY <1>2, <1>3
<1> HIDE DEF a
<1>5. b \in Nat \ {0}
  BY <1>2, <1>3, <1>4
<1> HIDE DEF b
<1>6. b * n4 \in Nat \ {0}
  BY <1>2, <1>3, <1>5
<1> QED
  BY <1>6 DEF compute_size, b, a, n1, n2, n3, n4

\* Every index of a tensor is that of its offset.
LEMMA IndexOfOffset ==
  ASSUME NEW s, Shape(s), NEW i, \A k \in 1 .. 4 : i[k] \in 0 .. s[k] - 1
  PROVE  /\ offset(s, i) \in 0 .. compute_size(s) - 1
         /\ \A k \in 1 .. 4 : Index(s, offset(s, i))[k] = i[k]
<1> DEFINE n1 == s[1]
           n2 == s[2]
           n3 == s[3]
           n4 == s[4]
           i1 == i[1]
           i2 == i[2]
           i3 == i[3]
           i4 == i[4]
           a == i1 * n2 + i2
           b == a * n3 + i3
           p == b * n4 + i4
           m2 == n1 * n2
           m3 == m2 * n3
<1>1. n1 \in Nat \ {0} /\ n2 \in Nat \ {0} /\ n3 \in Nat \ {0} /\ n4 \in Nat \ {0}
  BY DEF Shape
<1>2. i1 \in 0 .. n1 - 1 /\ i2 \in 0 .. n2 - 1 /\ i3 \in 0 .. n3 - 1 /\ i4 \in 0 .. n4 - 1
  OBVIOUS
<1>3. offset(s, i) = p /\ compute_size(s) = m3 * n4
  BY DEF offset, compute_size
<1> HIDE DEF n1, n2, n3, n4, i1, i2, i3, i4
<1>4. a \in 0 .. m2 - 1 /\ m2 \in Nat
  <2>1. m2 \in Nat
    BY <1>1, Grows
  <2>2. a \in 0 .. n1 * n2 - 1
    BY <1>1, <1>2, Below
  <2> QED BY <2>1, <2>2
<1> HIDE DEF a, m2
<1>5. b \in 0 .. m3 - 1 /\ m3 \in Nat
  <2>1. m3 \in Nat
    BY <1>1, <1>4, Grows
  <2>2. b \in 0 .. m2 * n3 - 1
    BY <1>1, <1>2, <1>4, Below
  <2> QED BY <2>1, <2>2
<1> HIDE DEF b, m3
<1>6. p \in 0 .. m3 * n4 - 1
  BY <1>1, <1>2, <1>5, Below
<1>7. p \in 0 .. compute_size(s) - 1
  BY <1>3, <1>6
<1> DEFINE j == Index(s, p)
<1>8. (\A k \in 1 .. 4 : j[k] \in 0 .. s[k] - 1) /\ offset(s, j) = p
  <2> HIDE DEF p
  <2> QED BY <1>7, OffsetOfIndex
<1> DEFINE j1 == j[1]
           j2 == j[2]
           j3 == j[3]
           j4 == j[4]
           c == j1 * n2 + j2
           d == c * n3 + j3
<1>9. j1 \in 0 .. n1 - 1 /\ j2 \in 0 .. n2 - 1 /\ j3 \in 0 .. n3 - 1 /\ j4 \in 0 .. n4 - 1
  <2> HIDE DEF j
  <2> QED BY <1>8 DEF n1, n2, n3, n4
<1>10. Joined(d, n4, j4) = Joined(b, n4, i4)
  <2>1. offset(s, j) = d * n4 + j4
    BY DEF offset, n2, n3, n4
  <2> QED BY <1>8, <2>1 DEF Joined
<1> HIDE DEF j, j1, j2, j3, j4, p
<1>11. c \in Nat
  <2>1. c \in 0 .. n1 * n2 - 1
    BY <1>1, <1>9, Below
  <2> QED BY <2>1
<1>12. c = Joined(j1, n2, j2) /\ a = Joined(i1, n2, i2)
  BY DEF Joined, a
<1> HIDE DEF c
<1>13. d \in Nat
  <2>1. c * n3 \in Nat
    BY <1>1, <1>11, Grows
  <2> QED BY <1>1, <1>9, <2>1
<1>14. d = Joined(c, n3, j3) /\ b = Joined(a, n3, i3)
  BY DEF Joined, b
<1> HIDE DEF d
<1>15. d = b /\ j4 = i4
  BY <1>1, <1>2, <1>5, <1>9, <1>10, <1>13, DigitsOf
<1>16. c = a /\ j3 = i3
  <2>1. Joined(c, n3, j3) = Joined(a, n3, i3)
    BY <1>14, <1>15
  <2>2. a \in Nat
    BY <1>4
  <2> QED BY <1>1, <1>2, <1>9, <1>11, <2>1, <2>2, DigitsOf
<1>17. j1 = i1 /\ j2 = i2
  <2>1. Joined(j1, n2, j2) = Joined(i1, n2, i2)
    BY <1>12, <1>16
  <2> QED BY <1>1, <1>2, <1>9, <2>1, DigitsOf
<1>18. \A k \in 1 .. 4 : j[k] = i[k]
  <2>1. \A k \in 1 .. 4 : k = 1 \/ k = 2 \/ k = 3 \/ k = 4
    OBVIOUS
  <2> QED BY <1>15, <1>16, <1>17, <2>1 DEF j1, j2, j3, j4, i1, i2, i3, i4
<1> QED
  BY <1>3, <1>7, <1>18 DEF j

\* An operand folded into the output's index, by comparing or by dividing.
LEMMA FoldsAlike ==
  ASSUME NEW s, NEW i, \A k \in 1 .. 4 : s[k] \in Nat \ {0} /\ i[k] \in Nat /\ (s[k] = 1 \/ i[k] < s[k])
  PROVE  offset(s, get_reduced_offset(i, s)) = offset(s, [k \in 1 .. 4 |-> i[k] % s[k]])
<1>1. ASSUME NEW k \in 1 .. 4 PROVE get_reduced_offset(i, s)[k] = i[k] % s[k]
  <2>1. get_reduced_offset(i, s)[k] = IF i[k] >= s[k] THEN 0 ELSE i[k]
    BY DEF get_reduced_offset
  <2> DEFINE a == i[k]
             b == s[k]
  <2>2. a \in Nat /\ b \in Nat \ {0} /\ (b = 1 \/ a < b)
    OBVIOUS
  <2> HIDE DEF a, b
  <2>3. (IF a >= b THEN 0 ELSE a) = a % b
    <3>1. CASE b = 1
      BY <2>2, <3>1
    <3>2. CASE a < b
      BY <2>2, <3>2
    <3> QED BY <2>2, <3>1, <3>2
  <2> QED BY <2>1, <2>3 DEF a, b
<1> DEFINE f == get_reduced_offset(i, s)
           g == [k \in 1 .. 4 |-> i[k] % s[k]]
<1>2. \A k \in 1 .. 4 : f[k] = g[k]
  BY <1>1
<1> HIDE DEF f, g
<1>3. offset(s, f) = offset(s, g)
  BY <1>2, OffsetReads
<1> QED
  BY <1>3 DEF f, g

-----------------------------------------------------------------------------
\* Operands that broadcast: an axis is as long as in the output, or 1.
LEMMA OperandFits ==
  ASSUME NEW n, Operands(n), NEW p \in 0 .. compute_size(n.out_shape) - 1, NEW s \in {n.in_a_shape, n.in_b_shape}
  PROVE  \A k \in 1 .. 4 : /\ s[k] \in Nat \ {0} /\ Index(n.out_shape, p)[k] \in Nat
                           /\ s[k] = 1 \/ Index(n.out_shape, p)[k] < s[k]
<1> DEFINE out == n.out_shape
           i == Index(out, p)
<1>1. n.in_a_shape \in [1 .. 4 -> Nat \ {0}] /\ n.in_b_shape \in [1 .. 4 -> Nat \ {0}] /\ Shape(out)
  BY DEF Operands, Shapes, Shape
<1>2. \A k \in 1 .. 4 : i[k] \in 0 .. out[k] - 1
  <2>1. p \in 0 .. compute_size(out) - 1
    OBVIOUS
  <2> HIDE DEF out
  <2> QED BY <1>1, <2>1, OffsetOfIndex
<1> TAKE k \in 1 .. 4
<1> DEFINE a == n.in_a_shape[k]
           b == n.in_b_shape[k]
           o == out[k]
<1>3. /\ a \in Nat \ {0} /\ b \in Nat \ {0} /\ o \in Nat \ {0}
      /\ a = b \/ a = 1 \/ b = 1
      /\ o = Most2(a, b)
  BY <1>1 DEF Operands, Shape
<1>4. i[k] \in 0 .. o - 1 /\ s[k] \in {a, b}
  BY <1>2
<1> HIDE DEF a, b, o, i, out
<1>5. s[k] \in Nat \ {0} /\ i[k] \in Nat /\ (s[k] = 1 \/ s[k] = o)
  BY <1>3, <1>4 DEF Most2
<1>6. i[k] \in Nat /\ i[k] < o
  BY <1>3, <1>4
<1> QED
  BY <1>5, <1>6 DEF i, out

\* An element of an operand is found where the folded index of the output says.
LEMMA Meets ==
  ASSUME NEW n, Operands(n), NEW p \in 0 .. compute_size(n.out_shape) - 1, NEW s \in {n.in_a_shape, n.in_b_shape}
  PROVE  /\ offset(s, get_reduced_offset(Index(n.out_shape, p), s))
              = offset(s, [k \in 1 .. 4 |-> Index(n.out_shape, p)[k] % s[k]])
         /\ s = n.out_shape => offset(s, [k \in 1 .. 4 |-> Index(n.out_shape, p)[k] % s[k]]) = p
<1> DEFINE i == Index(n.out_shape, p)
           f == [k \in 1 .. 4 |-> i[k] % s[k]]
<1>1. \A k \in 1 .. 4 : s[k] \in Nat \ {0} /\ i[k] \in Nat /\ (s[k] = 1 \/ i[k] < s[k])
  BY OperandFits
<1>2. ASSUME s = n.out_shape PROVE offset(s, f) = p
  <2>1. Shape(s)
    BY <1>2 DEF Operands, Shapes, Shape
  <2>2. (\A k \in 1 .. 4 : i[k] \in 0 .. s[k] - 1) /\ offset(s, i) = p
    BY <1>2, <2>1, OffsetOfIndex
  <2>3. \A k \in 1 .. 4 : i[k] % s[k] = i[k]
    <3> TAKE k \in 1 .. 4
    <3> DEFINE a == i[k]
               b == s[k]
    <3>1. b \in Nat \ {0} /\ a \in 0 .. b - 1
      BY <1>1, <2>2
    <3> HIDE DEF a, b
    <3>2. a % b = a
      BY <3>1
    <3> QED BY <3>2 DEF a, b
  <2>4. \A k \in 1 .. 4 : f[k] = i[k]
    BY <2>3
  <2> HIDE DEF f, i
  <2>5. offset(s, f) = offset(s, i)
    BY <2>4, OffsetReads
  <2> QED BY <2>2, <2>5
<1>3. offset(s, get_reduced_offset(i, s)) = offset(s, f)
  <2> HIDE DEF i
  <2> QED BY <1>1, FoldsAlike
<1> QED
  BY <1>2, <1>3

\* Operands of one shape have that of the output.
LEMMA SameIsOut ==
  ASSUME NEW n, Operands(n), SameShape(n)
  PROVE  n.in_a_shape = n.out_shape /\ n.in_b_shape = n.out_shape
<1> DEFINE a == n.in_a_shape
           o == n.out_shape
<1>1. a \in [1 .. 4 -> Nat \ {0}] /\ o \in [1 .. 4 -> Nat \ {0}] /\ \A k \in 1 .. 4 : o[k] = Most2(a[k], a[k])
  BY DEF Operands, Shapes, SameShape
<1>2. \A k \in 1 .. 4 : o[k] = a[k]
  BY <1>1 DEF Most2
<1>3. a = o
  <2> HIDE DEF a, o
  <2> QED BY <1>1, <1>2
<1> QED
  BY <1>3 DEF SameShape

\* The operands that meet at an element of the output.
Meeting(n, p) == [a |-> n.input_a[offset(n.in_a_shape, [k \in 1 .. 4 |-> Index(n.out_shape, p)[k] % n.in_a_shape[k]])],
                  b |-> n.input_b[offset(n.in_b_shape, [k \in 1 .. 4 |-> Index(n.out_shape, p)[k] % n.in_b_shape[k]])]]

\* The two ways in which the kernels find them come to that.
LEMMA Finds ==
  ASSUME NEW n, Operands(n), NEW p \in 0 .. compute_size(n.out_shape) - 1
  PROVE  /\ n.input_a[offset(n.in_a_shape, get_reduced_offset(Index(n.out_shape, p), n.in_a_shape))] = Meeting(n, p).a
         /\ n.input_b[offset(n.in_b_shape, get_reduced_offset(Index(n.out_shape, p), n.in_b_shape))] = Meeting(n, p).b
         /\ SameShape(n) => n.input_a[p] = Meeting(n, p).a /\ n.input_b[p] = Meeting(n, p).b
<1> DEFINE a == n.in_a_shape
           b == n.in_b_shape
<1>1. a \in {a, b} /\ b \in {a, b}
  OBVIOUS
<1>2. /\ offset(a, get_reduced_offset(Index(n.out_shape, p), a)) = offset(a, [k \in 1 .. 4 |-> Index(n.out_shape, p)[k] % a[k]])
      /\ a = n.out_shape => offset(a, [k \in 1 .. 4 |-> Index(n.out_shape, p)[k] % a[k]]) = p
  BY <1>1, Meets
<1>3. /\ offset(b, get_reduced_offset(Index(n.out_shape, p), b)) = offset(b, [k \in 1 .. 4 |-> Index(n.out_shape, p)[k] % b[k]])
      /\ b = n.out_shape => offset(b, [k \in 1 .. 4 |-> Index(n.out_shape, p)[k] % b[k]]) = p
  BY <1>1, Meets
<1>4. SameShape(n) => a = n.out_shape /\ b = n.out_shape
  BY SameIsOut
<1> QED
  BY <1>2, <1>3, <1>4 DEF Meeting

\* The element that binary gives for a pair of operands.
BinaryOf(n, p) == Activated(Apply(n.binary_op, Meeting(n, p).a, Meeting(n, p).b), n)
QuantizedOf(n, p) ==
  Requantized(Apply(n.binary_op,
             mul_and_carry_shift(Meeting(n, p).a + n.input_a_offset, n.input_a_mul, n.input_a_shift),
             mul_and_carry_shift(Meeting(n, p).b + n.input_b_offset, n.input_b_mul, n.input_b_shift)), n)

\* Every element of binary is made of the two that meet in it, in either loop.
LEMMA BinaryMeets ==
  ASSUME NEW n, Operands(n)
  PROVE  binary(n) = [p \in 0 .. compute_size(n.out_shape) - 1 |-> BinaryOf(n, p)]
<1>1. ASSUME SameShape(n) PROVE binary(n) = [p \in 0 .. compute_size(n.out_shape) - 1 |-> BinaryOf(n, p)]
  <2>1. binary(n) = [p \in 0 .. compute_size(n.in_a_shape) - 1 |-> Activated(Apply(n.binary_op, n.input_a[p], n.input_b[p]), n)]
    BY <1>1 DEF binary, Broadcast
  <2>2. compute_size(n.in_a_shape) = compute_size(n.out_shape)
    BY <1>1, SameIsOut
  <2>3. \A p \in 0 .. compute_size(n.out_shape) - 1 : Activated(Apply(n.binary_op, n.input_a[p], n.input_b[p]), n) = BinaryOf(n, p)
    BY <1>1, Finds DEF BinaryOf
  <2> QED BY <2>1, <2>2, <2>3
<1>2. ASSUME ~SameShape(n) PROVE binary(n) = [p \in 0 .. compute_size(n.out_shape) - 1 |-> BinaryOf(n, p)]
  <2>1. binary(n) = [p \in 0 .. compute_size(n.out_shape) - 1 |->
           Activated(Apply(n.binary_op,
             n.input_a[offset(n.in_a_shape, get_reduced_offset(Index(n.out_shape, p), n.in_a_shape))],
             n.input_b[offset(n.in_b_shape, get_reduced_offset(Index(n.out_shape, p), n.in_b_shape))]), n)]
    BY <1>2 DEF binary, Broadcast, Tensor
  <2>2. \A p \in 0 .. compute_size(n.out_shape) - 1 :
           Activated(Apply(n.binary_op,
             n.input_a[offset(n.in_a_shape, get_reduced_offset(Index(n.out_shape, p), n.in_a_shape))],
             n.input_b[offset(n.in_b_shape, get_reduced_offset(Index(n.out_shape, p), n.in_b_shape))]), n) = BinaryOf(n, p)
    BY Finds DEF BinaryOf
  <2> QED BY <2>1, <2>2
<1> QED
  BY <1>1, <1>2

\* Every element of quantized_binary is made of the two that meet in it.
LEMMA QuantizedMeets ==
  ASSUME NEW n, Operands(n)
  PROVE  quantized_binary(n) = [p \in 0 .. compute_size(n.out_shape) - 1 |-> QuantizedOf(n, p)]
<1> DEFINE A(v) == mul_and_carry_shift(v + n.input_a_offset, n.input_a_mul, n.input_a_shift)
           B(v) == mul_and_carry_shift(v + n.input_b_offset, n.input_b_mul, n.input_b_shift)
           R(v, w) == Requantized(Apply(n.binary_op, A(v), B(w)), n)
<1>1. ASSUME SameShape(n) PROVE quantized_binary(n) = [p \in 0 .. compute_size(n.out_shape) - 1 |-> QuantizedOf(n, p)]
  <2>1. quantized_binary(n) = [p \in 0 .. compute_size(n.in_a_shape) - 1 |-> R(n.input_a[p], n.input_b[p])]
    BY <1>1 DEF quantized_binary, Broadcast
  <2>2. compute_size(n.in_a_shape) = compute_size(n.out_shape)
    BY <1>1, SameIsOut
  <2>3. \A p \in 0 .. compute_size(n.out_shape) - 1 : R(n.input_a[p], n.input_b[p]) = QuantizedOf(n, p)
    BY <1>1, Finds DEF QuantizedOf
  <2> HIDE DEF R
  <2> QED BY <2>1, <2>2, <2>3
<1>2. ASSUME ~SameShape(n) PROVE quantized_binary(n) = [p \in 0 .. compute_size(n.out_shape) - 1 |-> QuantizedOf(n, p)]
  <2>1. quantized_binary(n) = [p \in 0 .. compute_size(n.out_shape) - 1 |->
           R(n.input_a[offset(n.in_a_shape, get_reduced_offset(Index(n.out_shape, p), n.in_a_shape))],
             n.input_b[offset(n.in_b_shape, get_reduced_offset(Index(n.out_shape, p), n.in_b_shape))])]
    BY <1>2 DEF quantized_binary, Broadcast, Tensor
  <2>2. \A p \in 0 .. compute_size(n.out_shape) - 1 :
           R(n.input_a[offset(n.in_a_shape, get_reduced_offset(Index(n.out_shape, p), n.in_a_shape))],
             n.input_b[offset(n.in_b_shape, get_reduced_offset(Index(n.out_shape, p), n.in_b_shape))]) = QuantizedOf(n, p)
    BY Finds DEF QuantizedOf
  <2> HIDE DEF R
  <2> QED BY <2>1, <2>2
<1> QED
  BY <1>1, <1>2

-----------------------------------------------------------------------------
\* The partial results f of folding, with O, those of the first n elements of x that hit
\* marks, starting from b.
IsFold(f, n, b, O, x, hit) ==
  /\ f \in [0 .. n -> Int] /\ f[0] = b
  /\ \A k \in 1 .. n : f[k] = IF hit[k - 1] THEN O[f[k - 1]][x[k - 1]] ELSE f[k - 1]

\* Partial results exist for any operation on integers.
LEMMA FoldExists ==
  ASSUME NEW n \in Nat, NEW b \in Int, NEW O \in [Int -> [Int -> Int]], NEW x \in [0 .. n - 1 -> Int], NEW hit
  PROVE  \E f : IsFold(f, n, b, O, x, hit)
<1> DEFINE F == [k \in 1 .. n |-> [a \in Int |-> IF hit[k - 1] THEN O[a][x[k - 1]] ELSE a]]
<1>1. F \in [1 .. n -> [Int -> Int]]
  <2>1. ASSUME NEW k \in 1 .. n, NEW a \in Int PROVE (IF hit[k - 1] THEN O[a][x[k - 1]] ELSE a) \in Int
    <3>1. k - 1 \in 0 .. n - 1
      OBVIOUS
    <3>2. x[k - 1] \in Int
      BY <3>1
    <3>3. O[a][x[k - 1]] \in Int
      BY <3>2
    <3> QED BY <3>3
  <2> QED BY <2>1
<1>2. Iterates(n, Int, b, F)
  <2> HIDE DEF F
  <2> QED BY <1>1, IterationExists
<1>3. PICK f : f \in [0 .. n -> Int] /\ f[0] = b /\ \A k \in 1 .. n : f[k] = F[k][f[k - 1]]
  BY <1>2 DEF Iterates
<1>4. ASSUME NEW k \in 1 .. n PROVE f[k] = IF hit[k - 1] THEN O[f[k - 1]][x[k - 1]] ELSE f[k - 1]
  <2>1. k - 1 \in 0 .. n
    OBVIOUS
  <2>2. f[k - 1] \in Int
    BY <1>3, <2>1
  <2> QED BY <1>3, <2>2
<1>5. IsFold(f, n, b, O, x, hit)
  BY <1>3, <1>4 DEF IsFold
<1> QED
  BY <1>5

\* Folds of the same elements agree.
LEMMA FoldUnique ==
  ASSUME NEW n \in Nat, NEW b, NEW O, NEW x, NEW hit,
         NEW f, IsFold(f, n, b, O, x, hit), NEW g, g[0] = b,
         \A k \in 1 .. n : g[k] = IF hit[k - 1] THEN O[g[k - 1]][x[k - 1]] ELSE g[k - 1]
  PROVE  \A k \in 0 .. n : g[k] = f[k]
<1> DEFINE S == {k \in 0 .. n : g[k] = f[k]}
<1>1. 0 \in S
  BY DEF IsFold
<1>2. ASSUME NEW k \in 1 .. n, k - 1 \in S PROVE k \in S
  <2>1. g[k - 1] = f[k - 1]
    BY <1>2
  <2>2. g[k] = IF hit[k - 1] THEN O[g[k - 1]][x[k - 1]] ELSE g[k - 1]
    OBVIOUS
  <2>3. f[k] = IF hit[k - 1] THEN O[f[k - 1]][x[k - 1]] ELSE f[k - 1]
    BY DEF IsFold
  <2>4. g[k] = f[k]
    BY <2>1, <2>2, <2>3
  <2> QED BY <2>4
<1>3. \A k \in 0 .. n : k \in S
  <2> HIDE DEF S
  <2> QED BY <1>1, <1>2, UpTo
<1> QED
  BY <1>3

\* An operation that does not mind the order.
Merges(O) ==
  /\ O \in [Int -> [Int -> Int]]
  /\ \A a, b \in Int : O[a][b] = O[b][a]
  /\ \A a, b, c \in Int : O[O[a][b]][c] = O[a][O[b][c]]

\* An operation that merges may be applied in any order.
LEMMA Rearranged ==
  ASSUME NEW O, Merges(O), NEW a \in Int, NEW c \in Int, NEW x \in Int
  PROVE  O[a][O[c][x]] = O[O[a][c]][x] /\ O[O[a][x]][c] = O[O[a][c]][x]
<1>1. O[O[a][c]][x] = O[a][O[c][x]]
  BY DEF Merges
<1>2. O[O[a][x]][c] = O[a][O[x][c]]
  BY DEF Merges
<1>3. O[x][c] = O[c][x]
  BY DEF Merges
<1> QED
  BY <1>1, <1>2, <1>3

\* f folds elements y at m places into one, g does so when element x has been added at
\* place p.
OneMoreAt(p, x, m, b, O, hit, f, g, y, z) ==
  /\ m \in Nat /\ b \in Int /\ Merges(O) /\ x \in Int /\ p \in 0 .. m - 1
  /\ y \in [0 .. m - 1 -> Int] /\ z \in [0 .. m - 1 -> Int]
  /\ \A j \in 0 .. m - 1 : z[j] = IF j = p THEN O[y[j]][x] ELSE y[j]
  /\ IsFold(f, m, b, O, y, hit) /\ IsFold(g, m, b, O, z, hit)

\* Adding an element at a place that hit marks adds it to the fold.
LEMMA OneMore ==
  ASSUME NEW p, NEW x, NEW m, NEW b, NEW O, NEW hit, NEW f, NEW g, NEW y, NEW z,
         OneMoreAt(p, x, m, b, O, hit, f, g, y, z)
  PROVE  g[m] = IF hit[p] THEN O[f[m]][x] ELSE f[m]
<1> USE DEF OneMoreAt
<1> DEFINE S == {j \in 0 .. m : g[j] = IF j > p /\ hit[p] THEN O[f[j]][x] ELSE f[j]}
<1>1. 0 \in S
  BY DEF IsFold
<1>2. ASSUME NEW j \in 1 .. m, j - 1 \in S PROVE j \in S
  <2> DEFINE k == j - 1
  <2>1. k \in 0 .. m - 1 /\ k \in 0 .. m /\ (k > p <=> k >= p + 1) /\ (j > p <=> k >= p)
    OBVIOUS
  <2>2. f[k] \in Int /\ g[k] \in Int /\ y[k] \in Int /\ z[k] \in Int
    BY <2>1 DEF IsFold
  <2>3. /\ f[j] = IF hit[k] THEN O[f[k]][y[k]] ELSE f[k]
        /\ g[j] = IF hit[k] THEN O[g[k]][z[k]] ELSE g[k]
    BY DEF IsFold
  <2>4. g[k] = IF k > p /\ hit[p] THEN O[f[k]][x] ELSE f[k]
    BY <1>2
  <2>5. z[k] = IF k = p THEN O[y[k]][x] ELSE y[k]
    BY <2>1
  <2> HIDE DEF k, S
  <2>6. CASE k < p
    <3>1. g[j] = f[j] /\ ~(j > p)
      BY <2>1, <2>3, <2>4, <2>5, <2>6
    <3> QED BY <3>1 DEF S
  <2>7. CASE k = p
    <3>1. j > p /\ g[k] = f[k] /\ z[k] = O[y[k]][x]
      BY <2>1, <2>4, <2>5, <2>7
    <3>2. O[f[k]][O[y[k]][x]] = O[O[f[k]][y[k]]][x]
      <4> DEFINE a == f[k]
                 c == y[k]
      <4>1. a \in Int /\ c \in Int
        BY <2>2
      <4> HIDE DEF a, c
      <4>2. O[a][O[c][x]] = O[O[a][c]][x] /\ O[O[a][x]][c] = O[O[a][c]][x]
        BY <4>1, Rearranged
      <4> QED BY <4>2 DEF a, c
    <3>3. g[j] = IF hit[p] THEN O[f[j]][x] ELSE f[j]
      BY <2>3, <2>7, <3>1, <3>2
    <3> QED BY <3>1, <3>3 DEF S
  <2>8. CASE k > p
    <3>1. j > p /\ z[k] = y[k] /\ g[k] = IF hit[p] THEN O[f[k]][x] ELSE f[k]
      BY <2>1, <2>4, <2>5, <2>8
    <3>2. O[O[f[k]][x]][y[k]] = O[O[f[k]][y[k]]][x]
      <4> DEFINE a == f[k]
                 c == y[k]
      <4>1. a \in Int /\ c \in Int
        BY <2>2
      <4> HIDE DEF a, c
      <4>2. O[a][O[c][x]] = O[O[a][c]][x] /\ O[O[a][x]][c] = O[O[a][c]][x]
        BY <4>1, Rearranged
      <4> QED BY <4>2 DEF a, c
    <3>3. g[j] = IF hit[p] THEN O[f[j]][x] ELSE f[j]
      BY <2>3, <3>1, <3>2
    <3> QED BY <3>1, <3>3 DEF S
  <2> QED BY <2>1, <2>6, <2>7, <2>8
<1>3. \A j \in 0 .. m : j \in S
  <2> HIDE DEF S
  <2> QED BY <1>1, <1>2, UpTo
<1>4. m \in S /\ m > p
  BY <1>3
<1> QED
  BY <1>4

\* The n elements x are folded at the m places g gives them to, place j with partial
\* results y[j]; twice folds the results of places that hit marks, once all elements
\* that go to such a place.
TwoFolds(n, m, b, O, x, g, hit, y, once, twice) ==
  /\ n \in Nat /\ m \in Nat /\ b \in Int /\ Merges(O) /\ O[b][b] = b
  /\ x \in [0 .. n - 1 -> Int] /\ g \in [0 .. n - 1 -> 0 .. m - 1] /\ y \in [0 .. m - 1 -> [0 .. n -> Int]]
  /\ \A j \in 0 .. m - 1 : IsFold(y[j], n, b, O, x, [k \in 0 .. n - 1 |-> g[k] = j])
  /\ IsFold(once, n, b, O, x, [k \in 0 .. n - 1 |-> hit[g[k]]])
  /\ IsFold(twice, m, b, O, [j \in 0 .. m - 1 |-> y[j][n]], hit)

\* Folding into places and the places into one is folding at once.
LEMMA FoldTwice ==
  ASSUME NEW n, NEW m, NEW b, NEW O, NEW x, NEW g, NEW hit, NEW y, NEW once, NEW twice,
         TwoFolds(n, m, b, O, x, g, hit, y, once, twice)
  PROVE  twice[m] = once[n]
<1> USE DEF TwoFolds
<1> DEFINE At(k) == [j \in 0 .. m - 1 |-> y[j][k]]
<1>1. ASSUME NEW k \in 0 .. n PROVE At(k) \in [0 .. m - 1 -> Int]
  OBVIOUS
<1>2. O \in [Int -> [Int -> Int]]
  BY DEF Merges
<1> DEFINE S == {k \in 0 .. n : \A f : IsFold(f, m, b, O, At(k), hit) => f[m] = once[k]}
<1>3. 0 \in S
  <2> SUFFICES ASSUME NEW f, IsFold(f, m, b, O, At(0), hit) PROVE f[m] = once[0]
    OBVIOUS
  <2> DEFINE C == {j \in 0 .. m : f[j] = b}
  <2>1. 0 \in C
    BY DEF IsFold
  <2>2. ASSUME NEW j \in 1 .. m, j - 1 \in C PROVE j \in C
    <3>1. j - 1 \in 0 .. m - 1
      OBVIOUS
    <3>2. At(0)[j - 1] = b
      BY <3>1 DEF IsFold
    <3> HIDE DEF At
    <3>3. f[j] = IF hit[j - 1] THEN O[b][b] ELSE b
      BY <2>2, <3>2 DEF IsFold
    <3> QED BY <3>3
  <2>3. \A j \in 0 .. m : j \in C
    <3> HIDE DEF C
    <3> QED BY <2>1, <2>2, UpTo
  <2>4. m \in C
    BY <2>3
  <2> QED BY <2>4 DEF IsFold
<1>4. ASSUME NEW k \in 1 .. n, k - 1 \in S PROVE k \in S
  <2> HIDE DEF At
  <2> SUFFICES ASSUME NEW f, IsFold(f, m, b, O, At(k), hit) PROVE f[m] = once[k]
    OBVIOUS
  <2> USE DEF At
  <2> DEFINE l == k - 1
             p == g[l]
             v == x[l]
             before == At(l)
             after == At(k)
  <2>1. l \in 0 .. n - 1 /\ l \in 0 .. n /\ k \in 0 .. n
    OBVIOUS
  <2>2. p \in 0 .. m - 1 /\ v \in Int
    BY <2>1
  <2>3. ASSUME NEW j \in 0 .. m - 1 PROVE after[j] = IF j = p THEN O[before[j]][v] ELSE before[j]
    <3>1. IsFold(y[j], n, b, O, x, [i \in 0 .. n - 1 |-> g[i] = j])
      OBVIOUS
    <3>2. y[j][k] = IF [i \in 0 .. n - 1 |-> g[i] = j][k - 1] THEN O[y[j][k - 1]][x[k - 1]] ELSE y[j][k - 1]
      BY <3>1 DEF IsFold
    <3>3. [i \in 0 .. n - 1 |-> g[i] = j][k - 1] = (p = j)
      BY <2>1
    <3> QED BY <3>2, <3>3
  <2>4. before \in [0 .. m - 1 -> Int] /\ after \in [0 .. m - 1 -> Int]
    BY <1>1, <2>1
  <2>5. PICK e : IsFold(e, m, b, O, before, hit)
    <3> HIDE DEF before
    <3> QED BY <1>2, <2>4, FoldExists
  <2>6. e[m] = once[l]
    BY <1>4, <2>5
  <2>7. f[m] = IF hit[p] THEN O[e[m]][v] ELSE e[m]
    <3>1. IsFold(f, m, b, O, after, hit)
      OBVIOUS
    <3>2. OneMoreAt(p, v, m, b, O, hit, e, f, before, after)
      BY <2>2, <2>3, <2>4, <2>5, <3>1 DEF OneMoreAt
    <3> HIDE DEF before, after, p, v, At
    <3> QED BY <3>2, OneMore
  <2>8. once[k] = IF hit[p] THEN O[once[l]][v] ELSE once[l]
    <3>1. once[k] = IF [i \in 0 .. n - 1 |-> hit[g[i]]][k - 1] THEN O[once[k - 1]][x[k - 1]] ELSE once[k - 1]
      BY DEF IsFold
    <3>2. [i \in 0 .. n - 1 |-> hit[g[i]]][k - 1] = hit[p]
      BY <2>1
    <3> QED BY <3>1, <3>2
  <2> QED BY <2>6, <2>7, <2>8
<1>5. \A k \in 0 .. n : k \in S
  <2> HIDE DEF S
  <2> QED BY <1>3, <1>4, UpTo
<1>6. n \in S
  <2>1. n \in 0 .. n
    OBVIOUS
  <2> HIDE DEF S
  <2> QED BY <1>5, <2>1
<1>7. IsFold(twice, m, b, O, At(n), hit)
  OBVIOUS
<1>8. \A f : IsFold(f, m, b, O, At(n), hit) => f[m] = once[n]
  <2> HIDE DEF At
  <2> QED BY <1>6
<1> QED
  <2> HIDE DEF At
  <2> QED BY <1>7, <1>8

-----------------------------------------------------------------------------
\* Where reduce puts the element at p.
Lands(s, t, p) == offset(t, get_reduced_offset(Index(s, p), t))

\* An operation of a reducer as a function.
Operation(op) == [a \in Int |-> [b \in Int |-> Apply(op, a, b)]]

\* The operations that reduce folds with are associative and commute.
LEMMA OperationMerges ==
  ASSUME NEW op \in {"add", "mul", "min", "max"}
  PROVE  Merges(Operation(op))
<1> DEFINE O == Operation(op)
<1>1. \A a, b \in Int : Apply(op, a, b) \in Int /\ Apply(op, a, b) = Apply(op, b, a)
  BY DEF Apply, Least2, Most2
<1>2. ASSUME NEW a \in Int, NEW b \in Int, NEW c \in Int
      PROVE  Apply(op, Apply(op, a, b), c) = Apply(op, a, Apply(op, b, c))
  <2>1. CASE op = "add"
    BY <2>1 DEF Apply
  <2>2. CASE op = "mul"
    <3>1. (a * b) * c = a * (b * c)
      OBVIOUS
    <3> QED BY <2>2, <3>1 DEF Apply
  <2>3. CASE op = "min"
    BY <2>3 DEF Apply, Least2
  <2>4. CASE op = "max"
    BY <2>4 DEF Apply, Most2
  <2> QED BY <2>1, <2>2, <2>3, <2>4
<1>3. O \in [Int -> [Int -> Int]] /\ \A a, b \in Int : O[a][b] = Apply(op, a, b)
  BY <1>1 DEF Operation
<1> HIDE DEF O
<1>4. \A a, b \in Int : O[a][b] = O[b][a]
  <2> TAKE a, b \in Int
  <2>1. Apply(op, a, b) = Apply(op, b, a)
    BY <1>1
  <2>2. O[a][b] = Apply(op, a, b) /\ O[b][a] = Apply(op, b, a)
    BY <1>3
  <2> QED BY <2>1, <2>2
<1>5. \A a, b, c \in Int : O[O[a][b]][c] = O[a][O[b][c]]
  <2> TAKE a, b, c \in Int
  <2> DEFINE u == Apply(op, a, b)
             v == Apply(op, b, c)
  <2>1. u \in Int /\ v \in Int
    BY <1>1
  <2>2. O[a][b] = u /\ O[b][c] = v
    BY <1>3
  <2>3. Apply(op, u, c) = Apply(op, a, v)
    BY <1>2
  <2> HIDE DEF u, v
  <2>4. O[u][c] = Apply(op, u, c) /\ O[a][v] = Apply(op, a, v)
    BY <1>3, <2>1
  <2> QED BY <2>2, <2>3, <2>4
<1>6. Merges(O)
  BY <1>3, <1>4, <1>5 DEF Merges
<1> QED
  BY <1>6 DEF O

\* The loop of reduce is a fold.
LEMMA ReduceFolds ==
  ASSUME NEW n, n.in_shape \in Shapes, n.init_value \in Int, n.reduce_op \in {"add", "mul", "min", "max"},
         n.input \in [0 .. compute_size(n.in_shape) - 1 -> Int],
         NEW q \in 0 .. compute_size(n.out_shape) - 1, NEW f,
         IsFold(f, compute_size(n.in_shape), n.init_value, Operation(n.reduce_op), n.input,
                [p \in 0 .. compute_size(n.in_shape) - 1 |-> Lands(n.in_shape, n.out_shape, p) = q])
  PROVE  reduce(n)[q] = f[compute_size(n.in_shape)]
<1> DEFINE N == compute_size(n.in_shape)
           b == n.init_value
           O == Operation(n.reduce_op)
           x == n.input
           at == [p \in 0 .. N - 1 |-> Lands(n.in_shape, n.out_shape, p)]
           hit == [p \in 0 .. N - 1 |-> at[p] = q]
           E(g) == [k \in 0 .. N |-> IF k = 0 THEN b
                      ELSE IF Lands(n.in_shape, n.out_shape, k - 1) = q THEN Apply(n.reduce_op, g[k - 1], x[k - 1]) ELSE g[k - 1]]
           acc == CHOOSE g : g = E(g)
<1>1. N \in Nat \ {0}
  BY SizeIsNat DEF Shapes, Shape
<1>2. IsFold(f, N, b, O, x, hit)
  <2>1. hit = [p \in 0 .. N - 1 |-> Lands(n.in_shape, n.out_shape, p) = q]
    OBVIOUS
  <2> QED BY <2>1
<1>3. \A a, c \in Int : O[a][c] = Apply(n.reduce_op, a, c)
  BY DEF Operation
<1>4. \A k \in 1 .. N : x[k - 1] \in Int /\ hit[k - 1] = (Lands(n.in_shape, n.out_shape, k - 1) = q)
  <2> TAKE k \in 1 .. N
  <2>1. k - 1 \in 0 .. N - 1
    BY <1>1
  <2>2. x \in [0 .. N - 1 -> Int]
    OBVIOUS
  <2>3. at[k - 1] = Lands(n.in_shape, n.out_shape, k - 1)
    <3> HIDE DEF N
    <3> QED BY <2>1
  <2>4. hit[k - 1] = (at[k - 1] = q)
    <3> HIDE DEF N, at
    <3> QED BY <2>1
  <2> HIDE DEF N, x, hit, at
  <2> QED BY <2>1, <2>2, <2>3, <2>4
<1>5. f = E(f)
  <2>1. f \in [0 .. N -> Int] /\ f[0] = b /\ \A k \in 1 .. N : f[k] = IF hit[k - 1] THEN O[f[k - 1]][x[k - 1]] ELSE f[k - 1]
    BY <1>2 DEF IsFold
  <2>2. ASSUME NEW k \in 1 .. N PROVE f[k] = E(f)[k]
    <3>1. f[k - 1] \in Int
      <4>1. k - 1 \in 0 .. N
        <5> HIDE DEF N
        <5> QED BY <1>1
      <4> HIDE DEF N
      <4> QED BY <2>1, <4>1
    <3>2. f[k] = IF hit[k - 1] THEN Apply(n.reduce_op, f[k - 1], x[k - 1]) ELSE f[k - 1]
      BY <1>3, <1>4, <2>1, <3>1
    <3> HIDE DEF N, b, x, hit
    <3>3. f[k] = IF Lands(n.in_shape, n.out_shape, k - 1) = q THEN Apply(n.reduce_op, f[k - 1], x[k - 1]) ELSE f[k - 1]
      BY <1>4, <3>2
    <3> QED BY <1>1, <3>3
  <2>3. f[0] = E(f)[0]
    BY <1>1, <2>1
  <2>4. \A k \in 0 .. N : f[k] = E(f)[k]
    <3>1. \A k \in 0 .. N : k = 0 \/ k \in 1 .. N
      BY <1>1
    <3> HIDE DEF E
    <3> QED BY <2>2, <2>3, <3>1
  <2>5. DOMAIN f = 0 .. N /\ f = [k \in 0 .. N |-> f[k]]
    BY <2>1
  <2>6. E(f) = [k \in 0 .. N |-> E(f)[k]]
    OBVIOUS
  <2>7. [k \in 0 .. N |-> f[k]] = [k \in 0 .. N |-> E(f)[k]]
    <3> HIDE DEF E
    <3> QED BY <2>4
  <2> HIDE DEF E
  <2> QED BY <2>5, <2>6, <2>7
<1>6. acc = E(acc)
  <2> HIDE DEF E
  <2> QED BY <1>5
<1>7. acc[0] = b /\ \A k \in 1 .. N : acc[k] = IF hit[k - 1] THEN Apply(n.reduce_op, acc[k - 1], x[k - 1]) ELSE acc[k - 1]
  <2> HIDE DEF acc
  <2>1. acc[0] = E(acc)[0] /\ \A k \in 1 .. N : acc[k] = E(acc)[k]
    <3> HIDE DEF E
    <3> QED BY <1>6
  <2>2. E(acc)[0] = b
    BY <1>1
  <2>3. ASSUME NEW k \in 1 .. N
        PROVE  E(acc)[k] = IF hit[k - 1] THEN Apply(n.reduce_op, acc[k - 1], x[k - 1]) ELSE acc[k - 1]
    <3>1. k \in 0 .. N /\ k # 0
      BY <1>1
    <3>2. E(acc)[k] = IF Lands(n.in_shape, n.out_shape, k - 1) = q THEN Apply(n.reduce_op, acc[k - 1], x[k - 1]) ELSE acc[k - 1]
      <4> HIDE DEF N, b, x, hit
      <4> QED BY <3>1
    <3>3. hit[k - 1] = (Lands(n.in_shape, n.out_shape, k - 1) = q)
      BY <1>4
    <3> HIDE DEF N, b, x, hit, E
    <3> QED BY <3>2, <3>3
  <2> HIDE DEF E
  <2> QED BY <2>1, <2>2, <2>3
<1>8. acc[N] = f[N]
  <2> DEFINE S == {k \in 0 .. N : acc[k] = f[k]}
  <2> HIDE DEF acc, b, x, hit, O, N
  <2>1. 0 \in S
    BY <1>1, <1>2, <1>7 DEF IsFold
  <2>2. ASSUME NEW k \in 1 .. N, k - 1 \in S PROVE k \in S
    <3>1. acc[k - 1] = f[k - 1] /\ f[k - 1] \in Int
      BY <1>2, <2>2 DEF IsFold
    <3>2. acc[k] = IF hit[k - 1] THEN O[acc[k - 1]][x[k - 1]] ELSE acc[k - 1]
      BY <1>3, <1>4, <1>7, <3>1
    <3>3. f[k] = IF hit[k - 1] THEN O[f[k - 1]][x[k - 1]] ELSE f[k - 1]
      BY <1>2 DEF IsFold
    <3>4. acc[k] = f[k]
      BY <3>1, <3>2, <3>3
    <3> QED BY <1>1, <3>4
  <2>3. \A k \in 0 .. N : k \in S
    <3> HIDE DEF S
    <3> QED BY <1>1, <2>1, <2>2, UpTo
  <2> QED BY <1>1, <2>3
<1>9. reduce(n)[q] = acc[N]
  <2>1. 0 < N
    BY <1>1
  <2>2. reduce(n)[q] = Loop(0, N, b, LAMBDA a, p : IF Lands(n.in_shape, n.out_shape, p) = q THEN Apply(n.reduce_op, a, x[p]) ELSE a)
    BY DEF reduce, StartsWith, Lands
  <2>3. @ = acc[N]
    BY <2>1 DEF Loop
  <2> QED BY <2>2, <2>3
<1> QED
  BY <1>8, <1>9

-----------------------------------------------------------------------------
\* A reduced index is an index of the shape reduced to.
LEMMA ReducedFits ==
  ASSUME NEW s \in Shapes, NEW t \in Shapes, NEW p \in 0 .. compute_size(s) - 1
  PROVE  \A k \in 1 .. 4 : get_reduced_offset(Index(s, p), t)[k] \in 0 .. t[k] - 1
<1> DEFINE i == Index(s, p)
<1>1. \A k \in 1 .. 4 : i[k] \in 0 .. s[k] - 1
  BY OffsetOfIndex DEF Shapes, Shape
<1>2. \A k \in 1 .. 4 : get_reduced_offset(i, t)[k] = IF i[k] >= t[k] THEN 0 ELSE i[k]
  BY DEF get_reduced_offset
<1> HIDE DEF i
<1>3. \A k \in 1 .. 4 : s[k] \in Nat \ {0} /\ t[k] \in Nat \ {0}
  BY DEF Shapes
<1>4. \A k \in 1 .. 4 : get_reduced_offset(i, t)[k] \in 0 .. t[k] - 1
  BY <1>1, <1>2, <1>3
<1> QED
  BY <1>4 DEF i

\* The element at p lands inside the reduced tensor, at its reduced index.
LEMMA LandsInside ==
  ASSUME NEW s \in Shapes, NEW t \in Shapes, NEW p \in 0 .. compute_size(s) - 1
  PROVE  /\ Lands(s, t, p) \in 0 .. compute_size(t) - 1
         /\ \A k \in 1 .. 4 : Index(t, Lands(s, t, p))[k] = get_reduced_offset(Index(s, p), t)[k]
<1> DEFINE i == get_reduced_offset(Index(s, p), t)
<1>1. \A k \in 1 .. 4 : i[k] \in 0 .. t[k] - 1
  BY ReducedFits
<1>2. Lands(s, t, p) = offset(t, i)
  BY DEF Lands
<1> HIDE DEF i
<1>3. offset(t, i) \in 0 .. compute_size(t) - 1 /\ \A k \in 1 .. 4 : Index(t, offset(t, i))[k] = i[k]
  BY <1>1, IndexOfOffset DEF Shapes, Shape
<1> QED
  BY <1>2, <1>3 DEF i

\* An element lands where that it is reduced to on the way does.
LEMMA LandsThrough ==
  ASSUME NEW s \in Shapes, NEW t, Shrinks(s, t), NEW u, Shrinks(t, u), NEW p \in 0 .. compute_size(s) - 1
  PROVE  Lands(t, u, Lands(s, t, p)) = Lands(s, u, p)
<1>1. t \in Shapes /\ u \in Shapes
  BY DEF Shrinks
<1> DEFINE i == Index(s, p)
           j == Index(t, Lands(s, t, p))
<1>2. \A k \in 1 .. 4 : i[k] \in 0 .. s[k] - 1
  BY OffsetOfIndex DEF Shapes, Shape
<1>3. \A k \in 1 .. 4 : j[k] = IF i[k] >= t[k] THEN 0 ELSE i[k]
  <2>1. \A k \in 1 .. 4 : get_reduced_offset(i, t)[k] = IF i[k] >= t[k] THEN 0 ELSE i[k]
    BY DEF get_reduced_offset
  <2> HIDE DEF i
  <2>2. \A k \in 1 .. 4 : j[k] = get_reduced_offset(i, t)[k]
    BY <1>1, LandsInside DEF i
  <2> QED BY <2>1, <2>2
<1> HIDE DEF i, j
<1>4. \A k \in 1 .. 4 : get_reduced_offset(j, u)[k] = get_reduced_offset(i, u)[k]
  <2> TAKE k \in 1 .. 4
  <2>1. /\ s[k] \in Nat \ {0} /\ t[k] \in Nat \ {0} /\ u[k] \in Nat \ {0}
        /\ (t[k] = 1 \/ t[k] = s[k]) /\ (u[k] = 1 \/ u[k] = t[k])
    BY <1>1 DEF Shrinks, Shapes
  <2>2. get_reduced_offset(j, u)[k] = IF j[k] >= u[k] THEN 0 ELSE j[k]
    BY DEF get_reduced_offset
  <2>3. get_reduced_offset(i, u)[k] = IF i[k] >= u[k] THEN 0 ELSE i[k]
    BY DEF get_reduced_offset
  <2>4. i[k] \in 0 .. s[k] - 1 /\ j[k] = IF i[k] >= t[k] THEN 0 ELSE i[k]
    BY <1>2, <1>3
  <2> DEFINE a == i[k]
             b == j[k]
             x == s[k]
             y == t[k]
             z == u[k]
  <2>5. (IF b >= z THEN 0 ELSE b) = IF a >= z THEN 0 ELSE a
    <3> HIDE DEF a, b, x, y, z
    <3> QED BY <2>1, <2>4 DEF a, b, x, y, z
  <2> QED BY <2>2, <2>3, <2>5
<1>5. offset(u, get_reduced_offset(j, u)) = offset(u, get_reduced_offset(i, u))
  BY <1>4, OffsetReads
<1> QED
  BY <1>5 DEF Lands, i, j

\* What reduce gives is a fold for each element.
LEMMA ReduceIs ==
  ASSUME NEW n, n.in_shape \in Shapes, n.init_value \in Int, n.reduce_op \in {"add", "mul", "min", "max"},
         n.input \in [0 .. compute_size(n.in_shape) - 1 -> Int],
         NEW q \in 0 .. compute_size(n.out_shape) - 1
  PROVE  \E f : /\ IsFold(f, compute_size(n.in_shape), n.init_value, Operation(n.reduce_op), n.input,
                       [p \in 0 .. compute_size(n.in_shape) - 1 |-> Lands(n.in_shape, n.out_shape, p) = q])
                /\ reduce(n)[q] = f[compute_size(n.in_shape)]
<1> DEFINE N == compute_size(n.in_shape)
           b == n.init_value
           O == Operation(n.reduce_op)
           x == n.input
           hit == [p \in 0 .. N - 1 |-> Lands(n.in_shape, n.out_shape, p) = q]
<1>1. N \in Nat /\ b \in Int /\ O \in [Int -> [Int -> Int]] /\ x \in [0 .. N - 1 -> Int]
  BY SizeIsNat, OperationMerges DEF Shapes, Shape, Merges
<1>2. PICK f : IsFold(f, N, b, O, x, hit)
  <2> HIDE DEF N, b, O, x, hit
  <2> QED BY <1>1, FoldExists
<1>3. reduce(n)[q] = f[N]
  <2> HIDE DEF O
  <2> QED BY <1>2, ReduceFolds DEF O
<1> QED
  BY <1>2, <1>3

\* What ReduceInSteps says of two nodes: the second on what the first made is
\* the second on what the first was given.
LEMMA ReduceTwice ==
  ASSUME NEW m, NEW n, Reductions(m, n),
         NEW d, d.in_shape = n.in_shape, d.out_shape = n.out_shape, d.reduce_op = n.reduce_op, d.init_value = n.init_value,
         d.input = reduce(m),
         NEW e, e.in_shape = m.in_shape, e.out_shape = n.out_shape, e.reduce_op = n.reduce_op, e.init_value = n.init_value,
         e.input = m.input
  PROVE  reduce(d) = reduce(e)
<1> DEFINE s == m.in_shape
           t == m.out_shape
           u == n.out_shape
           N == compute_size(s)
           M == compute_size(t)
           Q == compute_size(u)
           b == n.init_value
           op == n.reduce_op
           O == Operation(op)
           x == m.input
           mid == reduce(m)
<1>1. /\ s \in Shapes /\ x \in [0 .. N - 1 -> Int] /\ Shrinks(s, t) /\ n.in_shape = t /\ Shrinks(t, u)
      /\ m.reduce_op = op /\ op \in {"add", "mul", "min", "max"} /\ m.init_value = b /\ b \in Int
      /\ Apply(op, b, b) = b
  BY DEF Reductions
<1>2. t \in Shapes /\ u \in Shapes
  BY <1>1 DEF Shrinks
<1>3. N \in Nat /\ M \in Nat /\ Q \in Nat
  BY <1>1, <1>2, SizeIsNat DEF Shapes, Shape
<1>4. Merges(O) /\ O[b][b] = b
  <2>1. Merges(O)
    BY <1>1, OperationMerges
  <2>2. O[b][b] = Apply(op, b, b)
    BY <1>1 DEF Operation
  <2> QED BY <1>1, <2>1, <2>2
<1> DEFINE Hit(j) == [p \in 0 .. N - 1 |-> Lands(s, t, p) = j]
           Y(j) == CHOOSE f : IsFold(f, N, b, O, x, Hit(j)) /\ mid[j] = f[N]
           y == [j \in 0 .. M - 1 |-> Y(j)]
           g == [p \in 0 .. N - 1 |-> Lands(s, t, p)]
<1>5. ASSUME NEW j \in 0 .. M - 1 PROVE IsFold(y[j], N, b, O, x, Hit(j)) /\ mid[j] = y[j][N]
  <2>1. \E f : IsFold(f, N, b, O, x, Hit(j)) /\ mid[j] = f[N]
    <3> HIDE DEF O
    <3> QED BY <1>1, ReduceIs DEF O
  <2> HIDE DEF N, M, b, O, x, mid, Hit
  <2>2. IsFold(Y(j), N, b, O, x, Hit(j)) /\ mid[j] = Y(j)[N]
    BY <2>1
  <2> HIDE DEF Y
  <2> QED BY <2>2
<1>6. mid = [j \in 0 .. M - 1 |-> y[j][N]] /\ mid \in [0 .. M - 1 -> Int]
  <2>1. DOMAIN mid = 0 .. M - 1 /\ mid = [j \in 0 .. M - 1 |-> mid[j]]
    BY DEF reduce
  <2>2. \A j \in 0 .. M - 1 : y[j][N] \in Int /\ mid[j] = y[j][N]
    <3> HIDE DEF y, N, M, b, O, x, mid, Hit
    <3> QED BY <1>3, <1>5 DEF IsFold
  <2> HIDE DEF y, N, M, mid
  <2>3. [j \in 0 .. M - 1 |-> mid[j]] = [j \in 0 .. M - 1 |-> y[j][N]]
    BY <2>2
  <2> QED BY <2>1, <2>2, <2>3
<1>7. y \in [0 .. M - 1 -> [0 .. N -> Int]]
  <2>1. \A j \in 0 .. M - 1 : Y(j) \in [0 .. N -> Int]
    <3> HIDE DEF N, M, b, O, x, mid, Hit, Y
    <3> QED BY <1>5 DEF IsFold
  <2> HIDE DEF N, M, Y
  <2> QED BY <2>1
<1>8. g \in [0 .. N - 1 -> 0 .. M - 1]
  <2>1. \A p \in 0 .. N - 1 : Lands(s, t, p) \in 0 .. M - 1
    BY <1>1, <1>2, LandsInside
  <2> HIDE DEF N, M, s, t
  <2> QED BY <2>1
<1>9. ASSUME NEW q \in 0 .. Q - 1 PROVE reduce(d)[q] = reduce(e)[q]
  <2> DEFINE hit == [j \in 0 .. M - 1 |-> Lands(t, u, j) = q]
  <2>1. PICK twice : IsFold(twice, M, b, O, mid, hit) /\ reduce(d)[q] = twice[M]
    <3>1. d.in_shape = t /\ d.out_shape = u /\ d.reduce_op = op /\ d.init_value = b /\ d.input = mid
      BY <1>1
    <3>2. mid \in [0 .. M - 1 -> Int]
      BY <1>6
    <3>3. t \in Shapes /\ b \in Int /\ op \in {"add", "mul", "min", "max"}
      BY <1>1, <1>2
    <3> HIDE DEF t, u, op, b, mid, O
    <3> QED BY <3>1, <3>2, <3>3, ReduceIs DEF O
  <2>2. PICK once : IsFold(once, N, b, O, x, [p \in 0 .. N - 1 |-> Lands(s, u, p) = q]) /\ reduce(e)[q] = once[N]
    <3>1. e.in_shape = s /\ e.out_shape = u /\ e.reduce_op = op /\ e.init_value = b /\ e.input = x
      BY <1>1
    <3> HIDE DEF s, u, op, b, x, O
    <3> QED BY <1>1, <1>2, <3>1, ReduceIs DEF O
  <2>3. [p \in 0 .. N - 1 |-> Lands(s, u, p) = q] = [k \in 0 .. N - 1 |-> hit[g[k]]]
    <3>1. ASSUME NEW p \in 0 .. N - 1 PROVE (Lands(s, u, p) = q) = hit[g[p]]
      <4>1. g[p] = Lands(s, t, p) /\ g[p] \in 0 .. M - 1
        <5> HIDE DEF N, M, s, t
        <5> QED BY <1>8
      <4>2. Lands(t, u, Lands(s, t, p)) = Lands(s, u, p)
        <5> HIDE DEF s, t, u
        <5> QED BY <1>1, LandsThrough DEF N
      <4>3. hit[g[p]] = (Lands(t, u, g[p]) = q)
        <5> HIDE DEF g, M
        <5> QED BY <4>1
      <4> HIDE DEF hit, g
      <4> QED BY <4>1, <4>2, <4>3
    <3> HIDE DEF N, hit, g, s, u
    <3> QED BY <3>1
  <2>4. \A j \in 0 .. M - 1 : IsFold(y[j], N, b, O, x, [k \in 0 .. N - 1 |-> g[k] = j])
    <3> TAKE j \in 0 .. M - 1
    <3>1. [k \in 0 .. N - 1 |-> g[k] = j] = Hit(j)
      <4> HIDE DEF N, s, t
      <4> QED OBVIOUS
    <3> HIDE DEF y, N, M, b, O, x, mid, Hit, g
    <3> QED BY <1>5, <3>1
  <2>5. IsFold(once, N, b, O, x, [k \in 0 .. N - 1 |-> hit[g[k]]])
    <3> HIDE DEF N, hit, g, s, u, b, O, x
    <3> QED BY <2>2, <2>3
  <2>6. IsFold(twice, M, b, O, [j \in 0 .. M - 1 |-> y[j][N]], hit)
    <3> HIDE DEF N, M, hit, y, b, O, mid
    <3> QED BY <1>6, <2>1
  <2>7. twice[M] = once[N]
    <3>1. /\ N \in Nat /\ M \in Nat /\ b \in Int /\ Merges(O) /\ O[b][b] = b
          /\ x \in [0 .. N - 1 -> Int] /\ g \in [0 .. N - 1 -> 0 .. M - 1] /\ y \in [0 .. M - 1 -> [0 .. N -> Int]]
      BY <1>1, <1>3, <1>4, <1>7, <1>8
    <3> HIDE DEF N, M, b, O, x, g, hit, y
    <3>2. TwoFolds(N, M, b, O, x, g, hit, y, once, twice)
      BY <2>4, <2>5, <2>6, <3>1 DEF TwoFolds
    <3> QED BY <3>2, FoldTwice
  <2> QED BY <2>1, <2>2, <2>7
<1>10. DOMAIN reduce(d) = 0 .. Q - 1 /\ DOMAIN reduce(e) = 0 .. Q - 1
       /\ reduce(d) = [q \in 0 .. Q - 1 |-> reduce(d)[q]] /\ reduce(e) = [q \in 0 .. Q - 1 |-> reduce(e)[q]]
  BY DEF reduce
<1> HIDE DEF Q
<1>11. [q \in 0 .. Q - 1 |-> reduce(d)[q]] = [q \in 0 .. Q - 1 |-> reduce(e)[q]]
  BY <1>9
<1> QED
  BY <1>10, <1>11

-----------------------------------------------------------------------------
\* Whether a slice takes the j-th position of axis k.
Taken(n, k, j) == IF n.strides[k] > 0 THEN n.begin[k] + j * n.strides[k] < n.end[k] ELSE n.begin[k] + j * n.strides[k] > n.end[k]

\* It takes c positions of an axis if those are the first c.
LEMMA StepsCounted ==
  ASSUME NEW n, NEW k, n.in_shape[k] \in Nat, NEW c \in Nat, c <= n.in_shape[k] + 1,
         \A j \in 0 .. n.in_shape[k] : Taken(n, k, j) <=> j < c
  PROVE  SliceSteps(n, k) = c
<1> DEFINE S == {j \in 0 .. n.in_shape[k] : Taken(n, k, j)}
<1>1. S = 0 .. c - 1
  <2>1. \A j : j \in S <=> j \in 0 .. n.in_shape[k] /\ j < c
    OBVIOUS
  <2> DEFINE size == n.in_shape[k]
  <2>2. size \in Nat /\ c <= size + 1
    OBVIOUS
  <2> HIDE DEF S, size
  <2>3. \A j : j \in S <=> j \in 0 .. c - 1
    BY <2>1, <2>2 DEF size
  <2> QED BY <2>3
<1>2. Cardinality(0 .. c - 1) = c
  <2> DEFINE a == 0
             b == c - 1
  <2>1. a \in Int /\ b \in Int
    OBVIOUS
  <2>2. (IF a > b THEN 0 ELSE b - a + 1) = c
    OBVIOUS
  <2> HIDE DEF a, b
  <2>3. Cardinality(a .. b) = c
    BY <2>1, <2>2, FS_Interval
  <2> QED BY <2>3 DEF a, b
<1>3. SliceSteps(n, k) = Cardinality(S)
  BY DEF SliceSteps, Taken
<1> QED
  BY <1>1, <1>2, <1>3

\* An axis taken from b to b + c by ones, or backwards as a whole.
LEMMA StepsForward ==
  ASSUME NEW n, NEW k, n.in_shape[k] \in Nat, NEW c \in Nat, c <= n.in_shape[k],
         n.begin[k] \in Nat, n.end[k] = n.begin[k] + c, n.strides[k] = 1
  PROVE  SliceSteps(n, k) = c
<1> DEFINE b == n.begin[k]
           e == n.end[k]
           s == n.strides[k]
<1>1. b \in Nat /\ e = b + c /\ s = 1
  OBVIOUS
<1>2. ASSUME NEW j \in 0 .. n.in_shape[k] PROVE Taken(n, k, j) <=> j < c
  <2>1. Taken(n, k, j) <=> IF s > 0 THEN b + j * s < e ELSE b + j * s > e
    BY DEF Taken
  <2>2. j \in Nat
    OBVIOUS
  <2> HIDE DEF b, e, s
  <2> QED BY <1>1, <2>1, <2>2
<1> QED
  BY <1>2, StepsCounted

\* A slice that goes backwards over an axis has all of it.
LEMMA StepsBackward ==
  ASSUME NEW n, NEW k, n.in_shape[k] \in Nat,
         n.begin[k] = n.in_shape[k] - 1, n.end[k] = -1, n.strides[k] = -1
  PROVE  SliceSteps(n, k) = n.in_shape[k]
<1> DEFINE b == n.begin[k]
           e == n.end[k]
           s == n.strides[k]
           c == n.in_shape[k]
<1>1. c \in Nat /\ b = c - 1 /\ e = -1 /\ s = -1
  OBVIOUS
<1>2. ASSUME NEW j \in 0 .. c PROVE Taken(n, k, j) <=> j < c
  <2>1. Taken(n, k, j) <=> IF s > 0 THEN b + j * s < e ELSE b + j * s > e
    BY DEF Taken
  <2> HIDE DEF b, e, s, c
  <2>2. j \in Nat
    BY <1>1
  <2> QED BY <1>1, <2>1, <2>2
<1> QED
  BY <1>1, <1>2, StepsCounted

\* Of c positions position j has its place at j * s, of to places, and no others have.
Spread(c, to, s) == to \in Nat \ {0} /\ c <= to /\ \A j \in Nat : j * s \in Nat /\ (j * s < to <=> j < c)

\* So it is when an axis is enlarged.
LEMMA EnlargedFits ==
  ASSUME NEW c \in Nat \ {0}, NEW s \in Nat \ {0}, NEW align \in BOOLEAN, NEW to, Enlarged(c, to, s, align)
  PROVE  Spread(c, to, s)
<1> DEFINE d == (c - 1) * s
<1>1. to = IF align THEN d + 1 ELSE c * s
  BY DEF Enlarged
<1>2. d \in Nat /\ d >= c - 1 /\ c * s = d + s
  <2>1. s * (c - 1) >= 1 * (c - 1) /\ s * (c - 1) \in Nat
    BY Grows
  <2>2. d = s * (c - 1) /\ c * s = d + s /\ 1 * (c - 1) = c - 1
    OBVIOUS
  <2> HIDE DEF d
  <2> QED BY <2>1, <2>2
<1> HIDE DEF d
<1>3. to \in Nat \ {0} /\ c <= to /\ d < to /\ (to = d + 1 \/ to = d + s)
  BY <1>1, <1>2
<1>4. ASSUME NEW j \in Nat PROVE j * s \in Nat /\ (j < c => j * s <= d) /\ (j >= c => j * s >= d + s)
  <2>1. j * s \in Nat
    BY Grows
  <2>2. j < c => j * s <= d
    <3> SUFFICES ASSUME j < c PROVE j * s <= d
      OBVIOUS
    <3>1. c - 1 >= j /\ c - 1 \in Nat
      OBVIOUS
    <3>2. (c - 1) * s >= j * s
      BY <3>1, Grows
    <3>3. d = (c - 1) * s
      BY DEF d
    <3> QED BY <1>2, <2>1, <3>2, <3>3
  <2>3. j >= c => j * s >= d + s
    <3> SUFFICES ASSUME j >= c PROVE j * s >= d + s
      OBVIOUS
    <3>1. j * s >= c * s
      BY Grows
    <3> QED BY <1>2, <3>1
  <2> QED BY <2>1, <2>2, <2>3
<1>5. \A j \in Nat : j * s \in Nat /\ (j * s < to <=> j < c)
  <2> TAKE j \in Nat
  <2> DEFINE y == j * s
  <2>1. y \in Nat /\ (j < c => y <= d) /\ (j >= c => y >= d + s)
    BY <1>4
  <2> HIDE DEF y
  <2>2. y < to <=> j < c
    BY <1>2, <1>3, <2>1
  <2> QED BY <2>1, <2>2 DEF y
<1> QED
  BY <1>3, <1>5 DEF Spread

\* A slice with the stride an axis was enlarged by has as many as there were.
LEMMA StepsStrided ==
  ASSUME NEW n, NEW k, NEW c \in Nat \ {0}, n.strides[k] \in Nat \ {0}, n.begin[k] = 0, n.end[k] = n.in_shape[k],
         NEW align \in BOOLEAN, Enlarged(c, n.in_shape[k], n.strides[k], align)
  PROVE  SliceSteps(n, k) = c
<1> DEFINE b == n.begin[k]
           e == n.end[k]
           s == n.strides[k]
           x == n.in_shape[k]
<1>1. s \in Nat \ {0} /\ b = 0 /\ e = x
  OBVIOUS
<1>2. x \in Nat \ {0} /\ c <= x /\ \A j \in Nat : j * s \in Nat /\ (j * s < x <=> j < c)
  <2>1. Enlarged(c, x, s, align)
    OBVIOUS
  <2> HIDE DEF s, x
  <2>2. Spread(c, x, s)
    BY <1>1, <2>1, EnlargedFits
  <2> QED BY <2>2 DEF Spread
<1>3. ASSUME NEW j \in 0 .. x PROVE Taken(n, k, j) <=> j < c
  <2>1. Taken(n, k, j) <=> IF s > 0 THEN b + j * s < e ELSE b + j * s > e
    BY DEF Taken
  <2> HIDE DEF b, e, s, x
  <2>2. j \in Nat
    BY <1>2
  <2> DEFINE y == j * s
  <2>3. y \in Nat /\ (y < x <=> j < c)
    BY <1>2, <2>2
  <2>4. Taken(n, k, j) <=> IF s > 0 THEN b + y < e ELSE b + y > e
    BY <2>1
  <2> HIDE DEF y
  <2>5. s > 0 /\ b + y = y /\ e = x
    BY <1>1, <2>3
  <2> QED BY <2>3, <2>4, <2>5
<1>4. n.in_shape[k] \in Nat /\ c \in Nat /\ c <= n.in_shape[k] + 1
  <2> HIDE DEF x
  <2>1. x \in Nat /\ c <= x + 1
    BY <1>2
  <2> QED BY <2>1 DEF x
<1>5. \A j \in 0 .. n.in_shape[k] : Taken(n, k, j) <=> j < c
  BY <1>3
<1> QED
  BY <1>4, <1>5, StepsCounted

\* Slice n has the shape out, and finds at each position of it the element of t there.
Recovers(n, out, t) ==
  /\ Shape(out) /\ \A k \in 1 .. 4 : SliceSteps(n, k) = out[k]
  /\ t = [p \in 0 .. compute_size(out) - 1 |-> t[p]]
  /\ \A p \in 0 .. compute_size(out) - 1 :
       n.input[offset(n.in_shape, [k \in 1 .. 4 |-> n.begin[k] + Index(out, p)[k] * n.strides[k]])] = t[p]

\* It is t.
LEMMA SliceReads ==
  ASSUME NEW n, NEW out, NEW t, Recovers(n, out, t)
  PROVE  strided_slice(n) = t
<1> USE DEF Recovers
<1> DEFINE s == SliceShape(n)
<1>1. s[1] = out[1] /\ s[2] = out[2] /\ s[3] = out[3] /\ s[4] = out[4]
  BY DEF SliceShape
<1>2. strided_slice(n) = [p \in 0 .. compute_size(s) - 1 |->
        n.input[offset(n.in_shape, [k \in 1 .. 4 |-> n.begin[k] + Index(s, p)[k] * n.strides[k]])]]
  BY DEF strided_slice, Tensor
<1> HIDE DEF s
<1>3. compute_size(s) = compute_size(out) /\ \A p : Index(s, p) = Index(out, p)
  BY <1>1 DEF compute_size, Index
<1>4. strided_slice(n) = [p \in 0 .. compute_size(out) - 1 |->
        n.input[offset(n.in_shape, [k \in 1 .. 4 |-> n.begin[k] + Index(out, p)[k] * n.strides[k]])]]
  BY <1>2, <1>3
<1> QED
  BY <1>4

-----------------------------------------------------------------------------
\* Slicing a padded tensor where it was before.
LEMMA PadSliced ==
  ASSUME NEW m, NEW n, Unpads(m, n), NEW d, d.in_shape = n.in_shape, d.input = pad(m),
         \A k \in 1 .. 4 : d.begin[k] = n.begin[k] /\ d.end[k] = n.end[k] /\ d.strides[k] = n.strides[k]
  PROVE  strided_slice(d) = m.input
<1> DEFINE s == m.in_shape
           S == PadShape(m)
           before == [k \in 1 .. 4 |-> m.paddings[k].before]
           after == [k \in 1 .. 4 |-> m.paddings[k].after]
           N == compute_size(s)
<1>1. /\ s \in Shapes /\ m.input = [p \in 0 .. N - 1 |-> m.input[p]] /\ d.in_shape = S
      /\ \A k \in 1 .. 4 : before[k] \in Nat /\ after[k] \in Nat
      /\ \A k \in 1 .. 4 : d.begin[k] = before[k] /\ d.end[k] = before[k] + s[k] /\ d.strides[k] = 1
  BY DEF Unpads, IsTensor, Slices, Unstrided
<1>2. \A k \in 1 .. 4 : s[k] \in Nat \ {0} /\ S[k] = s[k] + before[k] + after[k] /\ S[k] \in Nat \ {0}
  <2> TAKE k \in 1 .. 4
  <2>1. S[k] = s[k] + before[k] + after[k]
    BY DEF PadShape
  <2>2. s[k] \in Nat \ {0} /\ before[k] \in Nat /\ after[k] \in Nat
    BY <1>1 DEF Shapes
  <2> HIDE DEF S, s, before, after
  <2> QED BY <2>1, <2>2
<1>3. S \in Shapes
  <2>1. S = [k \in 1 .. 4 |-> S[k]]
    BY DEF PadShape
  <2> HIDE DEF S
  <2> QED BY <1>2, <2>1 DEF Shapes
<1>4. \A k \in 1 .. 4 : SliceSteps(d, k) = s[k]
  <2> TAKE k \in 1 .. 4
  <2>1. /\ d.in_shape[k] \in Nat /\ s[k] \in Nat /\ s[k] <= d.in_shape[k]
        /\ d.begin[k] \in Nat /\ d.end[k] = d.begin[k] + s[k] /\ d.strides[k] = 1
    <3>1. d.in_shape[k] = S[k] /\ d.begin[k] = before[k] /\ d.end[k] = before[k] + s[k] /\ d.strides[k] = 1
      BY <1>1
    <3>2. s[k] \in Nat \ {0} /\ S[k] = s[k] + before[k] + after[k] /\ before[k] \in Nat /\ after[k] \in Nat
      BY <1>1, <1>2
    <3> HIDE DEF S, s, before, after
    <3> QED BY <3>1, <3>2
  <2> HIDE DEF s
  <2> QED BY <2>1, StepsForward
<1>5. ASSUME NEW p \in 0 .. N - 1
      PROVE  d.input[offset(d.in_shape, [k \in 1 .. 4 |-> d.begin[k] + Index(s, p)[k] * d.strides[k]])] = m.input[p]
  <2> DEFINE i == Index(s, p)
             j == [k \in 1 .. 4 |-> d.begin[k] + i[k] * d.strides[k]]
             q == offset(S, j)
             l == Index(S, q)
             back == [k \in 1 .. 4 |-> l[k] - m.paddings[k].before]
  <2>1. (\A k \in 1 .. 4 : i[k] \in 0 .. s[k] - 1) /\ offset(s, i) = p
    BY <1>1, OffsetOfIndex DEF Shapes, Shape
  <2>2. \A k \in 1 .. 4 : j[k] = before[k] + i[k] /\ j[k] \in 0 .. S[k] - 1
    <3> TAKE k \in 1 .. 4
    <3>1. j[k] = d.begin[k] + i[k] * d.strides[k] /\ d.begin[k] = before[k] /\ d.strides[k] = 1
      BY <1>1
    <3>2. i[k] \in 0 .. s[k] - 1 /\ before[k] \in Nat /\ after[k] \in Nat /\ S[k] = s[k] + before[k] + after[k] /\ s[k] \in Nat
      BY <1>1, <1>2, <2>1
    <3> HIDE DEF i, j, before, after, S, s
    <3> QED BY <3>1, <3>2
  <2>3. q \in 0 .. compute_size(S) - 1 /\ \A k \in 1 .. 4 : l[k] = j[k]
    <3> HIDE DEF S, j
    <3> QED BY <1>3, <2>2, IndexOfOffset DEF Shapes, Shape
  <2>4. pad(m)[q] = IF OnBorder(m, l) THEN m.pad_value ELSE m.input[offset(s, back)]
    <3> HIDE DEF q
    <3> QED BY <2>3 DEF pad, Tensor
  <2>5. ~OnBorder(m, l)
    <3> SUFFICES ASSUME NEW k \in 1 .. 4, l[k] < m.paddings[k].before \/ l[k] >= PadShape(m)[k] - m.paddings[k].after PROVE FALSE
      BY DEF OnBorder
    <3>1. l[k] < before[k] \/ l[k] >= S[k] - after[k]
      OBVIOUS
    <3>2. l[k] = before[k] + i[k] /\ i[k] \in 0 .. s[k] - 1 /\ before[k] \in Nat /\ after[k] \in Nat
          /\ S[k] = s[k] + before[k] + after[k] /\ s[k] \in Nat
      BY <1>1, <1>2, <2>1, <2>2, <2>3
    <3> HIDE DEF i, j, before, after, S, s, l
    <3> QED BY <3>1, <3>2
  <2>6. \A k \in 1 .. 4 : back[k] = i[k]
    <3> TAKE k \in 1 .. 4
    <3>1. back[k] = l[k] - before[k] /\ l[k] = before[k] + i[k] /\ i[k] \in 0 .. s[k] - 1 /\ before[k] \in Nat /\ s[k] \in Nat
      <4>1. back[k] = l[k] - before[k]
        OBVIOUS
      <4>2. l[k] = before[k] + i[k]
        BY <2>2, <2>3
      <4> HIDE DEF back, l, before, i, s
      <4> QED BY <1>1, <1>2, <2>1, <4>1, <4>2
    <3> HIDE DEF i, j, before, after, S, s, l, back
    <3> QED BY <3>1
  <2>7. offset(s, back) = p
    <3> HIDE DEF back, i, s
    <3>1. offset(s, back) = offset(s, i)
      BY <2>6, OffsetReads
    <3> QED BY <2>1, <3>1
  <2>8. d.input[q] = m.input[p]
    <3> HIDE DEF q, back, l
    <3> QED BY <2>4, <2>5, <2>7
  <2> QED BY <1>1, <2>8
<1>6. Shape(s)
  BY <1>1 DEF Shapes, Shape
<1> QED
  <2> DEFINE t == m.input
  <2>1. t = [p \in 0 .. compute_size(s) - 1 |-> t[p]]
    BY <1>1
  <2>2. \A p \in 0 .. compute_size(s) - 1 :
          d.input[offset(d.in_shape, [k \in 1 .. 4 |-> d.begin[k] + Index(s, p)[k] * d.strides[k]])] = t[p]
    BY <1>5
  <2> HIDE DEF s, t
  <2>3. Recovers(d, s, t)
    BY <1>4, <1>6, <2>1, <2>2 DEF Recovers
  <2>4. strided_slice(d) = t
    BY <2>3, SliceReads
  <2> QED BY <2>4 DEF t

\* An axis turned twice, or left twice, is as it was.
LEMMA ReverseSliced ==
  ASSUME NEW m, NEW n, Reverses(m, n), NEW d, d.in_shape = n.in_shape, d.input = strided_slice(m),
         \A k \in 1 .. 4 : d.begin[k] = n.begin[k] /\ d.end[k] = n.end[k] /\ d.strides[k] = n.strides[k]
  PROVE  strided_slice(d) = m.input
<1> DEFINE s == m.in_shape
           N == compute_size(s)
           Turned(i) == [k \in 1 .. 4 |-> m.begin[k] + i[k] * m.strides[k]]
<1>1. /\ s \in Shapes /\ m.input = [p \in 0 .. N - 1 |-> m.input[p]] /\ d.in_shape = s
      /\ \A k \in 1 .. 4 : d.begin[k] = m.begin[k] /\ d.end[k] = m.end[k] /\ d.strides[k] = m.strides[k]
      /\ \A k \in 1 .. 4 : \/ m.begin[k] = 0 /\ m.end[k] = s[k] /\ m.strides[k] = 1
                           \/ m.begin[k] = s[k] - 1 /\ m.end[k] = -1 /\ m.strides[k] = -1
  BY DEF Reverses, IsTensor, Slices
<1>2. \A k \in 1 .. 4 : s[k] \in Nat \ {0}
  BY <1>1 DEF Shapes
<1>3. ASSUME NEW x, x.in_shape = s,
             \A k \in 1 .. 4 : x.begin[k] = m.begin[k] /\ x.end[k] = m.end[k] /\ x.strides[k] = m.strides[k]
      PROVE  \A k \in 1 .. 4 : SliceSteps(x, k) = s[k]
  <2> TAKE k \in 1 .. 4
  <2>1. x.in_shape[k] = s[k] /\ s[k] \in Nat /\ x.in_shape[k] \in Nat
    BY <1>2, <1>3
  <2>2. CASE m.begin[k] = 0 /\ m.end[k] = s[k] /\ m.strides[k] = 1
    <3>1. /\ x.in_shape[k] \in Nat /\ s[k] \in Nat /\ s[k] <= x.in_shape[k]
          /\ x.begin[k] \in Nat /\ x.end[k] = x.begin[k] + s[k] /\ x.strides[k] = 1
      BY <1>3, <2>1, <2>2
    <3> HIDE DEF s
    <3> QED BY <3>1, StepsForward
  <2>3. CASE m.begin[k] = s[k] - 1 /\ m.end[k] = -1 /\ m.strides[k] = -1
    <3>1. x.begin[k] = x.in_shape[k] - 1 /\ x.end[k] = -1 /\ x.strides[k] = -1
      BY <1>3, <2>1, <2>3
    <3>2. SliceSteps(x, k) = x.in_shape[k]
      BY <2>1, <3>1, StepsBackward
    <3> QED BY <2>1, <3>2
  <2> QED BY <1>1, <2>2, <2>3
<1>4. Shape(s)
  BY <1>1 DEF Shapes, Shape
<1>5. strided_slice(m) = [p \in 0 .. N - 1 |-> m.input[offset(s, Turned(Index(s, p)))]]
  <2> DEFINE t == [p \in 0 .. N - 1 |-> m.input[offset(s, Turned(Index(s, p)))]]
  <2>1. t = [p \in 0 .. N - 1 |-> t[p]]
    OBVIOUS
  <2>2. \A p \in 0 .. N - 1 : m.input[offset(m.in_shape, [k \in 1 .. 4 |-> m.begin[k] + Index(s, p)[k] * m.strides[k]])] = t[p]
    OBVIOUS
  <2>3. \A k \in 1 .. 4 : SliceSteps(m, k) = s[k]
    BY <1>3
  <2> HIDE DEF s, t
  <2>4. Recovers(m, s, t)
    BY <1>4, <2>1, <2>2, <2>3 DEF Recovers
  <2>5. strided_slice(m) = t
    BY <2>4, SliceReads
  <2> QED BY <2>5 DEF t
<1>6. ASSUME NEW p \in 0 .. N - 1
      PROVE  d.input[offset(d.in_shape, [k \in 1 .. 4 |-> d.begin[k] + Index(s, p)[k] * d.strides[k]])] = m.input[p]
  <2> DEFINE i == Index(s, p)
             j == Turned(i)
             q == offset(s, j)
             l == Index(s, q)
  <2>1. (\A k \in 1 .. 4 : i[k] \in 0 .. s[k] - 1) /\ offset(s, i) = p
    BY <1>4, OffsetOfIndex
  <2>2. [k \in 1 .. 4 |-> d.begin[k] + i[k] * d.strides[k]] = j
    BY <1>1
  <2>3. ASSUME NEW a, NEW k \in 1 .. 4, a[k] \in 0 .. s[k] - 1
        PROVE  Turned(a)[k] \in 0 .. s[k] - 1 /\ \A b : b[k] = Turned(a)[k] => Turned(b)[k] = a[k]
    <3>1. \A b : Turned(b)[k] = m.begin[k] + b[k] * m.strides[k]
      OBVIOUS
    <3> DEFINE x == m.begin[k]
               y == m.strides[k]
               u == a[k]
    <3>2. s[k] \in Nat \ {0} /\ u \in 0 .. s[k] - 1 /\ ((x = 0 /\ y = 1) \/ (x = s[k] - 1 /\ y = -1))
      BY <1>1, <1>2, <2>3
    <3>3. Turned(a)[k] = x + u * y
      BY <3>1
    <3> HIDE DEF Turned, s, x, y, u
    <3>4. Turned(a)[k] \in 0 .. s[k] - 1 /\ x + (x + u * y) * y = u
      BY <3>2, <3>3
    <3>5. \A b : b[k] = Turned(a)[k] => Turned(b)[k] = x + (x + u * y) * y
      BY <3>1, <3>3 DEF x, y
    <3> QED BY <3>4, <3>5 DEF u
  <2>4. \A k \in 1 .. 4 : j[k] \in 0 .. s[k] - 1
    BY <2>1, <2>3
  <2>5. q \in 0 .. N - 1 /\ \A k \in 1 .. 4 : l[k] = j[k]
    <3> HIDE DEF j, s
    <3> QED BY <1>4, <2>4, IndexOfOffset
  <2>6. strided_slice(m)[q] = m.input[offset(s, Turned(l))]
    <3> HIDE DEF q, Turned, s
    <3> QED BY <1>5, <2>5 DEF s
  <2>7. \A k \in 1 .. 4 : Turned(l)[k] = i[k]
    <3> TAKE k \in 1 .. 4
    <3>1. l[k] = Turned(i)[k] /\ i[k] \in 0 .. s[k] - 1
      BY <2>1, <2>5
    <3> HIDE DEF i, j, l, Turned, s
    <3> QED BY <2>3, <3>1
  <2>8. offset(s, Turned(l)) = p
    <3> DEFINE back == Turned(l)
    <3>1. \A k \in 1 .. 4 : back[k] = i[k]
      BY <2>7
    <3> HIDE DEF back, i, s
    <3>2. offset(s, back) = offset(s, i)
      BY <3>1, OffsetReads
    <3>3. offset(s, back) = p
      BY <2>1, <3>2
    <3> QED BY <3>3 DEF back
  <2>9. d.input[q] = m.input[p]
    <3> HIDE DEF q, l, Turned
    <3> QED BY <2>6, <2>8
  <2> QED BY <1>1, <2>2, <2>9
<1> QED
  <2> DEFINE t == m.input
  <2>1. t = [p \in 0 .. compute_size(s) - 1 |-> t[p]]
    BY <1>1
  <2>2. \A p \in 0 .. compute_size(s) - 1 :
          d.input[offset(d.in_shape, [k \in 1 .. 4 |-> d.begin[k] + Index(s, p)[k] * d.strides[k]])] = t[p]
    BY <1>6
  <2>3. \A k \in 1 .. 4 : SliceSteps(d, k) = s[k]
    BY <1>1, <1>3
  <2> HIDE DEF s, t
  <2>4. Recovers(d, s, t)
    BY <1>4, <2>1, <2>2, <2>3 DEF Recovers
  <2>5. strided_slice(d) = t
    BY <2>4, SliceReads
  <2> QED BY <2>5 DEF t

-----------------------------------------------------------------------------
\* The operations that kernels accumulate with.
Operators == {"add", "mul", "min", "max"}

\* An operation makes an integer of two.
LEMMA AppliedIsInt ==
  ASSUME NEW op \in Operators, NEW a \in Int, NEW b \in Int
  PROVE  Apply(op, a, b) \in Int
<1>1. CASE op = "add"
  BY <1>1 DEF Apply
<1>2. CASE op = "mul"
  BY <1>2 DEF Apply
<1>3. CASE op = "min"
  BY <1>3 DEF Apply, Least2
<1>4. CASE op = "max"
  BY <1>4 DEF Apply, Most2
<1> QED
  BY <1>1, <1>2, <1>3, <1>4 DEF Operators

\* What accumulating the first elements gives, element by element.
Accumulates(op, b, x, n) ==
  /\ Accumulate(op, b, x, 0) = b
  /\ \A k \in 0 .. n : Accumulate(op, b, x, k) \in Int
  /\ \A k \in 1 .. n : Accumulate(op, b, x, k) = Apply(op, Accumulate(op, b, x, k - 1), x[k - 1])

\* The recursion of Accumulate, up to m, is what any g that does so says.
GoesOn(g, op, b, x, n) ==
  g \in [0 .. n -> Int] /\ g[0] = b /\ \A k \in 1 .. n : g[k] = Apply(op, g[k - 1], x[k - 1])

\* A fold follows any function that starts and goes on as it does.
LEMMA AccumulateIs ==
  ASSUME NEW op, NEW b, NEW x, NEW n \in Nat, NEW m \in 0 .. n, NEW g, GoesOn(g, op, b, x, n)
  PROVE  Accumulate(op, b, x, m) = g[m]
<1>0. g[0] = b /\ \A k \in 1 .. n : g[k] = Apply(op, g[k - 1], x[k - 1])
  BY DEF GoesOn
<1> DEFINE E(h) == [k \in 0 .. m |-> IF k = 0 THEN b ELSE Apply(op, h[k - 1], x[k - 1])]
           acc == CHOOSE h : h = E(h)
           f == [k \in 0 .. m |-> g[k]]
<1>1. Accumulate(op, b, x, m) = acc[m]
  BY DEF Accumulate
<1>2. f = E(f)
  <2>1. ASSUME NEW k \in 0 .. m PROVE g[k] = IF k = 0 THEN b ELSE Apply(op, f[k - 1], x[k - 1])
    <3>1. CASE k = 0
      BY <1>0, <3>1
    <3>2. CASE k # 0
      <4>1. k \in 1 .. n /\ k - 1 \in 0 .. m
        BY <3>2
      <4>2. f[k - 1] = g[k - 1] /\ g[k] = Apply(op, g[k - 1], x[k - 1])
        BY <1>0, <4>1
      <4> HIDE DEF f
      <4> QED BY <3>2, <4>2
    <3> QED BY <3>1, <3>2
  <2> DEFINE A(k) == g[k]
             B(k) == IF k = 0 THEN b ELSE Apply(op, f[k - 1], x[k - 1])
  <2>2. \A k \in 0 .. m : A(k) = B(k)
    BY <2>1
  <2> HIDE DEF A, B
  <2>3. [k \in 0 .. m |-> A(k)] = [k \in 0 .. m |-> B(k)]
    BY <2>2
  <2> QED BY <2>3 DEF A, B
<1>3. acc = E(acc)
  <2> HIDE DEF E, f
  <2> QED BY <1>2
<1>4. \A k \in 0 .. m : acc[k] = IF k = 0 THEN b ELSE Apply(op, acc[k - 1], x[k - 1])
  <2> HIDE DEF acc
  <2>1. \A k \in 0 .. m : acc[k] = E(acc)[k]
    <3> HIDE DEF E
    <3> QED BY <1>3
  <2>2. \A k \in 0 .. m : E(acc)[k] = IF k = 0 THEN b ELSE Apply(op, acc[k - 1], x[k - 1])
    OBVIOUS
  <2> HIDE DEF E
  <2> QED BY <2>1, <2>2
<1>5. acc[m] = g[m]
  <2> HIDE DEF acc, f
  <2> DEFINE S == {k \in 0 .. m : acc[k] = g[k]}
  <2>1. 0 \in S
    BY <1>0, <1>4
  <2>2. ASSUME NEW k \in 1 .. m, k - 1 \in S PROVE k \in S
    <3>1. acc[k - 1] = g[k - 1] /\ k \in 1 .. n /\ k \in 0 .. m /\ k # 0
      BY <2>2
    <3>2. acc[k] = Apply(op, acc[k - 1], x[k - 1]) /\ g[k] = Apply(op, g[k - 1], x[k - 1])
      BY <1>0, <1>4, <3>1
    <3> QED BY <3>1, <3>2
  <2>3. \A k \in 0 .. m : k \in S
    <3>1. m \in Nat
      OBVIOUS
    <3> HIDE DEF S
    <3> QED BY <2>1, <2>2, <3>1, UpTo
  <2> QED BY <2>3
<1> QED
  BY <1>1, <1>5

\* Numbers accumulate to numbers.
LEMMA AccumulateSteps ==
  ASSUME NEW op \in Operators, NEW b \in Int, NEW n \in Nat, NEW x, \A k \in 0 .. n - 1 : x[k] \in Int
  PROVE  Accumulates(op, b, x, n)
<1> DEFINE F == [k \in 1 .. n |-> [a \in Int |-> Apply(op, a, x[k - 1])]]
<1>1. F \in [1 .. n -> [Int -> Int]]
  <2>1. ASSUME NEW k \in 1 .. n, NEW a \in Int PROVE Apply(op, a, x[k - 1]) \in Int
    <3>1. x[k - 1] \in Int
      OBVIOUS
    <3> QED BY <3>1, AppliedIsInt
  <2> QED BY <2>1
<1>2. Iterates(n, Int, b, F)
  <2> HIDE DEF F
  <2> QED BY <1>1, IterationExists
<1>3. PICK g : g \in [0 .. n -> Int] /\ g[0] = b /\ \A k \in 1 .. n : g[k] = F[k][g[k - 1]]
  BY <1>2 DEF Iterates
<1>4. \A k \in 1 .. n : g[k] = Apply(op, g[k - 1], x[k - 1])
  <2> TAKE k \in 1 .. n
  <2>1. k - 1 \in 0 .. n
    OBVIOUS
  <2>2. g[k - 1] \in Int
    BY <1>3, <2>1
  <2> QED BY <1>3, <2>2
<1>5. \A k \in 0 .. n : Accumulate(op, b, x, k) = g[k]
  <2> HIDE DEF F
  <2>1. GoesOn(g, op, b, x, n)
    BY <1>3, <1>4 DEF GoesOn
  <2> QED BY <2>1, AccumulateIs
<1>6. ASSUME NEW k \in 1 .. n PROVE Accumulate(op, b, x, k) = Apply(op, Accumulate(op, b, x, k - 1), x[k - 1])
  <2>1. k \in 0 .. n /\ k - 1 \in 0 .. n
    OBVIOUS
  <2> QED BY <1>4, <1>5, <2>1
<1>7. Accumulate(op, b, x, 0) = b /\ \A k \in 0 .. n : Accumulate(op, b, x, k) \in Int
  <2>1. 0 \in 0 .. n
    OBVIOUS
  <2> QED BY <1>3, <1>5, <2>1
<1> QED
  BY <1>6, <1>7 DEF Accumulates

-----------------------------------------------------------------------------
\* The sum of the first n elements of x.
Total(x, n) == Accumulate("add", 0, x, n)
Totals(x, n) ==
  /\ Total(x, 0) = 0 /\ \A k \in 0 .. n : Total(x, k) \in Int
  /\ \A k \in 1 .. n : Total(x, k) = Total(x, k - 1) + x[k - 1]

\* The sum of the first n terms is the sum of the first n - 1, and the last.
LEMMA TotalSteps ==
  ASSUME NEW n \in Nat, NEW x, \A k \in 0 .. n - 1 : x[k] \in Int
  PROVE  Totals(x, n)
<1>1. Accumulates("add", 0, x, n)
  <2> DEFINE op == "add"
             b == 0
  <2>1. op \in Operators /\ b \in Int
    BY DEF Operators
  <2> HIDE DEF op, b
  <2>2. Accumulates(op, b, x, n)
    BY <2>1, AccumulateSteps
  <2> QED BY <2>2 DEF op, b
<1> QED
  BY <1>1 DEF Accumulates, Totals, Total, Apply

\* A sum that starts with a number adds it.
LEMMA TotalFrom ==
  ASSUME NEW a \in Int, NEW n \in Nat, NEW x, \A k \in 0 .. n - 1 : x[k] \in Int
  PROVE  Accumulate("add", a, x, n) = a + Total(x, n)
<1>1. Accumulates("add", a, x, n)
  <2> DEFINE op == "add"
  <2>1. op \in Operators
    BY DEF Operators
  <2> HIDE DEF op
  <2>2. Accumulates(op, a, x, n)
    BY <2>1, AccumulateSteps
  <2> QED BY <2>2 DEF op
<1>2. Totals(x, n)
  BY TotalSteps
<1> DEFINE A(k) == Accumulate("add", a, x, k)
           T(k) == Total(x, k)
           S == {k \in 0 .. n : A(k) = a + T(k)}
<1>3. A(0) = a /\ \A k \in 1 .. n : A(k) = A(k - 1) + x[k - 1]
  BY <1>1 DEF Accumulates, Apply
<1>4. T(0) = 0 /\ (\A k \in 0 .. n : T(k) \in Int) /\ \A k \in 1 .. n : T(k) = T(k - 1) + x[k - 1]
  BY <1>2 DEF Totals
<1>5. \A k \in 1 .. n : T(k) = T(k - 1) + x[k - 1]
  BY <1>2 DEF Totals
<1> HIDE DEF A, T
<1>6. 0 \in S
  BY <1>3, <1>4
<1>7. ASSUME NEW k \in 1 .. n, k - 1 \in S PROVE k \in S
  <2>1. A(k - 1) = a + T(k - 1) /\ A(k) = A(k - 1) + x[k - 1] /\ T(k) = T(k - 1) + x[k - 1]
    BY <1>3, <1>5, <1>7
  <2>2. T(k - 1) \in Int /\ x[k - 1] \in Int
    <3>1. k - 1 \in 0 .. n /\ k - 1 \in 0 .. n - 1
      OBVIOUS
    <3> QED BY <1>4, <3>1
  <2>3. A(k) = a + T(k)
    BY <2>1, <2>2
  <2> QED BY <2>3
<1>8. \A k \in 0 .. n : k \in S
  <2> HIDE DEF S
  <2> QED BY <1>6, <1>7, UpTo
<1>9. A(n) = a + T(n)
  BY <1>8
<1> QED
  BY <1>9 DEF A, T

\* Sums of the same elements are the same.
LEMMA TotalSame ==
  ASSUME NEW n \in Nat, NEW x, NEW y, \A k \in 0 .. n - 1 : x[k] \in Int /\ y[k] = x[k]
  PROVE  Total(y, n) = Total(x, n)
<1>1. Totals(x, n)
  BY TotalSteps
<1>2. Totals(y, n)
  BY TotalSteps
<1> DEFINE S == {k \in 0 .. n : Total(y, k) = Total(x, k)}
<1>3. 0 \in S
  BY <1>1, <1>2 DEF Totals
<1>4. ASSUME NEW k \in 1 .. n, k - 1 \in S PROVE k \in S
  <2>1. k - 1 \in 0 .. n - 1
    OBVIOUS
  <2>2. Total(y, k - 1) = Total(x, k - 1) /\ y[k - 1] = x[k - 1]
    BY <1>4, <2>1
  <2> QED BY <1>1, <1>2, <2>2 DEF Totals
<1>5. \A k \in 0 .. n : k \in S
  <2> HIDE DEF S
  <2> QED BY <1>3, <1>4, UpTo
<1> QED
  BY <1>5

\* A sum of combinations is the combination of the sums.
Combines(z, x, y, w, a, b, c, n) == \A k \in 0 .. n - 1 : z[k] = x[k] + a * y[k] + b * w[k] + c

\* A sum of combinations is that combination of the sums.
LEMMA TotalCombines ==
  ASSUME NEW n \in Nat, NEW x, NEW y, NEW w, NEW z, NEW a \in Int, NEW b \in Int, NEW c \in Int,
         \A k \in 0 .. n - 1 : x[k] \in Int /\ y[k] \in Int /\ w[k] \in Int, Combines(z, x, y, w, a, b, c, n)
  PROVE  Total(z, n) = Total(x, n) + a * Total(y, n) + b * Total(w, n) + c * n
<1>1. \A k \in 0 .. n - 1 : z[k] \in Int
  BY DEF Combines
<1>2. Totals(x, n) /\ Totals(y, n) /\ Totals(w, n) /\ Totals(z, n)
  BY <1>1, TotalSteps
<1> DEFINE S == {k \in 0 .. n : Total(z, k) = Total(x, k) + a * Total(y, k) + b * Total(w, k) + c * k}
<1>3. 0 \in S
  BY <1>2 DEF Totals
<1>4. ASSUME NEW k \in 1 .. n, k - 1 \in S PROVE k \in S
  <2>1. k - 1 \in 0 .. n - 1 /\ k - 1 \in 0 .. n
    OBVIOUS
  <2> DEFINE X == Total(x, k - 1)
             Y == Total(y, k - 1)
             W == Total(w, k - 1)
             u == x[k - 1]
             v == y[k - 1]
             t == w[k - 1]
  <2>2. Total(z, k - 1) = X + a * Y + b * W + c * (k - 1) /\ z[k - 1] = u + a * v + b * t + c
    BY <1>4, <2>1 DEF Combines
  <2>3. Total(z, k) = Total(z, k - 1) + z[k - 1] /\ Total(x, k) = X + u /\ Total(y, k) = Y + v /\ Total(w, k) = W + t
    BY <1>2 DEF Totals
  <2>4. X \in Int /\ Y \in Int /\ W \in Int /\ u \in Int /\ v \in Int /\ t \in Int
    BY <1>2, <2>1 DEF Totals
  <2>5. ASSUME NEW p \in Int, NEW q \in Int, NEW r \in Int PROVE p * (q + r) = p * q + p * r /\ p * q \in Int /\ p * r \in Int
    OBVIOUS
  <2> HIDE DEF X, Y, W, u, v, t
  <2>6. a * (Y + v) = a * Y + a * v /\ b * (W + t) = b * W + b * t
    BY <2>4, <2>5
  <2>7. c * k = c * (k - 1) + c
    OBVIOUS
  <2>8. a * Y \in Int /\ a * v \in Int /\ b * W \in Int /\ b * t \in Int /\ c * (k - 1) \in Int
    BY <2>4
  <2> DEFINE aY == a * Y
             av == a * v
             bW == b * W
             bt == b * t
             ck == c * (k - 1)
  <2>9. Total(z, k) = X + aY + bW + ck + (u + av + bt + c)
    BY <2>2, <2>3
  <2>10. Total(x, k) + a * Total(y, k) + b * Total(w, k) + c * k = (X + u) + (aY + av) + (bW + bt) + (ck + c)
    BY <2>3, <2>6, <2>7
  <2>11. aY \in Int /\ av \in Int /\ bW \in Int /\ bt \in Int /\ ck \in Int
    BY <2>8
  <2> HIDE DEF aY, av, bW, bt, ck
  <2>12. X + aY + bW + ck + (u + av + bt + c) = (X + u) + (aY + av) + (bW + bt) + (ck + c)
    BY <2>4, <2>11
  <2>13. Total(z, k) = Total(x, k) + a * Total(y, k) + b * Total(w, k) + c * k
    BY <2>9, <2>10, <2>12
  <2> QED BY <2>13
<1>5. \A k \in 0 .. n : k \in S
  <2> HIDE DEF S
  <2> QED BY <1>3, <1>4, UpTo
<1> QED
  BY <1>5

\* Elements that are not more than B in size add up to not more than n times B.
LEMMA TotalBounded ==
  ASSUME NEW n \in Nat, NEW B \in Nat, NEW x, \A k \in 0 .. n - 1 : x[k] \in -B .. B
  PROVE  Total(x, n) \in -(n * B) .. n * B
<1>1. Totals(x, n)
  BY TotalSteps
<1> DEFINE S == {k \in 0 .. n : -(k * B) <= Total(x, k) /\ Total(x, k) <= k * B}
<1>2. 0 \in S
  BY <1>1 DEF Totals
<1>3. ASSUME NEW k \in 1 .. n, k - 1 \in S PROVE k \in S
  <2>1. k - 1 \in 0 .. n - 1 /\ k - 1 \in 0 .. n
    OBVIOUS
  <2>2. Total(x, k) = Total(x, k - 1) + x[k - 1] /\ Total(x, k - 1) \in Int /\ x[k - 1] \in -B .. B
    BY <1>1, <2>1 DEF Totals
  <2>3. k * B = (k - 1) * B + B /\ (k - 1) * B \in Int
    OBVIOUS
  <2>4. -((k - 1) * B) <= Total(x, k - 1) /\ Total(x, k - 1) <= (k - 1) * B
    BY <1>3
  <2> DEFINE kB == (k - 1) * B
  <2> HIDE DEF kB
  <2>5. -(kB + B) <= Total(x, k) /\ Total(x, k) <= kB + B
    BY <2>2, <2>3, <2>4 DEF kB
  <2>6. -(k * B) <= Total(x, k) /\ Total(x, k) <= k * B
    BY <2>3, <2>5 DEF kB
  <2> QED BY <2>6
<1>4. \A k \in 0 .. n : k \in S
  <2> HIDE DEF S
  <2> QED BY <1>2, <1>3, UpTo
<1>5. -(n * B) <= Total(x, n) /\ Total(x, n) <= n * B
  BY <1>4
<1>6. Total(x, n) \in Int /\ n * B \in Int
  BY <1>1 DEF Totals
<1> QED
  BY <1>5, <1>6

\* Elements outside of an interval that are 0 do not count.
Within(z, n, y, lo, m) ==
  /\ \A k \in 0 .. n - 1 : z[k] \in Int /\ (k < lo \/ k >= lo + m => z[k] = 0)
  /\ \A k \in 0 .. m - 1 : y[k] = z[lo + k]

\* Terms that are 0 off a stretch add up to the sum over the stretch.
LEMMA TotalWithin ==
  ASSUME NEW n \in Nat, NEW lo \in Nat, NEW m \in Nat, lo + m <= n, NEW z, NEW y, Within(z, n, y, lo, m)
  PROVE  Total(z, n) = Total(y, m)
<1>1. \A k \in 0 .. m - 1 : y[k] \in Int
  BY DEF Within
<1>2. Totals(z, n) /\ Totals(y, m)
  BY <1>1, TotalSteps DEF Within
<1> DEFINE Z(k) == Total(z, k)
           Y(k) == Total(y, k)
           S == {k \in 0 .. n : Z(k) = IF k <= lo THEN 0 ELSE IF k <= lo + m THEN Y(k - lo) ELSE Y(m)}
<1>3. Z(0) = 0 /\ \A k \in 1 .. n : Z(k) = Z(k - 1) + z[k - 1]
  BY <1>2 DEF Totals
<1>4. Y(0) = 0 /\ (\A k \in 0 .. m : Y(k) \in Int) /\ \A k \in 1 .. m : Y(k) = Y(k - 1) + y[k - 1]
  BY <1>2 DEF Totals
<1> HIDE DEF Z, Y
<1>5. 0 \in S
  BY <1>3
<1>6. ASSUME NEW k \in 1 .. n, k - 1 \in S PROVE k \in S
  <2>1. k - 1 \in 0 .. n - 1 /\ k \in 0 .. n
    OBVIOUS
  <2>2. Z(k) = Z(k - 1) + z[k - 1] /\ z[k - 1] \in Int
    BY <1>3, <2>1 DEF Within
  <2>3. CASE k <= lo
    <3>1. Z(k - 1) = 0 /\ z[k - 1] = 0
      BY <1>6, <2>1, <2>3 DEF Within
    <3> QED BY <2>1, <2>2, <2>3, <3>1
  <2>4. CASE lo < k /\ k <= lo + m
    <3>1. k - lo \in 1 .. m /\ k - 1 - lo \in 0 .. m - 1 /\ k - 1 - lo \in 0 .. m
      BY <2>4
    <3>2. Z(k - 1) = Y(k - 1 - lo)
      <4>1. CASE k - 1 <= lo
        <5>1. k - 1 = lo /\ k - 1 - lo = 0
          BY <2>4, <4>1
        <5> QED BY <1>4, <1>6, <4>1, <5>1
      <4>2. CASE lo < k - 1
        BY <1>6, <2>4, <4>2
      <4> QED BY <4>1, <4>2
    <3>3. y[k - 1 - lo] = z[k - 1]
      <4>1. lo + (k - 1 - lo) = k - 1
        OBVIOUS
      <4> QED BY <3>1, <4>1 DEF Within
    <3>4. Y(k - lo) = Y(k - lo - 1) + y[k - lo - 1] /\ k - lo - 1 = k - 1 - lo
      BY <1>4, <3>1
    <3>5. Z(k) = Y(k - lo)
      BY <2>2, <3>2, <3>3, <3>4
    <3> QED BY <2>1, <2>4, <3>5
  <2>5. CASE k > lo + m
    <3>1. z[k - 1] = 0
      BY <2>1, <2>5 DEF Within
    <3>2. Z(k - 1) = Y(m)
      <4>1. CASE k - 1 > lo + m
        BY <1>6, <2>5, <4>1
      <4>2. CASE k - 1 = lo + m
        <5>1. CASE m = 0
          BY <1>4, <1>6, <4>2, <5>1
        <5>2. CASE m # 0
          <6>1. k - 1 - lo = m /\ ~(k - 1 <= lo)
            BY <4>2, <5>2
          <6> QED BY <1>6, <4>2, <6>1
        <5> QED BY <5>1, <5>2
      <4> QED BY <2>5, <4>1, <4>2
    <3>3. Y(m) \in Int
      BY <1>4
    <3>4. Z(k) = Y(m)
      BY <2>2, <3>1, <3>2, <3>3
    <3> QED BY <2>1, <2>5, <3>4
  <2> QED BY <2>3, <2>4, <2>5
<1>7. \A k \in 0 .. n : k \in S
  <2> HIDE DEF S
  <2> QED BY <1>5, <1>6, UpTo
<1>8. Z(n) = Y(m)
  <2>1. n \in S
    BY <1>7
  <2>2. CASE n <= lo
    <3>1. m = 0
      BY <2>2
    <3> QED BY <1>4, <2>1, <2>2, <3>1
  <2>3. CASE lo < n /\ n <= lo + m
    <3>1. n - lo = m
      BY <2>3
    <3> QED BY <2>1, <2>3, <3>1
  <2>4. CASE n > lo + m
    BY <2>1, <2>4
  <2> QED BY <2>2, <2>3, <2>4
<1> QED
  BY <1>8 DEF Z, Y

-----------------------------------------------------------------------------
\* The same for rows.
GoesOnByRows(g, op, b, x, n, w) ==
  g \in [0 .. n -> Int] /\ g[0] = b /\ \A k \in 1 .. n : g[k] = Accumulate(op, g[k - 1], x[k - 1], w)

\* So does a fold over rows, row by row.
LEMMA AccumulateRowsIs ==
  ASSUME NEW op, NEW b, NEW x, NEW n \in Nat, NEW m \in 0 .. n, NEW w, NEW g, GoesOnByRows(g, op, b, x, n, w)
  PROVE  AccumulateRows(op, b, x, m, w) = g[m]
<1>0. g[0] = b /\ \A k \in 1 .. n : g[k] = Accumulate(op, g[k - 1], x[k - 1], w)
  BY DEF GoesOnByRows
<1> DEFINE E(h) == [k \in 0 .. m |-> IF k = 0 THEN b ELSE Accumulate(op, h[k - 1], x[k - 1], w)]
           acc == CHOOSE h : h = E(h)
           f == [k \in 0 .. m |-> g[k]]
<1>1. AccumulateRows(op, b, x, m, w) = acc[m]
  BY DEF AccumulateRows
<1>2. f = E(f)
  <2>1. ASSUME NEW k \in 0 .. m PROVE g[k] = IF k = 0 THEN b ELSE Accumulate(op, f[k - 1], x[k - 1], w)
    <3>1. CASE k = 0
      BY <1>0, <3>1
    <3>2. CASE k # 0
      <4>1. k \in 1 .. n /\ k - 1 \in 0 .. m
        BY <3>2
      <4>2. f[k - 1] = g[k - 1] /\ g[k] = Accumulate(op, g[k - 1], x[k - 1], w)
        BY <1>0, <4>1
      <4> HIDE DEF f
      <4> QED BY <3>2, <4>2
    <3> QED BY <3>1, <3>2
  <2> DEFINE A(k) == g[k]
             B(k) == IF k = 0 THEN b ELSE Accumulate(op, f[k - 1], x[k - 1], w)
  <2>2. \A k \in 0 .. m : A(k) = B(k)
    BY <2>1
  <2> HIDE DEF A, B
  <2>3. [k \in 0 .. m |-> A(k)] = [k \in 0 .. m |-> B(k)]
    BY <2>2
  <2> QED BY <2>3 DEF A, B
<1>3. acc = E(acc)
  <2> HIDE DEF E, f
  <2> QED BY <1>2
<1>4. \A k \in 0 .. m : acc[k] = IF k = 0 THEN b ELSE Accumulate(op, acc[k - 1], x[k - 1], w)
  <2> HIDE DEF acc
  <2>1. \A k \in 0 .. m : acc[k] = E(acc)[k]
    <3> HIDE DEF E
    <3> QED BY <1>3
  <2>2. \A k \in 0 .. m : E(acc)[k] = IF k = 0 THEN b ELSE Accumulate(op, acc[k - 1], x[k - 1], w)
    OBVIOUS
  <2> HIDE DEF E
  <2> QED BY <2>1, <2>2
<1>5. acc[m] = g[m]
  <2> HIDE DEF acc, f
  <2> DEFINE S == {k \in 0 .. m : acc[k] = g[k]}
  <2>1. 0 \in S
    BY <1>0, <1>4
  <2>2. ASSUME NEW k \in 1 .. m, k - 1 \in S PROVE k \in S
    <3>1. acc[k - 1] = g[k - 1] /\ k \in 1 .. n /\ k \in 0 .. m /\ k # 0
      BY <2>2
    <3>2. acc[k] = Accumulate(op, acc[k - 1], x[k - 1], w) /\ g[k] = Accumulate(op, g[k - 1], x[k - 1], w)
      BY <1>0, <1>4, <3>1
    <3> QED BY <3>1, <3>2
  <2>3. \A k \in 0 .. m : k \in S
    <3>1. m \in Nat
      OBVIOUS
    <3> HIDE DEF S
    <3> QED BY <2>1, <2>2, <3>1, UpTo
  <2> QED BY <2>3
<1> QED
  BY <1>1, <1>5

AccumulatesRows(op, b, x, m, w) ==
  /\ AccumulateRows(op, b, x, 0, w) = b
  /\ \A k \in 0 .. m : AccumulateRows(op, b, x, k, w) \in Int
  /\ \A k \in 1 .. m : AccumulateRows(op, b, x, k, w) = Accumulate(op, AccumulateRows(op, b, x, k - 1, w), x[k - 1], w)

\* A fold over rows is a fold of the last row from the value of the rows before it.
LEMMA AccumulateRowsSteps ==
  ASSUME NEW op \in Operators, NEW b \in Int, NEW m \in Nat, NEW w \in Nat, NEW x,
         \A r \in 0 .. m - 1 : \A k \in 0 .. w - 1 : x[r][k] \in Int
  PROVE  AccumulatesRows(op, b, x, m, w)
<1> DEFINE F == [k \in 1 .. m |-> [a \in Int |-> Accumulate(op, a, x[k - 1], w)]]
<1>1. F \in [1 .. m -> [Int -> Int]]
  <2>1. ASSUME NEW k \in 1 .. m, NEW a \in Int PROVE Accumulate(op, a, x[k - 1], w) \in Int
    <3>1. k - 1 \in 0 .. m - 1
      OBVIOUS
    <3> DEFINE y == x[k - 1]
    <3>2. \A j \in 0 .. w - 1 : y[j] \in Int
      BY <3>1
    <3> HIDE DEF y
    <3>3. Accumulates(op, a, y, w)
      BY <3>2, AccumulateSteps
    <3>4. w \in 0 .. w
      OBVIOUS
    <3> QED BY <3>3, <3>4 DEF Accumulates, y
  <2> QED BY <2>1
<1>2. Iterates(m, Int, b, F)
  <2> HIDE DEF F
  <2> QED BY <1>1, IterationExists
<1>3. PICK g : g \in [0 .. m -> Int] /\ g[0] = b /\ \A k \in 1 .. m : g[k] = F[k][g[k - 1]]
  BY <1>2 DEF Iterates
<1>4. \A k \in 1 .. m : g[k] = Accumulate(op, g[k - 1], x[k - 1], w)
  <2> TAKE k \in 1 .. m
  <2>1. k - 1 \in 0 .. m
    OBVIOUS
  <2>2. g[k - 1] \in Int
    BY <1>3, <2>1
  <2> QED BY <1>3, <2>2
<1>5. \A k \in 0 .. m : AccumulateRows(op, b, x, k, w) = g[k]
  <2> HIDE DEF F
  <2>1. GoesOnByRows(g, op, b, x, m, w)
    BY <1>3, <1>4 DEF GoesOnByRows
  <2> QED BY <2>1, AccumulateRowsIs
<1>6. ASSUME NEW k \in 1 .. m
      PROVE  AccumulateRows(op, b, x, k, w) = Accumulate(op, AccumulateRows(op, b, x, k - 1, w), x[k - 1], w)
  <2>1. k \in 0 .. m /\ k - 1 \in 0 .. m
    OBVIOUS
  <2> QED BY <1>4, <1>5, <2>1
<1>7. AccumulateRows(op, b, x, 0, w) = b /\ \A k \in 0 .. m : AccumulateRows(op, b, x, k, w) \in Int
  <2>1. 0 \in 0 .. m
    OBVIOUS
  <2> QED BY <1>3, <1>5, <2>1
<1> QED
  BY <1>6, <1>7 DEF AccumulatesRows

\* The sum of rows is the sum of their sums.
LEMMA RowsTotal ==
  ASSUME NEW m \in Nat, NEW w \in Nat, NEW x, \A r \in 0 .. m - 1 : \A k \in 0 .. w - 1 : x[r][k] \in Int
  PROVE  AccumulateRows("add", 0, x, m, w) = Total([r \in 0 .. m - 1 |-> Total(x[r], w)], m)
<1> DEFINE R(k) == AccumulateRows("add", 0, x, k, w)
           t == [r \in 0 .. m - 1 |-> Total(x[r], w)]
           T(k) == Total(t, k)
           S == {k \in 0 .. m : R(k) = T(k)}
<1>1. AccumulatesRows("add", 0, x, m, w)
  <2> DEFINE op == "add"
             b == 0
  <2>1. op \in Operators /\ b \in Int
    BY DEF Operators
  <2> HIDE DEF op, b
  <2>2. AccumulatesRows(op, b, x, m, w)
    BY <2>1, AccumulateRowsSteps
  <2> QED BY <2>2 DEF op, b
<1>2. ASSUME NEW r \in 0 .. m - 1 PROVE Total(x[r], w) \in Int /\ t[r] = Total(x[r], w)
  <2> DEFINE y == x[r]
  <2>1. \A k \in 0 .. w - 1 : y[k] \in Int
    OBVIOUS
  <2> HIDE DEF y
  <2>2. Totals(y, w)
    BY <2>1, TotalSteps
  <2>3. w \in 0 .. w
    OBVIOUS
  <2>4. Total(y, w) \in Int
    BY <2>2, <2>3 DEF Totals
  <2> QED BY <2>4 DEF y
<1> HIDE DEF t
<1>3. Totals(t, m)
  BY <1>2, TotalSteps
<1>4. R(0) = 0 /\ T(0) = 0
  BY <1>1, <1>3 DEF AccumulatesRows, Totals
<1>5. ASSUME NEW k \in 1 .. m PROVE R(k) = R(k - 1) + t[k - 1] /\ T(k) = T(k - 1) + t[k - 1]
  <2>1. k - 1 \in 0 .. m - 1 /\ k - 1 \in 0 .. m
    OBVIOUS
  <2>2. R(k) = Accumulate("add", R(k - 1), x[k - 1], w) /\ R(k - 1) \in Int
    BY <1>1, <2>1 DEF AccumulatesRows
  <2> DEFINE y == x[k - 1]
             a == R(k - 1)
  <2>3. (\A j \in 0 .. w - 1 : y[j] \in Int) /\ a \in Int
    BY <2>1, <2>2
  <2> HIDE DEF y, a
  <2>4. Accumulate("add", a, y, w) = a + Total(y, w)
    BY <2>3, TotalFrom
  <2>5. R(k) = R(k - 1) + t[k - 1]
    BY <1>2, <2>1, <2>2, <2>4 DEF y, a
  <2> QED BY <1>3, <2>5 DEF Totals
<1> HIDE DEF R, T
<1>6. 0 \in S
  BY <1>4
<1>7. ASSUME NEW k \in 1 .. m, k - 1 \in S PROVE k \in S
  BY <1>5, <1>7
<1>8. \A k \in 0 .. m : k \in S
  <2> HIDE DEF S
  <2> QED BY <1>6, <1>7, UpTo
<1>9. R(m) = T(m)
  BY <1>8
<1> QED
  BY <1>9 DEF R, T, t

-----------------------------------------------------------------------------
\* The taps of a window are m numbers from lo on.
Stretch(S, lo, m, n) ==
  /\ lo \in Nat /\ m \in Nat /\ lo + m <= n /\ Cardinality(S) = m
  /\ \A k \in Int : k \in S <=> lo <= k /\ k < lo + m
  /\ m # 0 => First(S) = lo

\* Any interval from a position of an axis on is a stretch of it.
LEMMA IntervalSpans ==
  ASSUME NEW n \in Nat, NEW a \in Nat, NEW b \in Int, b < n
  PROVE  \E lo, m : Stretch(a .. b, lo, m, n)
<1>1. Cardinality(a .. b) = IF a > b THEN 0 ELSE b - a + 1
  BY FS_Interval
<1>2. CASE a > b
  <2>1. Stretch(a .. b, 0, 0, n)
    BY <1>1, <1>2 DEF Stretch
  <2> QED BY <2>1
<1>3. CASE a <= b
  <2>1. First(a .. b) = a
    <3>1. a \in a .. b /\ \A j \in a .. b : a <= j
      BY <1>3
    <3>2. ASSUME NEW k \in a .. b, \A j \in a .. b : k <= j PROVE k = a
      BY <3>1, <3>2
    <3> QED BY <3>1, <3>2 DEF First
  <2>2. Stretch(a .. b, a, b - a + 1, n)
    BY <1>1, <1>3, <2>1 DEF Stretch
  <2> QED BY <2>2
<1> QED
  BY <1>2, <1>3

\* What is 0 adds up to 0.
LEMMA TotalOfZero ==
  ASSUME NEW n \in Nat, NEW x, \A k \in 0 .. n - 1 : x[k] = 0
  PROVE  Total(x, n) = 0
<1> DEFINE B == 0
<1>1. B \in Nat /\ \A k \in 0 .. n - 1 : x[k] \in -B .. B
  OBVIOUS
<1>2. n * B = 0
  OBVIOUS
<1> HIDE DEF B
<1>3. Total(x, n) \in -(n * B) .. n * B
  BY <1>1, TotalBounded
<1> QED
  BY <1>2, <1>3

\* The sums of the rows of z.
RowSums(z, a, b) == [k \in 0 .. a - 1 |-> Total(z[k], b)]

\* Taps off the image are 0 in z and are not in x.
TapsOf(z, a, b, x, rows, cols) ==
  /\ \A j \in 0 .. a - 1 : \A k \in 0 .. b - 1 : z[j][k] \in Int /\ (j \notin rows \/ k \notin cols => z[j][k] = 0)
  /\ \A j \in 0 .. Cardinality(rows) - 1 : \A k \in 0 .. Cardinality(cols) - 1 : x[j][k] = z[First(rows) + j][First(cols) + k]

\* The window clipped to the image adds up to the whole filter, with 0 off the image.
LEMMA TapsTotal ==
  ASSUME NEW a \in Nat, NEW b \in Nat, NEW rows, NEW cols, NEW lo, NEW m, NEW left, NEW w,
         Stretch(rows, lo, m, a), Stretch(cols, left, w, b), NEW z, NEW x, TapsOf(z, a, b, x, rows, cols)
  PROVE  AccumulateRows("add", 0, x, Cardinality(rows), Cardinality(cols)) = Total(RowSums(z, a, b), a)
<1>1. /\ lo \in Nat /\ m \in Nat /\ lo + m <= a /\ Cardinality(rows) = m
      /\ left \in Nat /\ w \in Nat /\ left + w <= b /\ Cardinality(cols) = w
  BY DEF Stretch
<1>2. ASSUME NEW j \in 0 .. m - 1, NEW k \in 0 .. w - 1
      PROVE  x[j][k] = z[lo + j][left + k] /\ x[j][k] \in Int
  <2>1. First(rows) = lo /\ First(cols) = left
    BY <1>1 DEF Stretch
  <2>2. x[j][k] = z[lo + j][left + k]
    BY <1>1, <2>1 DEF TapsOf
  <2>3. lo + j \in 0 .. a - 1 /\ left + k \in 0 .. b - 1
    BY <1>1
  <2> QED BY <2>2, <2>3 DEF TapsOf
<1>3. AccumulateRows("add", 0, x, m, w) = Total([r \in 0 .. m - 1 |-> Total(x[r], w)], m)
  BY <1>1, <1>2, RowsTotal
<1>4. ASSUME NEW j \in 0 .. m - 1 PROVE Total(x[j], w) = Total(z[lo + j], b)
  <2> DEFINE p == z[lo + j]
             q == x[j]
  <2>1. lo + j \in 0 .. a - 1
    BY <1>1
  <2>2. ASSUME NEW k \in 0 .. b - 1 PROVE p[k] \in Int /\ (k < left \/ k >= left + w => p[k] = 0)
    <3>1. k \in cols <=> left <= k /\ k < left + w
      BY DEF Stretch
    <3> QED BY <1>1, <2>1, <3>1 DEF TapsOf
  <2>3. \A k \in 0 .. w - 1 : q[k] = p[left + k]
    BY <1>2
  <2> HIDE DEF p, q
  <2>4. Within(p, b, q, left, w)
    BY <2>2, <2>3 DEF Within
  <2>5. Total(p, b) = Total(q, w)
    BY <1>1, <2>4, TotalWithin
  <2> QED BY <2>5 DEF p, q
<1>5. ASSUME NEW j \in 0 .. a - 1 PROVE Total(z[j], b) \in Int /\ (j < lo \/ j >= lo + m => Total(z[j], b) = 0)
  <2> DEFINE p == z[j]
  <2>1. \A k \in 0 .. b - 1 : p[k] \in Int
    BY DEF TapsOf
  <2>2. j < lo \/ j >= lo + m => \A k \in 0 .. b - 1 : p[k] = 0
    <3>1. j \in rows <=> lo <= j /\ j < lo + m
      BY DEF Stretch
    <3> QED BY <1>1, <3>1 DEF TapsOf
  <2> HIDE DEF p
  <2>3. Totals(p, b)
    BY <2>1, TotalSteps
  <2>4. b \in 0 .. b
    OBVIOUS
  <2>5. Total(p, b) \in Int
    BY <2>3, <2>4 DEF Totals
  <2>6. j < lo \/ j >= lo + m => Total(p, b) = 0
    BY <2>2, TotalOfZero
  <2> QED BY <2>5, <2>6 DEF p
<1> DEFINE T == RowSums(z, a, b)
           t == [r \in 0 .. m - 1 |-> Total(x[r], w)]
<1>6. \A k \in 0 .. a - 1 : T[k] = Total(z[k], b)
  BY DEF RowSums
<1>7. \A k \in 0 .. m - 1 : t[k] = T[lo + k]
  <2> TAKE k \in 0 .. m - 1
  <2>1. lo + k \in 0 .. a - 1
    BY <1>1
  <2> QED BY <1>4, <1>6, <2>1
<1> HIDE DEF T, t
<1>8. Within(T, a, t, lo, m)
  BY <1>5, <1>6, <1>7 DEF Within
<1>9. Total(T, a) = Total(t, m)
  BY <1>1, <1>8, TotalWithin
<1> QED
  BY <1>1, <1>3, <1>9 DEF T, t

-----------------------------------------------------------------------------
\* A concat of parts that have an extent each.
Parts(m) == m.inner_size \in Nat \ {0} /\ Len(m.dims) \in Nat /\ m.dims \in [1 .. Len(m.dims) -> Nat \ {0}]

\* The width of a part.
Wide(m, k) == m.inner_size * m.dims[k]

\* A part has elements in every row.
LEMMA WideIsNat ==
  ASSUME NEW m, Parts(m), NEW k \in 1 .. Len(m.dims)
  PROVE  Wide(m, k) \in Nat \ {0}
<1> DEFINE a == m.inner_size
           b == m.dims[k]
<1>1. a \in Nat \ {0} /\ b \in Nat \ {0}
  BY DEF Parts
<1> HIDE DEF a, b
<1>2. a * b >= 1 * b /\ a * b \in Nat
  BY <1>1, Grows
<1>3. a * b \in Nat \ {0}
  BY <1>1, <1>2
<1> QED
  BY <1>3 DEF Wide, a, b

\* What the parts before the k-th fill grows by the width of the part.
LEMMA BeforeGrows ==
  ASSUME NEW m, Parts(m)
  PROVE  \E f \in [0 .. Len(m.dims) -> Nat] :
           /\ f[0] = 0 /\ \A k \in 1 .. Len(m.dims) : f[k] = f[k - 1] + Wide(m, k)
           /\ \A k \in 1 .. Len(m.dims) + 1 : Before(m, k) = f[k - 1]
<1> DEFINE L == Len(m.dims)
           F == [k \in 1 .. L |-> [a \in Nat |-> a + Wide(m, k)]]
<1>1. L \in Nat /\ \A k \in 1 .. L : Wide(m, k) \in Nat
  BY WideIsNat DEF Parts
<1> HIDE DEF L
<1>2. Iterates(L, Nat, 0, F)
  <2>1. F \in [1 .. L -> [Nat -> Nat]]
    BY <1>1
  <2> HIDE DEF F
  <2> DEFINE b == 0
  <2>2. b \in Nat
    OBVIOUS
  <2> HIDE DEF b
  <2>3. Iterates(L, Nat, b, F)
    BY <1>1, <2>1, <2>2, IterationExists
  <2> QED BY <2>3 DEF b
<1>3. PICK f \in [0 .. L -> Nat] : f[0] = 0 /\ \A k \in 1 .. L : f[k] = F[k][f[k - 1]]
  BY <1>2 DEF Iterates
<1>4. ASSUME NEW k \in 1 .. L PROVE f[k - 1] \in Nat /\ f[k] = f[k - 1] + Wide(m, k)
  <2>1. k - 1 \in 0 .. L
    BY <1>1
  <2>2. f[k - 1] \in Nat
    BY <2>1
  <2> QED BY <1>3, <2>2
<1>5. ASSUME NEW k \in 1 .. L + 1 PROVE Before(m, k) = f[k - 1]
  <2> DEFINE x == [j \in 0 .. (k - 1) - 1 |-> m.inner_size * m.dims[j + 1]]
             g == [j \in 0 .. k - 1 |-> f[j]]
  <2>1. Before(m, k) = Accumulate("add", 0, x, k - 1)
    BY DEF Before, SumOver
  <2>2. k - 1 \in Nat /\ k - 1 \in 0 .. k - 1 /\ \A j \in 0 .. k - 1 : j \in 0 .. L
    BY <1>1
  <2>3. g \in [0 .. k - 1 -> Int] /\ g[0] = 0
    BY <1>3, <2>2
  <2>4. ASSUME NEW j \in 1 .. k - 1 PROVE g[j] = Apply("add", g[j - 1], x[j - 1])
    <3>1. j \in 1 .. L /\ j - 1 \in 0 .. (k - 1) - 1 /\ j - 1 \in 0 .. k - 1 /\ (j - 1) + 1 = j
      BY <1>1
    <3>2. g[j] = f[j] /\ g[j - 1] = f[j - 1]
      BY <3>1
    <3>3. x[j - 1] = Wide(m, j)
      BY <3>1 DEF Wide
    <3> HIDE DEF g, x
    <3> QED BY <1>4, <3>1, <3>2, <3>3 DEF Apply
  <2> HIDE DEF x
  <2>5. GoesOn(g, "add", 0, x, k - 1)
    BY <2>3, <2>4 DEF GoesOn
  <2>6. g[k - 1] = f[k - 1]
    BY <2>2
  <2> HIDE DEF g
  <2>7. Accumulate("add", 0, x, k - 1) = g[k - 1]
    BY <2>2, <2>5, AccumulateIs
  <2> QED BY <2>1, <2>6, <2>7
<1> QED
  BY <1>3, <1>4, <1>5 DEF L

\* The part that a position of a row is in is the only one.
LEMMA PartOf ==
  ASSUME NEW m, Parts(m), NEW k \in 1 .. Len(m.dims), NEW r \in Nat, Before(m, k) <= r, r < Before(m, k + 1)
  PROVE  /\ (CHOOSE j \in 1 .. Len(m.dims) : Before(m, j) <= r /\ r < Before(m, j + 1)) = k
         /\ r < Before(m, Len(m.dims) + 1)
<1> DEFINE L == Len(m.dims)
<1>1. PICK f \in [0 .. L -> Nat] :
           /\ f[0] = 0 /\ \A j \in 1 .. L : f[j] = f[j - 1] + Wide(m, j)
           /\ \A j \in 1 .. L + 1 : Before(m, j) = f[j - 1]
  BY BeforeGrows
<1>2. L \in Nat /\ \A j \in 1 .. L : Wide(m, j) \in Nat
  BY WideIsNat DEF Parts
<1> HIDE DEF L
<1>3. ASSUME NEW a \in 0 .. L PROVE \A b \in 0 .. L : a <= b => f[a] <= f[b]
  <2> DEFINE S == {b \in 0 .. L : a <= b => f[a] <= f[b]}
  <2>1. 0 \in S
    BY <1>1, <1>2
  <2>2. ASSUME NEW b \in 1 .. L, b - 1 \in S PROVE b \in S
    <3>1. b - 1 \in 0 .. L /\ f[b - 1] \in Nat /\ f[b] \in Nat /\ f[a] \in Nat
      <4>1. b - 1 \in 0 .. L /\ b \in 0 .. L
        BY <1>2
      <4> QED BY <4>1
    <3>2. f[b] = f[b - 1] + Wide(m, b) /\ Wide(m, b) \in Nat
      BY <1>1, <1>2
    <3>3. a <= b - 1 => f[a] <= f[b - 1]
      BY <2>2
    <3>4. a <= b => f[a] <= f[b]
      <4>1. CASE a = b
        BY <3>1, <4>1
      <4>2. CASE a # b
        <5>1. a <= b => a <= b - 1
          BY <4>2
        <5> QED BY <3>1, <3>2, <3>3, <5>1
      <4> QED BY <4>1, <4>2
    <3> QED BY <1>2, <3>4
  <2>3. \A b \in 0 .. L : b \in S
    <3> HIDE DEF S
    <3> QED BY <1>2, <2>1, <2>2, UpTo
  <2> QED BY <2>3
<1>4. \A j \in 1 .. L : Before(m, j) = f[j - 1] /\ Before(m, j + 1) = f[j] /\ j - 1 \in 0 .. L /\ j \in 0 .. L
  <2> TAKE j \in 1 .. L
  <2>1. j \in 1 .. L + 1 /\ j + 1 \in 1 .. L + 1 /\ j + 1 - 1 = j /\ j - 1 \in 0 .. L /\ j \in 0 .. L
    BY <1>2
  <2> QED BY <1>1, <2>1
<1>5. k \in 1 .. L
  BY DEF L
<1>6. ASSUME NEW j \in 1 .. L, Before(m, j) <= r, r < Before(m, j + 1) PROVE j = k
  <2>1. f[j - 1] <= r /\ r < f[j] /\ f[k - 1] <= r /\ r < f[k]
    BY <1>4, <1>5, <1>6
  <2>2. f[j - 1] \in Nat /\ f[j] \in Nat /\ f[k - 1] \in Nat /\ f[k] \in Nat
    BY <1>4, <1>5
  <2>3. j < k => j <= k - 1 /\ f[j] <= f[k - 1]
    BY <1>3, <1>4, <1>5
  <2>4. k < j => k <= j - 1 /\ f[k] <= f[j - 1]
    BY <1>3, <1>4, <1>5
  <2>5. ~(j < k) /\ ~(k < j)
    BY <2>1, <2>2, <2>3, <2>4
  <2> QED BY <2>5
<1>7. (CHOOSE j \in 1 .. L : Before(m, j) <= r /\ r < Before(m, j + 1)) = k
  BY <1>5, <1>6
<1>8. r < Before(m, L + 1)
  <2>1. L + 1 \in 1 .. L + 1 /\ L + 1 - 1 = L /\ L \in 0 .. L /\ k <= L
    BY <1>2, <1>5
  <2>2. Before(m, L + 1) = f[L]
    BY <1>1, <2>1
  <2>3. f[k] <= f[L] /\ f[k] \in Nat /\ f[L] \in Nat /\ r < f[k]
    BY <1>3, <1>4, <1>5, <2>1
  <2> QED BY <2>2, <2>3
<1> QED
  BY <1>7, <1>8 DEF L

-----------------------------------------------------------------------------
\* Where concat puts the element at place j of row a of part k, and where it was.
PlaceIn(m, k, a, j) == a * Before(m, Len(m.dims) + 1) + (Before(m, k) + j)
PlaceWas(m, k, a, j) == a * Wide(m, k) + j

\* What stands at place j of row a of the part k, in the result of concat.
LEMMA ConcatHas ==
  ASSUME NEW m, Parts(m), m.outer_size \in Nat \ {0}, NEW k \in 1 .. Len(m.dims),
         NEW a \in 0 .. m.outer_size - 1, NEW j \in 0 .. Wide(m, k) - 1
  PROVE  concat(m)[PlaceIn(m, k, a, j)] = m.inputs[k][PlaceWas(m, k, a, j)]
<1> DEFINE L == Len(m.dims)
           row == Before(m, L + 1)
           b == Before(m, k)
           w == Wide(m, k)
           r == b + j
           q == a * row + r
           outer == m.outer_size
<1>1. b \in Nat /\ w \in Nat \ {0} /\ Before(m, k + 1) = b + w /\ row \in Nat
  <2>1. PICK f \in [0 .. L -> Nat] :
           /\ f[0] = 0 /\ \A i \in 1 .. L : f[i] = f[i - 1] + Wide(m, i)
           /\ \A i \in 1 .. L + 1 : Before(m, i) = f[i - 1]
    BY BeforeGrows
  <2>2. L \in Nat /\ k \in 1 .. L
    BY DEF Parts
  <2>3. w \in Nat \ {0}
    BY WideIsNat
  <2> HIDE DEF L, w
  <2>4. /\ k \in 1 .. L + 1 /\ k + 1 \in 1 .. L + 1 /\ k + 1 - 1 = k /\ k - 1 \in 0 .. L
        /\ L + 1 \in 1 .. L + 1 /\ L + 1 - 1 = L /\ L \in 0 .. L
    BY <2>2
  <2>5. Before(m, k) = f[k - 1] /\ Before(m, k + 1) = f[k] /\ Before(m, L + 1) = f[L] /\ f[k] = f[k - 1] + w
    BY <2>1, <2>2, <2>4 DEF w
  <2> QED BY <2>3, <2>4, <2>5
<1>2. Before(m, k) <= r /\ r < Before(m, k + 1) /\ r \in Nat
  <2>1. j \in 0 .. w - 1
    OBVIOUS
  <2> HIDE DEF w
  <2> QED BY <1>1, <2>1
<1>3. /\ (CHOOSE i \in 1 .. L : Before(m, i) <= r /\ r < Before(m, i + 1)) = k
      /\ r < row
  <2> HIDE DEF r
  <2> QED BY <1>2, PartOf
<1>4. outer \in Nat \ {0} /\ a \in 0 .. outer - 1 /\ row \in Nat \ {0} /\ r \in 0 .. row - 1
  <2> HIDE DEF r, row
  <2> QED BY <1>1, <1>2, <1>3
<1>5. q \in 0 .. outer * row - 1 /\ q \div row = a /\ q % row = r
  <2> HIDE DEF r, row, outer
  <2>1. a \in Nat /\ a < outer
    BY <1>4
  <2>2. a * row + r \in 0 .. outer * row - 1
    BY <1>4, <2>1, Below
  <2>3. q \in Nat
    BY <1>4, <2>2
  <2>4. q \div row \in Nat /\ q % row \in 0 .. row - 1 /\ q = (q \div row) * row + (q % row)
    <3> HIDE DEF q
    <3> QED BY <1>4, <2>3, DivMod
  <2> DEFINE x == q \div row
             y == q % row
  <2>5. Joined(a, row, r) = Joined(x, row, y) /\ x \in Nat /\ y \in 0 .. row - 1
    BY <2>4 DEF Joined
  <2> HIDE DEF x, y, q
  <2>6. a = x /\ r = y
    BY <1>4, <2>1, <2>5, DigitsOf
  <2> QED BY <2>2, <2>6 DEF x, y, q
<1>6. concat(m)[q] = m.inputs[k][a * m.inner_size * m.dims[k] + r - b]
  <2>1. concat(m) = [p \in 0 .. outer * row - 1 |->
          LET i == CHOOSE i \in 1 .. L : Before(m, i) <= p % row /\ p % row < Before(m, i + 1)
          IN  m.inputs[i][(p \div row) * m.inner_size * m.dims[i] + (p % row) - Before(m, i)]]
    BY DEF concat
  <2> HIDE DEF q, row, r, outer, L
  <2> QED BY <1>3, <1>5, <2>1
<1>7. a * m.inner_size * m.dims[k] + r - b = a * Wide(m, k) + j
  <2> DEFINE u == m.inner_size
             v == m.dims[k]
  <2>0. u \in Nat /\ v \in Nat
    BY DEF Parts
  <2>1. u \in Nat /\ v \in Nat /\ a \in Nat /\ b \in Nat /\ j \in Nat /\ r = b + j
    <3>1. r = b + j /\ j \in 0 .. w - 1
      OBVIOUS
    <3> HIDE DEF r, b, w, u, v, outer
    <3> QED BY <1>1, <1>4, <2>0, <3>1
  <2> HIDE DEF u, v, b, r
  <2>2. a * u * v = a * (u * v)
    BY <2>1
  <2>3. a * u * v \in Nat
    <3>1. a * u \in Nat
      BY <2>1, Grows
    <3> DEFINE au == a * u
    <3> HIDE DEF au
    <3>2. au * v \in Nat
      BY <2>1, <3>1, Grows DEF au
    <3> QED BY <3>2 DEF au
  <2> DEFINE z == a * u * v
  <2>4. z + r - b = z + j /\ z = a * (u * v)
    <3>1. z \in Nat
      BY <2>3
    <3>2. z = a * (u * v)
      BY <2>2
    <3> HIDE DEF z
    <3> QED BY <2>1, <3>1, <3>2
  <2> QED BY <2>4 DEF Wide, u, v
<1> QED
  BY <1>6, <1>7 DEF PlaceIn, PlaceWas

\* A slice d that takes part k out of what concat made.
Separates(d, m, k) ==
  /\ m.inputs[k] = [p \in 0 .. m.outer_size * m.inner_size * m.dims[k] - 1 |-> m.inputs[k][p]]
  /\ d.in_shape = <<1, 1, m.outer_size, Before(m, Len(m.dims) + 1)>> /\ d.input = concat(m)
  /\ \A i \in 1 .. 4 : /\ d.begin[i] = <<0, 0, 0, Before(m, k)>>[i]
                       /\ d.end[i] = <<1, 1, m.outer_size, Before(m, k + 1)>>[i] /\ d.strides[i] = 1

\* Slicing a part out of a concat.
LEMMA ConcatSliced ==
  ASSUME NEW m, Parts(m), m.outer_size \in Nat \ {0}, NEW k \in 1 .. Len(m.dims), NEW d, Separates(d, m, k)
  PROVE  strided_slice(d) = m.inputs[k]
<1> USE DEF Separates
<1> DEFINE L == Len(m.dims)
           row == Before(m, L + 1)
           b == Before(m, k)
           w == Wide(m, k)
           outer == m.outer_size
           out == <<1, 1, outer, w>>
<1>1. b \in Nat /\ w \in Nat \ {0} /\ Before(m, k + 1) = b + w /\ row \in Nat \ {0} /\ w <= row /\ outer \in Nat \ {0}
  <2>1. PICK f \in [0 .. L -> Nat] :
           /\ f[0] = 0 /\ \A i \in 1 .. L : f[i] = f[i - 1] + Wide(m, i)
           /\ \A i \in 1 .. L + 1 : Before(m, i) = f[i - 1]
    BY BeforeGrows
  <2>2. L \in Nat /\ k \in 1 .. L
    BY DEF Parts
  <2>3. w \in Nat \ {0}
    BY WideIsNat
  <2> DEFINE r == b + (w - 1)
  <2>4. /\ k \in 1 .. L + 1 /\ k + 1 \in 1 .. L + 1 /\ k + 1 - 1 = k /\ k - 1 \in 0 .. L
        /\ L + 1 \in 1 .. L + 1 /\ L + 1 - 1 = L /\ L \in 0 .. L
    <3> HIDE DEF L
    <3> QED BY <2>2
  <2>5. b = f[k - 1] /\ Before(m, k + 1) = f[k] /\ row = f[L] /\ f[k] = f[k - 1] + w
    <3> HIDE DEF L
    <3> QED BY <2>1, <2>2, <2>4
  <2>6. b \in Nat /\ Before(m, k + 1) = b + w /\ row \in Nat
    <3> HIDE DEF b, row, w, L
    <3> QED BY <2>3, <2>4, <2>5
  <2>7. r \in Nat /\ Before(m, k) <= r /\ r < Before(m, k + 1)
    <3> HIDE DEF w
    <3> QED BY <2>3, <2>6
  <2>8. r < row
    <3> HIDE DEF r
    <3> QED BY <2>7, PartOf
  <2> HIDE DEF b, row, w
  <2> QED BY <2>3, <2>6, <2>8
<1> HIDE DEF L, row, b, w
<1>2. Shape(out)
  <2> HIDE DEF outer
  <2> QED BY <1>1 DEF Shape
<1>3. \A i \in 1 .. 4 : i = 1 \/ i = 2 \/ i = 3 \/ i = 4
  OBVIOUS
<1>4. d.in_shape = <<1, 1, outer, row>> /\ d.input = concat(m)
      /\ \A i \in 1 .. 4 : d.begin[i] = <<0, 0, 0, b>>[i] /\ d.end[i] = <<1, 1, outer, b + w>>[i] /\ d.strides[i] = 1
  BY <1>1 DEF L, row, b
<1>5. \A i \in 1 .. 4 : SliceSteps(d, i) = out[i]
  <2> TAKE i \in 1 .. 4
  <2> DEFINE c == out[i]
  <2>1. /\ d.in_shape[i] \in Nat /\ c \in Nat /\ c <= d.in_shape[i]
        /\ d.begin[i] \in Nat /\ d.end[i] = d.begin[i] + c /\ d.strides[i] = 1
    <3> HIDE DEF outer
    <3>1. CASE i = 4
      BY <1>1, <1>4, <3>1
    <3>2. CASE i = 3
      BY <1>1, <1>4, <3>2
    <3>3. CASE i = 1 \/ i = 2
      BY <1>1, <1>4, <3>3
    <3> QED BY <1>3, <3>1, <3>2, <3>3
  <2> HIDE DEF c
  <2>2. SliceSteps(d, i) = c
    BY <2>1, StepsForward
  <2> QED BY <2>2 DEF c
<1>6. compute_size(out) = outer * w /\ outer * m.inner_size * m.dims[k] = outer * w
  <2> DEFINE u == m.inner_size
             v == m.dims[k]
  <2>1. u \in Nat /\ v \in Nat /\ outer \in Nat /\ w = u * v
    BY <1>1 DEF Parts, Wide, w
  <2>2. compute_size(out) = 1 * 1 * outer * w
    BY DEF compute_size
  <2> HIDE DEF u, v, outer
  <2>3. 1 * 1 * outer = outer
    BY <2>1
  <2>4. outer * u * v = outer * (u * v)
    BY <2>1
  <2> QED BY <2>1, <2>2, <2>3, <2>4 DEF u, v
<1>7. ASSUME NEW p \in 0 .. compute_size(out) - 1
      PROVE  d.input[offset(d.in_shape, [i \in 1 .. 4 |-> d.begin[i] + Index(out, p)[i] * d.strides[i]])] = m.inputs[k][p]
  <2> DEFINE l == Index(out, p)
             y == [i \in 1 .. 4 |-> d.begin[i] + l[i] * d.strides[i]]
  <2>1. (\A i \in 1 .. 4 : l[i] \in 0 .. out[i] - 1) /\ offset(out, l) = p
    <3>1. p \in 0 .. compute_size(out) - 1
      OBVIOUS
    <3> HIDE DEF out
    <3> QED BY <1>2, <3>1, OffsetOfIndex
  <2> HIDE DEF l
  <2>2. l[1] = 0 /\ l[2] = 0 /\ l[3] \in 0 .. outer - 1 /\ l[4] \in 0 .. w - 1
    BY <2>1
  <2> DEFINE a == l[3]
             j == l[4]
  <2>3. p = a * w + j
    <3>1. offset(out, l) = ((l[1] * out[2] + l[2]) * out[3] + l[3]) * out[4] + l[4]
      BY DEF offset
    <3>2. (0 * 1 + 0) * outer + a = a
      BY <1>1, <2>2
    <3> QED BY <2>1, <2>2, <3>1, <3>2
  <2>4. y[1] = 0 /\ y[2] = 0 /\ y[3] = a /\ y[4] = b + j
    <3> HIDE DEF outer
    <3>1. /\ y[1] = d.begin[1] + l[1] * d.strides[1] /\ y[2] = d.begin[2] + l[2] * d.strides[2]
          /\ y[3] = d.begin[3] + l[3] * d.strides[3] /\ y[4] = d.begin[4] + l[4] * d.strides[4]
      OBVIOUS
    <3>2. /\ d.begin[1] = 0 /\ d.begin[2] = 0 /\ d.begin[3] = 0 /\ d.begin[4] = b
          /\ d.strides[1] = 1 /\ d.strides[2] = 1 /\ d.strides[3] = 1 /\ d.strides[4] = 1
      BY <1>4
    <3>3. a \in Nat /\ j \in Nat /\ b \in Nat
      BY <1>1, <2>2
    <3> HIDE DEF y
    <3> QED BY <2>2, <3>1, <3>2, <3>3
  <2>5. offset(d.in_shape, y) = a * row + (b + j)
    <3>1. offset(d.in_shape, y) = ((y[1] * 1 + y[2]) * outer + y[3]) * row + y[4]
      BY <1>4 DEF offset
    <3>2. (0 * 1 + 0) * outer + a = a
      BY <1>1, <2>2
    <3> HIDE DEF y
    <3> QED BY <2>4, <3>1, <3>2
  <2>6. concat(m)[a * row + (b + j)] = m.inputs[k][a * w + j]
    <3>1. a \in 0 .. m.outer_size - 1 /\ j \in 0 .. Wide(m, k) - 1
      BY <2>2 DEF w
    <3> HIDE DEF a, j
    <3>2. concat(m)[PlaceIn(m, k, a, j)] = m.inputs[k][PlaceWas(m, k, a, j)]
      <4> DEFINE At(q) == concat(m)[q]
                 Was(q) == m.inputs[k][q]
      <4> SUFFICES At(PlaceIn(m, k, a, j)) = Was(PlaceWas(m, k, a, j))
        OBVIOUS
      <4>1. \A u \in 0 .. m.outer_size - 1, v \in 0 .. Wide(m, k) - 1 : At(PlaceIn(m, k, u, v)) = Was(PlaceWas(m, k, u, v))
        BY ConcatHas
      <4> HIDE DEF At, Was
      <4> QED BY <3>1, <4>1
    <3> QED BY <3>2 DEF PlaceIn, PlaceWas, row, b, w, L
  <2>7. d.input[offset(d.in_shape, y)] = m.inputs[k][p]
    BY <1>4, <2>3, <2>5, <2>6
  <2> QED BY <2>7 DEF l
<1> QED
  <2> DEFINE t == m.inputs[k]
  <2>1. t = [p \in 0 .. compute_size(out) - 1 |-> t[p]]
    BY <1>6
  <2>2. \A p \in 0 .. compute_size(out) - 1 :
          d.input[offset(d.in_shape, [i \in 1 .. 4 |-> d.begin[i] + Index(out, p)[i] * d.strides[i]])] = t[p]
    BY <1>7
  <2> HIDE DEF out, t
  <2>3. Recovers(d, out, t)
    BY <1>2, <1>5, <2>1, <2>2 DEF Recovers
  <2>4. strided_slice(d) = t
    BY <2>3, SliceReads
  <2> QED BY <2>4 DEF t

-----------------------------------------------------------------------------
\* A product divided by its factor leaves the other and no rest.
LEMMA ExactDiv ==
  ASSUME NEW a \in Int, NEW n \in Nat \ {0}
  PROVE  (a * n) \div n = a /\ (a * n) % n = 0
<1> DEFINE b == a * n
           q == b \div n
           r == b % n
           e == a - q
<1>1. b \in Int
  OBVIOUS
<1>2. q \in Int /\ r \in 0 .. n - 1 /\ b = n * q + r
  <2> HIDE DEF b
  <2> QED BY <1>1
<1>3. e * n = r /\ e \in Int
  <2>1. n * q = q * n /\ e * n = a * n - q * n /\ e \in Int
    <3> HIDE DEF q
    <3> QED BY <1>2
  <2> HIDE DEF e
  <2>2. b = a * n
    OBVIOUS
  <2> DEFINE u == q * n
  <2>3. u \in Int
    <3> HIDE DEF q
    <3> QED BY <1>2
  <2>4. b = u + r /\ e * n = b - u
    BY <1>2, <2>1, <2>2
  <2> HIDE DEF b, u, r, q
  <2> QED BY <1>1, <1>2, <2>1, <2>3, <2>4
<1> HIDE DEF b, q, r, e
<1>4. e = 0
  <2>1. CASE e >= 1
    <3>1. e * n >= 1 * n
      BY <1>3, <2>1, Grows
    <3> QED BY <1>2, <1>3, <3>1
  <2>2. CASE e <= -1
    <3> DEFINE f == -e
    <3>1. f \in Nat /\ f >= 1 /\ f * n = -(e * n)
      BY <1>3, <2>2
    <3> HIDE DEF f
    <3>2. f * n >= 1 * n
      BY <3>1, Grows
    <3> QED BY <1>2, <1>3, <3>1, <3>2
  <2> QED BY <1>3, <2>1, <2>2
<1>5. r = 0
  BY <1>3, <1>4
<1>6. a = q
  BY <1>2, <1>4 DEF e
<1> QED
  BY <1>5, <1>6 DEF b, q, r

\* The scale of an axis that becomes s times as long is 1 / s, exactly.
LEMMA RatioOfPower ==
  ASSUME NEW g \in Nat \ {0}, NEW s \in Doublings
  PROVE  s \in Nat \ {0} /\ g * s \in Nat \ {0} /\ Ratio(g, g * s) = <<1, s>>
<1> DEFINE b == g * s
           P(e) == (g * e) % b = 0 \/ (g * e) \div b >= Bits24 \div 2
           d == CHOOSE z \in Powers : P(z) /\ \A e \in Powers : e < z => ~P(e)
<1>1. s \in Powers /\ s \in Nat \ {0} /\ Powers \subseteq Nat \ {0} /\ Bits24 \div 2 \in Nat \ {0}
  BY FloatsAssumption
<1>2. b \in Nat \ {0}
  <2>1. g * s >= 1 * s /\ g * s \in Nat
    BY <1>1, Grows
  <2> QED BY <1>1, <2>1
<1>3. (1 * b) \div b = 1 /\ (1 * b) % b = 0 /\ 1 * b = b
  <2> HIDE DEF b
  <2>1. 1 \in Int
    OBVIOUS
  <2>2. (1 * b) \div b = 1 /\ (1 * b) % b = 0
    BY <1>2, <2>1, ExactDiv
  <2> QED BY <1>2, <2>2
<1>4. P(s)
  BY <1>3
<1>5. ASSUME NEW e \in Powers, e < s PROVE ~P(e)
  <2> DEFINE v == g * e
  <2>1. e \in Nat \ {0} /\ v \in Nat /\ g * e >= 1 * e
    BY <1>1, Grows
  <2>2. v > 0
    BY <2>1
  <2>3. v < b
    <3> DEFINE r == s - e
               u == g * r
    <3>1. r \in Nat \ {0} /\ u \in Nat /\ g * r >= 1 * r
      BY <1>1, <1>5, <2>1, Grows
    <3>2. b = v + u
      BY <1>1, <2>1
    <3>3. u > 0
      BY <3>1
    <3> HIDE DEF b, v, u
    <3> QED BY <1>2, <2>1, <3>1, <3>2, <3>3
  <2> HIDE DEF b, v
  <2>4. v \div b = 0 /\ v % b = v
    BY <1>2, <2>1, <2>3
  <2> QED BY <1>1, <2>2, <2>4 DEF v
<1> HIDE DEF P
<1>6. d = s
  <2>1. d \in Powers /\ P(d) /\ \A e \in Powers : e < d => ~P(e)
    BY <1>1, <1>4, <1>5
  <2> HIDE DEF d
  <2> QED BY <1>1, <1>4, <1>5, <2>1
<1>7. ToEven(g * s, b) = 1
  <2> HIDE DEF b
  <2>1. ToEven(b, b) = 1
    BY <1>2, <1>3 DEF ToEven
  <2> QED BY <2>1 DEF b
<1>8. Ratio(g, b) = <<ToEven(g * d, b), d>>
  BY DEF Ratio, Smallest, P
<1> QED
  BY <1>1, <1>2, <1>6, <1>7, <1>8

\* A position on a scale of 1 / s is exact, if it has no more than 24 bits.
LEMMA TimesOfPower ==
  ASSUME NEW k \in Nat, k < Bits24, NEW s \in Nat \ {0}
  PROVE  Times(k, <<1, s>>) = <<k, s>>
<1> DEFINE P(e) == (k * 1) \div e < Bits24
           c == CHOOSE z \in Powers : P(z) /\ \A e \in Powers : e < z => ~P(e)
<1>1. 1 \in Powers /\ Powers \subseteq Nat \ {0} /\ Bits24 \in Nat
  BY FloatsAssumption
<1>2. P(1) /\ k * 1 = k
  BY <1>1
<1> HIDE DEF P
<1>3. c = 1
  <2>1. \A e \in Powers : ~(e < 1)
    BY <1>1
  <2>2. c \in Powers /\ P(c) /\ \A e \in Powers : e < c => ~P(e)
    BY <1>1, <1>2, <2>1
  <2> HIDE DEF c
  <2> QED BY <1>1, <1>2, <2>2
<1>4. ToEven(k * 1, 1) = k /\ s \div 1 = s
  BY <1>2 DEF ToEven
<1>5. Times(k, <<1, s>>) = <<ToEven(k * 1, c), s \div c>>
  <2>1. <<1, s>>[1] = 1 /\ <<1, s>>[2] = s
    OBVIOUS
  <2> QED BY <2>1 DEF Times, Smallest, P
<1> QED
  BY <1>3, <1>4, <1>5

\* By scale c, place i * s comes from position i and no fraction is left.
Exact(c, i, s) ==
  LET t == Times(i * s, c) IN t[2] \in Nat \ {0} /\ t[1] \div t[2] = i /\ t[1] % t[2] = 0

\* So it is for the scale of a bilinear resize.
LEMMA ScaleExact ==
  ASSUME NEW h \in Nat \ {0}, NEW s \in Doublings, NEW align \in BOOLEAN, NEW to, Enlarged(h, to, s, align), to < Bits24, NEW i \in 0 .. h - 1
  PROVE  Exact(Scale(h, to, align), i, s)
<1>1. s \in Nat \ {0} /\ Bits24 \in Nat /\ i \in Nat /\ i <= h - 1
  BY FloatsAssumption
<1>2. CASE ~align
  <2>1. to = h * s
    BY <1>2 DEF Enlarged
  <2>2. Scale(h, to, align) = <<1, s>>
    BY <1>2, <2>1, RatioOfPower DEF Scale
  <2>3. i * s <= h * s /\ i * s \in Nat /\ h * s \in Nat
    BY <1>1, Grows
  <2> DEFINE k == i * s
             u == h * s
  <2>4. k \in Nat /\ k < Bits24
    <3>1. u = to /\ k <= u /\ k \in Nat /\ u \in Nat
      BY <2>1, <2>3
    <3> HIDE DEF k, u
    <3> QED BY <1>1, <3>1
  <2>5. k \div s = i /\ k % s = 0
    BY <1>1, ExactDiv
  <2> HIDE DEF k
  <2>6. Times(k, <<1, s>>) = <<k, s>>
    BY <1>1, <2>4, TimesOfPower
  <2> QED BY <1>1, <2>2, <2>5, <2>6 DEF Exact, k
<1>3. CASE align /\ h = 1
  <2>1. to = 1
    BY <1>1, <1>3 DEF Enlarged
  <2>2. Ratio(1, 1 * 1) = <<1, 1>>
    <3>1. 1 \in Doublings /\ 1 \in Nat \ {0}
      BY DEF Doublings
    <3> QED BY <3>1, RatioOfPower
  <2>3. Scale(h, to, align) = <<1, 1>>
    BY <1>3, <2>1, <2>2 DEF Scale
  <2>4. i * s = 0
    BY <1>1, <1>3
  <2>5. Times(0, <<1, 1>>) = <<0, 1>>
    <3>1. 0 \in Nat /\ 0 < Bits24 /\ 1 \in Nat \ {0}
      BY <1>1, <2>1
    <3> QED BY <3>1, TimesOfPower
  <2> DEFINE t == Times(i * s, Scale(h, to, align))
  <2>6. t = <<0, 1>>
    BY <2>3, <2>4, <2>5
  <2> HIDE DEF t
  <2>7. t[2] \in Nat \ {0} /\ t[1] \div t[2] = i /\ t[1] % t[2] = 0
    BY <1>1, <1>3, <2>6
  <2> QED BY <2>7 DEF Exact, t
<1>4. CASE align /\ h # 1
  <2> DEFINE g == h - 1
             n == g * s
  <2>1. g \in Nat \ {0} /\ i <= g
    BY <1>1, <1>4
  <2>2. to = n + 1
    BY <1>4 DEF Enlarged
  <2> HIDE DEF g
  <2>3. n \in Nat \ {0} /\ Ratio(g, n) = <<1, s>>
    BY <2>1, RatioOfPower
  <2> DEFINE k == i * s
  <2>4. k \in Nat /\ k <= n
    BY <1>1, <2>1, Grows
  <2>5. k \div s = i /\ k % s = 0
    BY <1>1, ExactDiv
  <2> HIDE DEF n, k
  <2>6. Scale(h, to, align) = <<1, s>>
    <3>1. to > 1 /\ to - 1 = n
      BY <2>2, <2>3
    <3> QED BY <1>4, <2>3, <3>1 DEF Scale, g
  <2>7. Times(k, <<1, s>>) = <<k, s>>
    <3>1. k < Bits24
      BY <1>1, <2>2, <2>3, <2>4
    <3> QED BY <1>1, <2>4, <3>1, TimesOfPower
  <2> QED BY <1>1, <2>5, <2>6, <2>7 DEF Exact, k
<1> QED
  BY <1>2, <1>3, <1>4

\* A picture t of the shape to, which is in_shape enlarged, has its pixels.
Pixels(m, t, y, x) ==
  \A i : (\A k \in 1 .. 4 : i[k] \in 0 .. m.in_shape[k] - 1) =>
    t[offset(<<m.in_shape[1], m.in_shape[2], m.out_h, m.out_w>>, <<i[1], i[2], i[3] * y, i[4] * x>>)]
      = m.input[offset(m.in_shape, i)]

\* Then a slice finds them.
LEMMA ResizeSliced ==
  ASSUME NEW m, NEW n, NEW align \in BOOLEAN, Shrunk(m, n, align), NEW d, d.in_shape = n.in_shape,
         Pixels(m, d.input, n.strides[3], n.strides[4]),
         \A k \in 1 .. 4 : d.begin[k] = n.begin[k] /\ d.end[k] = n.end[k] /\ d.strides[k] = n.strides[k]
  PROVE  strided_slice(d) = m.input
<1> DEFINE s == m.in_shape
           y == n.strides[3]
           x == n.strides[4]
           to == <<s[1], s[2], m.out_h, m.out_w>>
           N == compute_size(s)
<1>1. /\ s \in Shapes /\ m.input \in [0 .. N - 1 -> Int] /\ d.in_shape = to
      /\ y \in Nat \ {0} /\ x \in Nat \ {0}
      /\ Enlarged(s[3], m.out_h, y, align) /\ Enlarged(s[4], m.out_w, x, align)
      /\ \A k \in 1 .. 4 : d.begin[k] = 0 /\ d.end[k] = to[k] /\ d.strides[k] = <<1, 1, y, x>>[k]
  <2>1. y \in Nat \ {0} /\ x \in Nat \ {0}
    BY FloatsAssumption DEF Shrunk
  <2> QED BY <2>1 DEF Shrunk, Slices
<1>2. \A k \in 1 .. 4 : s[k] \in Nat \ {0} /\ (k = 1 \/ k = 2 \/ k = 3 \/ k = 4)
  BY <1>1 DEF Shapes
<1>3. \A k \in 1 .. 4 : SliceSteps(d, k) = s[k]
  <2> TAKE k \in 1 .. 4
  <2> DEFINE c == s[k]
  <2>1. c \in Nat \ {0}
    BY <1>2
  <2>2. ASSUME k = 1 \/ k = 2 PROVE SliceSteps(d, k) = c
    <3>1. d.in_shape[k] = c /\ d.begin[k] = 0 /\ d.end[k] = c /\ d.strides[k] = 1
      BY <1>1, <2>2
    <3> HIDE DEF c
    <3>2. /\ d.in_shape[k] \in Nat /\ c \in Nat /\ c <= d.in_shape[k]
          /\ d.begin[k] \in Nat /\ d.end[k] = d.begin[k] + c /\ d.strides[k] = 1
      BY <2>1, <3>1
    <3> QED BY <3>2, StepsForward
  <2>3. ASSUME k = 3 \/ k = 4 PROVE SliceSteps(d, k) = c
    <3>1. d.strides[k] \in Nat \ {0} /\ d.begin[k] = 0 /\ d.end[k] = d.in_shape[k] /\ Enlarged(c, d.in_shape[k], d.strides[k], align)
      BY <1>1, <2>3
    <3> HIDE DEF c
    <3> QED BY <2>1, <3>1, StepsStrided
  <2> QED BY <1>2, <2>2, <2>3
<1>4. ASSUME NEW p \in 0 .. N - 1
      PROVE  d.input[offset(d.in_shape, [k \in 1 .. 4 |-> d.begin[k] + Index(s, p)[k] * d.strides[k]])] = m.input[p]
  <2> DEFINE i == Index(s, p)
             j == [k \in 1 .. 4 |-> d.begin[k] + i[k] * d.strides[k]]
             l == <<i[1], i[2], i[3] * y, i[4] * x>>
  <2>1. (\A k \in 1 .. 4 : i[k] \in 0 .. s[k] - 1) /\ offset(s, i) = p
    BY <1>1, OffsetOfIndex DEF Shapes, Shape
  <2> HIDE DEF i
  <2>2. \A k \in 1 .. 4 : j[k] = l[k]
    <3>1. i[1] \in Nat /\ i[2] \in Nat /\ i[3] \in Nat /\ i[4] \in Nat
      BY <1>2, <2>1
    <3>2. /\ d.begin[1] = 0 /\ d.begin[2] = 0 /\ d.begin[3] = 0 /\ d.begin[4] = 0
          /\ d.strides[1] = 1 /\ d.strides[2] = 1 /\ d.strides[3] = y /\ d.strides[4] = x
      BY <1>1
    <3>3. j[1] = l[1] /\ j[2] = l[2] /\ j[3] = l[3] /\ j[4] = l[4]
      <4>1. /\ j[1] = d.begin[1] + i[1] * d.strides[1] /\ j[2] = d.begin[2] + i[2] * d.strides[2]
            /\ j[3] = d.begin[3] + i[3] * d.strides[3] /\ j[4] = d.begin[4] + i[4] * d.strides[4]
        OBVIOUS
      <4> HIDE DEF j, y, x
      <4> QED BY <1>1, <3>1, <3>2, <4>1
    <3> HIDE DEF j, l
    <3> QED BY <1>2, <3>3
  <2>3. d.input[offset(to, l)] = m.input[offset(s, i)]
    BY <2>1 DEF Pixels
  <2>4. offset(to, j) = offset(to, l)
    <3> HIDE DEF j, l, to
    <3> QED BY <2>2, OffsetReads
  <2>5. d.input[offset(d.in_shape, j)] = m.input[p]
    <3> HIDE DEF j, l, to
    <3> QED BY <1>1, <2>1, <2>3, <2>4 DEF to
  <2> QED BY <2>5 DEF i
<1> QED
  <2> DEFINE t == m.input
  <2>1. t = [p \in 0 .. compute_size(s) - 1 |-> t[p]]
    BY <1>1
  <2>2. \A p \in 0 .. compute_size(s) - 1 :
          d.input[offset(d.in_shape, [k \in 1 .. 4 |-> d.begin[k] + Index(s, p)[k] * d.strides[k]])] = t[p]
    BY <1>4
  <2>3. Shape(s)
    BY <1>1 DEF Shapes, Shape
  <2> HIDE DEF s, t
  <2>4. Recovers(d, s, t)
    BY <1>3, <2>1, <2>2, <2>3 DEF Recovers
  <2>5. strided_slice(d) = t
    BY <2>4, SliceReads
  <2> QED BY <2>5 DEF t

-----------------------------------------------------------------------------
\* What the resizing kernels are given.
Enlarges(m, y, x, align) ==
  /\ m.in_shape \in Shapes /\ m.input \in [0 .. compute_size(m.in_shape) - 1 -> Int]
  /\ y \in Doublings /\ x \in Doublings /\ m.out_h < Bits24 /\ m.out_w < Bits24
  /\ Enlarged(m.in_shape[3], m.out_h, y, align) /\ Enlarged(m.in_shape[4], m.out_w, x, align)

\* The place of pixel i in the enlarged picture is one of it.
Placed(m, y, x, i) ==
  LET to == <<m.in_shape[1], m.in_shape[2], m.out_h, m.out_w>>
      l  == <<i[1], i[2], i[3] * y, i[4] * x>>
  IN  /\ offset(to, l) \in 0 .. compute_size(to) - 1
      /\ \A k \in 1 .. 4 : Index(to, offset(to, l))[k] = l[k]

\* Where a resized picture has a pixel of the original: inside of it, at the
\* scaled row and column.
LEMMA PixelPlaced ==
  ASSUME NEW m, NEW y, NEW x, NEW align \in BOOLEAN, Enlarges(m, y, x, align),
         NEW i, \A k \in 1 .. 4 : i[k] \in 0 .. m.in_shape[k] - 1
  PROVE  Placed(m, y, x, i)
<1> DEFINE s == m.in_shape
           to == <<s[1], s[2], m.out_h, m.out_w>>
           l == <<i[1], i[2], i[3] * y, i[4] * x>>
           h == s[3]
           w == s[4]
           a == i[3]
           b == i[4]
<1>1. /\ s[1] \in Nat \ {0} /\ s[2] \in Nat \ {0} /\ h \in Nat \ {0} /\ w \in Nat \ {0}
      /\ i[1] \in 0 .. s[1] - 1 /\ i[2] \in 0 .. s[2] - 1 /\ a \in 0 .. h - 1 /\ b \in 0 .. w - 1
  BY DEF Enlarges, Shapes
<1>2. y \in Nat \ {0} /\ x \in Nat \ {0} /\ Enlarged(h, m.out_h, y, align) /\ Enlarged(w, m.out_w, x, align)
  BY FloatsAssumption DEF Enlarges
<1> HIDE DEF h, w, a, b
<1>3. m.out_h \in Nat \ {0} /\ \A j \in Nat : j * y \in Nat /\ (j * y < m.out_h <=> j < h)
  <2>1. Spread(h, m.out_h, y)
    BY <1>1, <1>2, EnlargedFits
  <2> QED BY <2>1 DEF Spread
<1>4. m.out_w \in Nat \ {0} /\ \A j \in Nat : j * x \in Nat /\ (j * x < m.out_w <=> j < w)
  <2>1. Spread(w, m.out_w, x)
    BY <1>1, <1>2, EnlargedFits
  <2> QED BY <2>1 DEF Spread
<1>5. a * y \in 0 .. m.out_h - 1
  <2>1. a \in Nat /\ a < h
    BY <1>1
  <2> DEFINE v == a * y
  <2>2. v \in Nat /\ v < m.out_h
    BY <1>3, <2>1
  <2> HIDE DEF v
  <2>3. v \in 0 .. m.out_h - 1
    BY <1>3, <2>2
  <2> QED BY <2>3 DEF v
<1>6. b * x \in 0 .. m.out_w - 1
  <2>1. b \in Nat /\ b < w
    BY <1>1
  <2> DEFINE v == b * x
  <2>2. v \in Nat /\ v < m.out_w
    BY <1>4, <2>1
  <2> HIDE DEF v
  <2>3. v \in 0 .. m.out_w - 1
    BY <1>4, <2>2
  <2> QED BY <2>3 DEF v
<1>7. Shape(to) /\ \A k \in 1 .. 4 : k = 1 \/ k = 2 \/ k = 3 \/ k = 4
  BY <1>1, <1>3, <1>4 DEF Shape
<1>8. l[1] \in 0 .. to[1] - 1 /\ l[2] \in 0 .. to[2] - 1 /\ l[3] \in 0 .. to[3] - 1 /\ l[4] \in 0 .. to[4] - 1
  BY <1>1, <1>5, <1>6 DEF a, b
<1>9. \A k \in 1 .. 4 : l[k] \in 0 .. to[k] - 1
  <2> HIDE DEF l, to
  <2> QED BY <1>7, <1>8
<1>10. offset(to, l) \in 0 .. compute_size(to) - 1 /\ \A k \in 1 .. 4 : Index(to, offset(to, l))[k] = l[k]
  <2> HIDE DEF l, to
  <2> QED BY <1>7, <1>9, IndexOfOffset
<1> QED
  BY <1>10 DEF Placed

\* The nearest pixel to a multiple of the stride is the one it is the multiple of.
LEMMA NearestPixels ==
  ASSUME NEW m, NEW y, NEW x, Enlarges(m, y, x, FALSE)
  PROVE  Pixels(m, resize_nearest_neighbor(m), y, x)
<1> DEFINE s == m.in_shape
           to == <<s[1], s[2], m.out_h, m.out_w>>
<1> SUFFICES ASSUME NEW i, \A k \in 1 .. 4 : i[k] \in 0 .. s[k] - 1
             PROVE  resize_nearest_neighbor(m)[offset(to, <<i[1], i[2], i[3] * y, i[4] * x>>)] = m.input[offset(s, i)]
  BY DEF Pixels
<1> DEFINE l == <<i[1], i[2], i[3] * y, i[4] * x>>
           q == offset(to, l)
           o == Index(to, q)
           sy == Ratio(s[3], m.out_h)
           sx == Ratio(s[4], m.out_w)
           from == << o[1], o[2], Least2(Floor(Times(o[3], sy)), s[3] - 1), Least2(Floor(Times(o[4], sx)), s[4] - 1) >>
<1>1. q \in 0 .. compute_size(to) - 1 /\ \A k \in 1 .. 4 : o[k] = l[k]
  <2>1. FALSE \in BOOLEAN
    OBVIOUS
  <2>2. Placed(m, y, x, i)
    BY <2>1, PixelPlaced
  <2> QED BY <2>2 DEF Placed
<1>2. resize_nearest_neighbor(m)[q] = m.input[offset(s, from)]
  <2>1. resize_nearest_neighbor(m) = [p \in 0 .. compute_size(to) - 1 |->
          m.input[offset(s, << Index(to, p)[1], Index(to, p)[2],
                               Least2(Floor(Times(Index(to, p)[3], sy)), s[3] - 1),
                               Least2(Floor(Times(Index(to, p)[4], sx)), s[4] - 1) >>)]]
    BY DEF resize_nearest_neighbor, Tensor
  <2> HIDE DEF to, q
  <2> QED BY <1>1, <2>1
<1>3. ASSUME NEW h \in Nat \ {0}, NEW t \in Doublings, NEW to1, Enlarged(h, to1, t, FALSE), to1 < Bits24, NEW a \in 0 .. h - 1
      PROVE  Least2(Floor(Times(a * t, Ratio(h, to1))), h - 1) = a
  <2>1. FALSE \in BOOLEAN /\ Scale(h, to1, FALSE) = Ratio(h, to1)
    BY DEF Scale
  <2>2. Exact(Scale(h, to1, FALSE), a, t)
    BY <1>3, <2>1, ScaleExact
  <2>3. Floor(Times(a * t, Ratio(h, to1))) = a
    BY <2>1, <2>2 DEF Exact, Floor
  <2>4. Least2(a, h - 1) = a
    BY DEF Least2
  <2> QED BY <2>3, <2>4
<1>4. /\ s[1] \in Nat \ {0} /\ s[2] \in Nat \ {0} /\ s[3] \in Nat \ {0} /\ s[4] \in Nat \ {0}
      /\ y \in Doublings /\ x \in Doublings /\ m.out_h < Bits24 /\ m.out_w < Bits24
      /\ Enlarged(s[3], m.out_h, y, FALSE) /\ Enlarged(s[4], m.out_w, x, FALSE)
      /\ i[3] \in 0 .. s[3] - 1 /\ i[4] \in 0 .. s[4] - 1
  <2>1. s[1] \in Nat \ {0} /\ s[2] \in Nat \ {0} /\ s[3] \in Nat \ {0} /\ s[4] \in Nat \ {0}
    BY DEF Enlarges, Shapes
  <2>2. i[3] \in 0 .. s[3] - 1 /\ i[4] \in 0 .. s[4] - 1
    OBVIOUS
  <2>3. /\ y \in Doublings /\ x \in Doublings /\ m.out_h < Bits24 /\ m.out_w < Bits24
        /\ Enlarged(s[3], m.out_h, y, FALSE) /\ Enlarged(s[4], m.out_w, x, FALSE)
    BY DEF Enlarges
  <2> QED BY <2>1, <2>2, <2>3
<1>5. from[3] = i[3] /\ from[4] = i[4] /\ from[1] = i[1] /\ from[2] = i[2]
  <2>1. o[1] = i[1] /\ o[2] = i[2] /\ o[3] = i[3] * y /\ o[4] = i[4] * x
    <3> HIDE DEF o
    <3> QED BY <1>1
  <2> HIDE DEF o
  <2>2. Least2(Floor(Times(o[3], sy)), s[3] - 1) = i[3]
    <3> DEFINE h == s[3]
               a == i[3]
    <3>1. h \in Nat \ {0} /\ a \in 0 .. h - 1 /\ o[3] = a * y /\ Enlarged(h, m.out_h, y, FALSE)
      BY <1>4, <2>1
    <3> HIDE DEF h, a
    <3>2. Least2(Floor(Times(a * y, Ratio(h, m.out_h))), h - 1) = a
      BY <1>3, <1>4, <3>1
    <3> QED BY <3>1, <3>2 DEF h, a
  <2>3. Least2(Floor(Times(o[4], sx)), s[4] - 1) = i[4]
    <3> DEFINE h == s[4]
               a == i[4]
    <3>1. h \in Nat \ {0} /\ a \in 0 .. h - 1 /\ o[4] = a * x /\ Enlarged(h, m.out_w, x, FALSE)
      BY <1>4, <2>1
    <3> HIDE DEF h, a
    <3>2. Least2(Floor(Times(a * x, Ratio(h, m.out_w))), h - 1) = a
      BY <1>3, <1>4, <3>1
    <3> QED BY <3>1, <3>2 DEF h, a
  <2> QED BY <2>1, <2>2, <2>3
<1>6. offset(s, from) = offset(s, i)
  <2> HIDE DEF from
  <2>1. \A k \in 1 .. 4 : k = 1 \/ k = 2 \/ k = 3 \/ k = 4
    OBVIOUS
  <2>2. \A k \in 1 .. 4 : from[k] = i[k]
    BY <1>5, <2>1
  <2> QED BY <2>2, OffsetReads, SMTT(30)
<1> QED
  BY <1>2, <1>6

\* So is what is interpolated there: the other three corners weigh nothing.
LEMMA BilinearPixels ==
  ASSUME NEW m, NEW y, NEW x, m.align_corners \in BOOLEAN, Enlarges(m, y, x, m.align_corners)
  PROVE  Pixels(m, resize_bilinear(m), y, x)
<1> DEFINE s == m.in_shape
           to == <<s[1], s[2], m.out_h, m.out_w>>
           sy == Scale(s[3], m.out_h, m.align_corners)
           sx == Scale(s[4], m.out_w, m.align_corners)
<1> SUFFICES ASSUME NEW i, \A k \in 1 .. 4 : i[k] \in 0 .. s[k] - 1
             PROVE  resize_bilinear(m)[offset(to, <<i[1], i[2], i[3] * y, i[4] * x>>)] = m.input[offset(s, i)]
  BY DEF Pixels
<1> DEFINE l == <<i[1], i[2], i[3] * y, i[4] * x>>
           q == offset(to, l)
           o == Index(to, q)
           MixedAt(j) ==
             LET ty == Times(j[3], sy)
                 tx == Times(j[4], sx)
                 fy == ty[1] % ty[2]
                 fx == tx[1] % tx[2]
                 y1 == Least2(Floor(ty) + 1, s[3] - 1)
                 x1 == Least2(Floor(tx) + 1, s[4] - 1)
                 V(v, u) == m.input[offset(s, <<j[1], j[2], v, u>>)]
             IN  ( V(Floor(ty), Floor(tx)) * (ty[2] - fy) * (tx[2] - fx) + V(y1, Floor(tx)) * fy * (tx[2] - fx)
                 + V(Floor(ty), x1) * (ty[2] - fy) * fx + V(y1, x1) * fy * fx ) \div (ty[2] * tx[2])
<1>1. q \in 0 .. compute_size(to) - 1 /\ \A k \in 1 .. 4 : o[k] = l[k]
  <2>1. Placed(m, y, x, i)
    BY PixelPlaced
  <2> QED BY <2>1 DEF Placed
<1>2. resize_bilinear(m)[q] = MixedAt(o)
  <2>1. resize_bilinear(m) = [p \in 0 .. compute_size(to) - 1 |-> MixedAt(Index(to, p))]
    BY DEF resize_bilinear, Tensor
  <2> HIDE DEF to, q, MixedAt
  <2> QED BY <1>1, <2>1
<1>3. /\ s \in Shapes /\ m.input \in [0 .. compute_size(s) - 1 -> Int]
      /\ s[1] \in Nat \ {0} /\ s[2] \in Nat \ {0} /\ s[3] \in Nat \ {0} /\ s[4] \in Nat \ {0}
      /\ y \in Doublings /\ x \in Doublings /\ m.out_h < Bits24 /\ m.out_w < Bits24
      /\ i[1] \in 0 .. s[1] - 1 /\ i[2] \in 0 .. s[2] - 1 /\ i[3] \in 0 .. s[3] - 1 /\ i[4] \in 0 .. s[4] - 1
      /\ Enlarged(s[3], m.out_h, y, m.align_corners) /\ Enlarged(s[4], m.out_w, x, m.align_corners)
  BY DEF Enlarges, Shapes
<1> DEFINE ty == Times(i[3] * y, sy)
           tx == Times(i[4] * x, sx)
<1>4. ty[2] \in Nat \ {0} /\ ty[1] \div ty[2] = i[3] /\ ty[1] % ty[2] = 0
  <2> DEFINE h == s[3]
             a == i[3]
             align == m.align_corners
  <2>1. h \in Nat \ {0} /\ a \in 0 .. h - 1 /\ align \in BOOLEAN /\ Enlarged(h, m.out_h, y, align)
    BY <1>3
  <2> HIDE DEF h, a, align
  <2>2. Exact(Scale(h, m.out_h, align), a, y)
    BY <1>3, <2>1, ScaleExact
  <2> QED BY <2>2 DEF Exact, h, a, align
<1>5. tx[2] \in Nat \ {0} /\ tx[1] \div tx[2] = i[4] /\ tx[1] % tx[2] = 0
  <2> DEFINE h == s[4]
             a == i[4]
             align == m.align_corners
  <2>1. h \in Nat \ {0} /\ a \in 0 .. h - 1 /\ align \in BOOLEAN /\ Enlarged(h, m.out_w, x, align)
    BY <1>3
  <2> HIDE DEF h, a, align
  <2>2. Exact(Scale(h, m.out_w, align), a, x)
    BY <1>3, <2>1, ScaleExact
  <2> QED BY <2>2 DEF Exact, h, a, align
<1>6. o[1] = i[1] /\ o[2] = i[2] /\ o[3] = i[3] * y /\ o[4] = i[4] * x
  <2> HIDE DEF o
  <2> QED BY <1>1
<1> DEFINE V(v, u) == m.input[offset(s, <<i[1], i[2], v, u>>)]
           y1 == Least2(i[3] + 1, s[3] - 1)
           x1 == Least2(i[4] + 1, s[4] - 1)
<1>7. ASSUME NEW v \in 0 .. s[3] - 1, NEW u \in 0 .. s[4] - 1 PROVE V(v, u) \in Int
  <2> DEFINE j == <<i[1], i[2], v, u>>
  <2>1. j[1] \in 0 .. s[1] - 1 /\ j[2] \in 0 .. s[2] - 1 /\ j[3] \in 0 .. s[3] - 1 /\ j[4] \in 0 .. s[4] - 1
    BY <1>3
  <2>2. \A k \in 1 .. 4 : k = 1 \/ k = 2 \/ k = 3 \/ k = 4
    OBVIOUS
  <2> HIDE DEF j
  <2>3. \A k \in 1 .. 4 : j[k] \in 0 .. s[k] - 1
    BY <2>1, <2>2
  <2>4. offset(s, j) \in 0 .. compute_size(s) - 1
    <3> HIDE DEF s
    <3> QED BY <1>3, <2>3, IndexOfOffset DEF Shapes, Shape
  <2>5. m.input[offset(s, j)] \in Int
    BY <1>3, <2>4
  <2> QED BY <2>5 DEF j
<1>8. y1 \in 0 .. s[3] - 1 /\ x1 \in 0 .. s[4] - 1
  <2>1. ASSUME NEW h \in Nat \ {0}, NEW a \in 0 .. h - 1 PROVE Least2(a + 1, h - 1) \in 0 .. h - 1
    BY DEF Least2
  <2>2. y1 \in 0 .. s[3] - 1
    <3> DEFINE h == s[3]
               a == i[3]
    <3>1. h \in Nat \ {0} /\ a \in 0 .. h - 1
      BY <1>3
    <3> HIDE DEF h, a
    <3>2. Least2(a + 1, h - 1) \in 0 .. h - 1
      BY <2>1, <3>1
    <3> QED BY <3>2 DEF h, a
  <2>3. x1 \in 0 .. s[4] - 1
    <3> DEFINE h == s[4]
               a == i[4]
    <3>1. h \in Nat \ {0} /\ a \in 0 .. h - 1
      BY <1>3
    <3> HIDE DEF h, a
    <3>2. Least2(a + 1, h - 1) \in 0 .. h - 1
      BY <2>1, <3>1
    <3> QED BY <3>2 DEF h, a
  <2> QED BY <2>2, <2>3
<1>9. MixedAt(o) = V(i[3], i[4])
  <2> DEFINE A == ty[2]
             B == tx[2]
             v00 == V(i[3], i[4])
             v10 == V(y1, i[4])
             v01 == V(i[3], x1)
             v11 == V(y1, x1)
  <2>1. v00 \in Int /\ v10 \in Int /\ v01 \in Int /\ v11 \in Int /\ A \in Nat \ {0} /\ B \in Nat \ {0}
    <3>1. i[3] \in 0 .. s[3] - 1 /\ i[4] \in 0 .. s[4] - 1
      BY <1>3
    <3> HIDE DEF V, y1, x1
    <3> QED BY <1>4, <1>5, <1>7, <1>8, <3>1
  <2>2. MixedAt(o) = (v00 * (A - 0) * (B - 0) + v10 * 0 * (B - 0) + v01 * (A - 0) * 0 + v11 * 0 * 0) \div (A * B)
    <3>1. Times(o[3], sy) = ty /\ Floor(ty) = i[3] /\ ty[1] % ty[2] = 0
      <4> HIDE DEF sy, sx, o
      <4> QED BY <1>4, <1>6 DEF Floor
    <3>2. Times(o[4], sx) = tx /\ Floor(tx) = i[4] /\ tx[1] % tx[2] = 0
      <4> HIDE DEF sy, sx, o
      <4> QED BY <1>5, <1>6 DEF Floor
    <3> HIDE DEF sy, sx, o, s, ty, tx
    <3> QED BY <1>6, <3>1, <3>2
  <2> HIDE DEF A, B, v00, v10, v01, v11, MixedAt
  <2>3. v00 * (A - 0) * (B - 0) + v10 * 0 * (B - 0) + v01 * (A - 0) * 0 + v11 * 0 * 0 = v00 * (A * B)
    <3>1. v00 * (A - 0) * (B - 0) = v00 * (A * B)
      BY <2>1
    <3>2. v10 * 0 * (B - 0) = 0 /\ v01 * (A - 0) * 0 = 0 /\ v11 * 0 * 0 = 0
      BY <2>1
    <3>3. v00 * (A * B) \in Int
      BY <2>1
    <3> DEFINE z == v00 * (A * B)
    <3> HIDE DEF z
    <3>4. z \in Int /\ z + 0 + 0 + 0 = z
      BY <3>3 DEF z
    <3> QED BY <3>1, <3>2, <3>4 DEF z
  <2>4. A * B \in Nat \ {0}
    <3>1. A * B >= 1 * B /\ A * B \in Nat
      BY <2>1, Grows
    <3> QED BY <2>1, <3>1
  <2>5. (v00 * (A * B)) \div (A * B) = v00
    <3> DEFINE n == A * B
    <3>1. n \in Nat \ {0}
      BY <2>4
    <3> HIDE DEF n
    <3>2. (v00 * n) \div n = v00
      BY <2>1, <3>1, ExactDiv
    <3> QED BY <3>2 DEF n
  <2> QED BY <2>2, <2>3, <2>5 DEF v00
<1>10. V(i[3], i[4]) = m.input[offset(s, i)]
  <2> DEFINE j == <<i[1], i[2], i[3], i[4]>>
  <2>1. \A k \in 1 .. 4 : k = 1 \/ k = 2 \/ k = 3 \/ k = 4
    OBVIOUS
  <2>2. \A k \in 1 .. 4 : j[k] = i[k]
    BY <2>1
  <2> HIDE DEF j
  <2>3. offset(s, j) = offset(s, i)
    BY <2>2, OffsetReads
  <2> QED BY <2>3 DEF j
<1> QED
  BY <1>2, <1>9, <1>10
=============================================================================
