# Mitvane: models, checks and proofs

TLA+ models of Mitvane, an IDS/IPS for V2X packets, of the ASN.1 codec and message
types it is built with, and of the Cohda proxy that comes with it. Paths below are
relative to the repository.

## The system

Mitvane sits between two network interfaces. `RawSocketLink` receives a frame on
the source interface and calls `IdpsContext::run`, which decodes a copy of the
packet, hands a BTP payload to an application parser, matches the signatures of
the rule file against the decoded header fields, logs, and transmits the original
packet on the destination interface unless a matching rule says drop. Everything
runs in one thread, in completion handlers of one `io_service`.

| component | state | operations | interacts through |
|---|---|---|---|
| `IdpsContext` (`mitvane/idps_context.cpp`) | signatures, port map; per frame: context, reports | `run`, `enable`, `disable` | called by the source link; calls decoder, parsers, detector, message handler, destination link |
| decoder (`mitvane/decoder`) | the `DetectionContext` of the frame, ownership of the packet | `decode_basic/secured/common/extended`, `BtpDecoder::decode` | writes the context that `run` and the detector read |
| detector (`mitvane/detector`) | none | `detect` | reads context, signatures and position fix |
| classifier, parsers | port map | `classify`, `parse` | take the payload through a raw pointer |
| message handler, logging | `detection.log` | `handle` | returns Allow or Drop |
| rule reader (`mitvane/rule_reader`) | the signatures by protocol | `read`, `read_geonet_pattern`, ... | fills the map that `main` gives to `IdpsContext` |
| links (`mitvane/raw_socket_link.cpp`) | one receive, one buffer | `do_receive`, `on_read`, `transmit` | kernel socket; callback into `run` |
| GPS provider (`mitvane/gps_position_provider.cpp`) | last fix, last report, timer | `on_timer`, `fetch_position_fix` | gpsd; read by the detector |
| ASN.1 wrappers (`vanetza-extension/asn1`) | one C structure each; the visitor its last result | `encode`, `decode`, `validate`, `PacketVisitor` | parsers give them a packet's payload |
| ASN.1 runtime (`vanetza-extension/asn1/support`) | position in the buffer, decoding context in the structure | PER and OER encoders and decoders, constraint checks | driven by the descriptors |
| ASN.1 descriptors (`asn1/its`, `asn1/pki`, `asn1/security`) | constant tables | | read by the runtime |
| `main` | the event loop, signals | start-up, `signal_handler` | owns all of the above |
| Cohda proxy (`cohda_proxy`) | two buffers, two headers, first sender | seven completion handlers | UDP socket and radio |

What is hard here: storage that is read before it is written; the ownership of the
packet copy, which passes through a raw pointer; a decoder that may stop after any
header; receives that complete and fail while a handler runs; one error that ends a
receive loop for good; a rule file that is faulty in the middle; buffers that an
operation in flight refers to; a position that changes while frames are judged;
messages that arrive cut, damaged or from a later version and that nobody
validates; bounds of 600 types that are written down three times. `PROJECT.json` lists these hazards with their lines
and the properties that cover them.

What makes the parts correct:

* `run`: verdict and log depend on the frame and the rules only; the frame is
  forwarded as received, or dropped with a log line; every payload is freed once.
* rule reader: what is loaded is the valid prefix of the file, and all of it can be
  evaluated by the detector.
* links and loop: every packet is accounted for, handlers of two frames do not
  overlap, packets are read and signals obeyed.
* GPS provider: the position is the newest one on which a read loop ended, and does
  not change during `run`.
* ASN.1: a legal message arrives unchanged, a cut one not at all, and whatever is
  decoded is within its type and can be relayed without change.
* proxy: a send in flight is not disturbed, neither chain dies or forks.

## Modules

| module | models |
|---|---|
| `GeonetDetector` | when a signature matches (`transform_nh`, `transform_ht`, the checks of `detect`) |
| `GnFrame` | frames: which headers parse, and the fields the detector looks at |
| `GeonetDecoder` | the decoder, one action per `decode_*` function, and the owner of the packet copy |
| `IdpsContext` | `run`: `run`, `Decode`, `classify`, `detect`, `handle`, `forward` in the order of the source; safety properties |
| `IdpsInvariant` | the inductive invariant of `IdpsContext` |
| `IdpsContextProofs`, `IdpsHistoryProofs` | the theorems about one frame, and about all frames so far |
| `PacketFilter` | abstract specification: one step per packet |
| `IdpsRefinement` | the mapping under which `IdpsContext` implements `PacketFilter` |
| `IdpsRefinementProofs` | the proof that it does |
| `RawSocketLink` | one link and its socket |
| `GpsPositionProvider` | timer, read loop and position of the GPS provider |
| `Mitvane` | the process: `IdpsContext`, two links, GPS provider, signal and the event loop |
| `MitvaneInvariant`, `MitvaneProofs` | the inductive invariant of the loop, and the theorems about the process |
| `RuleReader` | the reading of a rule file and `main`'s reaction |
| `RuleReaderInvariant`, `RuleReaderProofs` | its inductive invariant and theorems |
| `ProxyHandler` | the Cohda proxy |
| `ProxyInvariant`, `ProxyHandlerProofs` | its inductive invariant and theorems |
| `PerSupport` | bits, lengths and whole numbers of PER, 64-bit integers (`asn_bit_data.c`, `per_support.c`, parts of `INTEGER.c`) |
| `PerSupportProofs` | the theorems about its bits, lengths and numbers |
| `AsnDescriptors` | the vocabulary of the descriptors and the built-in types |
| `UperPrimitives` | the unaligned PER codec of the types that hold no others: BOOLEAN, INTEGER, ENUMERATED, BIT STRING, OCTET STRING and the character strings; padding, open types and CHOICE, which take the codec of what they hold as an argument |
| `UperPrimitivesProofs` | the theorems about it |
| `UperCodec` | the PER codec of SEQUENCE and SEQUENCE OF, the dispatch over the descriptors, with which open types and CHOICE call the codecs of what they hold, and the constraint checks |
| `OerCodec` | the OER codec, over the same descriptors and values |
| `ItsContainer`, `ItsPdus`, `Dsrc`, `AddGrpC` | the descriptors of the CA, DEN, CP, SPAT and MAP messages, joined in `MCAsn1` |
| `Ieee1609Dot2BaseTypes`, `Ieee1609Dot2`, `EtsiTs102941` | the descriptors of the certificates and PKI messages, joined in `MCOer` |
| `AsnNesting`, `AsnSamples` | which types have values, and which of them are tried |
| `AsnDamage` | what may happen to the octets of a message on the way |
| `PacketVisitor` | the PER wrapper of a sender, the link, and the visitor of a receiver |
| `OerWrapper` | the OER wrappers of a sender and a receiver |
| `MC*` | instances for TLC |

**IdpsContext.** `pc` is the function that runs next. `packet` is `run`'s own packet,
`copy` the one that is decoded, `owner` who owns it (`unique_ptr`, the raw pointer
`ctx.payload` after `release()`, or nobody after it was freed). A new context takes
any value of `Indeterminate` in the fields the compiler leaves uninitialised, and
without GeoNetworking rules `result` and `handle_report` are chosen the same way.
`received`, `log`, `sent` and `leaked` record what happened; frames are numbered.
`classify` covers classifier, parser and the crash through a null parser; `forward`
covers the exception of the throwing `send`. `Distance` is a constant operator.

**Mitvane.** `ready` is the queue of completion handlers. Kernel and reactor act at any
time, also between two steps of `run`; the loop executes one handler at a time.
A receive that failed leaves its link without an outstanding receive for ever.
The destination link receives too and discards what it gets.

The GPS provider is composed in: `on_timer` and `fetch_position_fix` are handlers of
the same loop, one `gpsd_read` a step, so that reports, packets and signals arrive
between two reads. Both modules share the variable `fix`; `PositionUpdate` of
`IdpsContext` is what `ImplementsIdps` shows them to do to it.

**GpsPositionProvider.** `reports` is what gpsd has sent, `read` how far `gps_read` got,
`gps_data` the report in the provider's structure (`None` for one without a fix),
`ndevices` the number of devices gpsd has answered with: the loop goes on after a
report only if there is one. `fetched` records how many reports there were when
`fetch_position_fix` last returned, `finals` which reports were the last it had read
whenever it returned.

**ASN.1.** A descriptor is a record with the kind of the type, its PER constraints (for
the certificates and PKI messages the OER constraints, too), its check function and its
members, transcribed from the generated `asn_DEF_`, `asn_MBR_`, `asn_SPC_`, `asn_PER_` and `asn_OER_` tables and `_constraint` functions of each type. A stream is a
tuple of bits, a decoder maps a stream and a position to a result (`RC_OK`,
`RC_WMORE`, `RC_FAIL`), a value and a position; a 64-bit integer is three limbs,
because TLC's integers have 32 bits. Decoders and encoders are operators, one for
each function of the runtime, with its checks in its order; loops are recursion.
Contents of 16384 units and more, which PER sends in fragments, are left out: no packet
is long enough for one. `OerNumber` and `OerFixed` attach the OER table of a type (width and sign
of a number, size of a string) to its PER table, next to which the generated code keeps
it; the value bounds that OER tables of CHOICE types also have are read by no code.
`PacketVisitor` and `OerWrapper` are the state machines around them: `allocate` fills
a structure with one of the constants `Legal` (values of the type) or `Illegal`
(values just outside its bounds), which the MC modules take from `AsnSamples`; `encode_*` turns
it into octets or throws, a visit or `decode_*` gets the octets whole, without their
last octets, with further ones, with one bit changed, or from a sender whose version
of the type has one more extension.

**RuleReader.** A YAML node is a record with its kind, text, number and entries. Each
check ends in a status code or in an exception, in the order of the source. The
prefix of rules in front of the first faulty one stays in `signatures`; `main` goes
on after a status code and exits after an exception.

**ProxyHandler.** `op` holds the state of the four asynchronous operations. Buffers and
descriptors are read when a send completes, so a handler that touched them too
early would show. Powers are integers in the units of the headers (0.1 and 0.5 dBm).
Lengths are taken modulo `SizeModulus`, which stands for 2^64: for a radio frame that
ends before its checksum does, the length wraps around, and `UdpIntact` says nothing
about the length of such a frame.

Outside the repository, and modelled from how the code uses it: vanetza's parsers
(`parse_extended` yields SHB, GBC or beacon headers; a BTP header always parses),
`is_within` (distance at most the radius), quantities that default to zero,
yaml-cpp (a subscript of a scalar throws, `as<>` throws when it cannot convert),
asio (handlers in order, one at a time), the kernel's socket queues, and libgps
(`gps_read` takes one report, answers 0 when there is none, may fail).

Definitions marked "WRONG variant" are bugs the code does not have. They replace the
definition they name to see that a property would notice.

## Runs

| run | instance | shows |
|---|---|---|
| `idps` | 2 frames out of 14, one for each path through decoder and `run`; 4 rule sets (none, several drop and alert rules, an empty pattern list); 2 contents of the stack; with and without parser | `VerdictFromFrame`, `LogExact`, `LogOrdered`, `DroppedIffLogged`, `ForwardedIntact`, `PayloadAlive`, `LeakExact`, `EndsOfRun`, the invariant `IInv`, and that `run` implements `PacketFilter` |
| `process` | 3 arrivals out of 4 frames (dropped, passed, too short, own), kernel queue of 1, 1 packet on the destination side, static position | `ArrivalsAccounted`, `EndToEnd`, `OneFrameAtATime` |
| `process_live` | 2 arrivals out of 2 frames, GPS with 2 reports (with either position or without a fix) | `PositionUpToDate`, `PositionOnlyReplaced`, that the loop keeps what `IdpsContext` promises (`ImplementsIdps`), `QueuedFrameIsRead`, `SignalStops` |
| `rules` | all files of up to 3 rules out of 29 | `PrefixLoaded`, `LoadedRulesValid`, `ExitOnlyOnConversion` |
| `proxy` | 2 messages and 2 frames, 1 failing operation | `RadioIntact`, `UdpIntact`, `ChainsAlive`, `EverythingIsRead` |
| `asn1` | every inhabited type of the V2X messages, from `BOOLEAN` to `CAM`; per type the least and the greatest value (nested up to `Depth` = 3), each alternative, each member alone, values next to the bounds on either side, numbers without upper bound up to 2^64 - 1; every cut, up to `MaxTrailing` = 2 octets added, each of the first `MaxFlips` = 16 bits and each padding bit changed | `RoundTrip`, `TruncationDetected`, `RestIgnored`, `LegalAccepted`, `ReceivedInRange`, `Relayed` |
| `oer` | the same for the types of the certificates and PKI messages, `MaxTrailing` = 3, `MaxFlips` = 24 | `OerRoundTrip`, `OerTruncationDetected`, `OerRelayed` |

Why the bounds are enough: `run` keeps nothing between two frames except its
history, so two frames show every influence of one on the next; a third in
`process` is one that arrives while the first is handled and the second is in the
buffer or queue. A rule depends on no other rule except through "an earlier one was
faulty", for which two suffice. In the proxy a second message is what could
overwrite the first one's buffer. Two GPS reports suffice for a report that is left
behind and for one without a fix after one with, in the same read loop or in the next. A codec treats a type by its kind and
its constraints alone, and every type is tried by itself, so deeper nesting adds
combinations of what is covered below; the preamble, length or tag of a type, where a
changed bit leads the decoder astray, is within the first 16 or 24 bits of its own
encoding. Types that have no
finite or no permitted value (regional extensions, whose open types the descriptors
leave empty) are left out. Deadlock is not checked where the bounds on
arrivals let the model end (`idps`, `proxy`) or the work is done (`rules`, `asn1`,
`oer`).

Five runs show a statement of the documentation or of a comment that the code does
not keep; the findings in `PROJECT.json` quote it.

| run | what the code does |
|---|---|
| `doc_ht` | `ht: TSB` matches SHB packets |
| `doc_so_range` | a range rule sees every beacon at (0,0) |
| `doc_silent_drop` | without GeoNetworking rules the verdict is an uninitialised value |
| `asn1_newer` | a message with an unknown extension is refused unless the extension's length is a multiple of three octets |
| `oer_reuse` | decoding into an OER wrapper that holds a structure returns true and keeps the old one |

### Observations

Met while modelling, visible in a single line each and therefore not given a run:

* `mitvane/detector/geonet_detector.cpp:124`: an equal maximum hop limit matches,
  README.md:92 says larger.
* `mitvane/idps_context.cpp:79`: a BTP packet for a port without parser ends the
  process; so does an exception of `send` (`mitvane/raw_socket_link.cpp:60`).
  `EndsOfRun` says for which frames, and that `run` has no third way.
* `mitvane/gps_position_provider.cpp:141`: a position that a report without a fix
  follows in the same read loop is lost; frames are judged by the one before
  (`PositionUpToDate`).
* `mitvane/rule_reader/rule_reader.cpp:194`: rules of `BTP`, `CA`, `DEN`, `MAP` and
  `SPAT` are accepted and forgotten; `pattern_reader.cpp:178`: `allowed_ids` is never
  read.
* `mitvane/main.cpp:159`: `--print-rx-cam` has no effect, CAMs are printed with
  `--print-rx-denm`.
* `asn1/support/constr_SEQUENCE.c:1065`: the check of a SEQUENCE ends with the first
  member that has no check of its own; `validate` therefore accepts structures that
  `encode_per` refuses. `LegalAccepted` is the half that holds.
* `Psid_constraint` of `asn1/pki` and `asn1/security` calls itself for ever.
* `asn1/support/BIT_STRING_oer.c:157`: the loop that fills a short bit string of fixed
  size with zeros does not end (`OerRoundTrip`: no legal value gets there).
* `asn1/support/NativeInteger_oer.c:87`: `asn_ulong2INTEGER` takes an unsigned number for
  a signed one, so a `Psid` of 2^63 or more, which the decoder accepts, is refused by the
  encoder. `OerRoundTrip` names this exception.
* `asn1/support/constr_SET_OF.c:974`: `consumed` is 0 for elements of constructed types,
  so that a list of more than 200 of them is refused.
* `asn1/asn1c_wrapper.cpp:170`: `size_oer` divides octets by 8.

### Fairness

`Mitvane`: weak fairness of the loop (`io_service::run` executes what is queued) and
of the completion of a source receive for which a packet is there. Nothing is
assumed of arrivals, errors, the timer, gpsd or signals. That reports are bounded by
`MaxReports` is an assumption for `SignalStops`: gpsd falls silent long enough for the
read loop to end, as it does with receivers that report once a second. `ProxyHandler`: weak fairness of
the handlers of each chain (asio runs ready handlers in order), of receives with
something to receive and of sends; errors end at `MaxErrors`.

## Proofs

TLC checks small instances; the theorems below hold for every value of the constants
that satisfies the assumptions named in the modules. Each invariant was checked with TLC
on the instances of the runs before it was proved (`IInv` is part of run `idps`;
`LoopInv`, `ProxyInv` and `ReaderInv` can be added to `process`, `process_live`, `proxy` and
`rules` as further invariants).

| module | theorem | states |
|---|---|---|
| `IdpsContextProofs` | `TypeCorrect`, `VerdictCorrect`, `LogCorrect`, `ForwardingCorrect` | `Spec => []P` for `TypeOK`, `VerdictFromFrame`, `LogExact`, `ForwardedIntact` |
| | `MatchesIffAllDetected`, `DestinationAreaNeverMatches` | what the counting in `detect` amounts to, and that a rule with `destination_area` is dead |
| `IdpsHistoryProofs` | `Inductive`, `LogOrderCorrect`, `DropCorrect`, `PayloadCorrect`, `LeakCorrect`, `EndsCorrect` | `Spec => []P` for `IInv`, `LogOrdered`, `DroppedIffLogged`, `PayloadAlive`, `LeakExact`, `EndsOfRun` |
| `IdpsRefinementProofs` | `Refinement` | `Spec => ImplementsFilter` |
| `MitvaneProofs` | `RunRefinement` | `Spec => ImplementsIdps` |
| | `ProcessKeepsRun` | the properties of `run` above hold in the process |
| | `TypeCorrect`, `ArrivalsCorrect`, `EndToEndCorrect`, `OneFrameCorrect`, `PositionCorrect` | `Spec => []P` for `TypeOK`, `ArrivalsAccounted`, `EndToEnd`, `OneFrameAtATime`, `PositionUpToDate` |
| | `PositionStepCorrect` | `Spec => PositionOnlyReplaced`, an action property |
| `ProxyHandlerProofs` | `TypeCorrect`, `RadioCorrect`, `UdpCorrect`, `ChainsCorrect` | `Spec => []P` for `TypeOK`, `RadioIntact`, `UdpIntact`, `ChainsAlive` |
| `RuleReaderProofs` | `TypeCorrect`, `PrefixCorrect`, `ValidCorrect`, `ExitCorrect` | `Spec => []P` for `TypeOK`, `PrefixLoaded`, `LoadedRulesValid`, `ExitOnlyOnConversion` |
| `PerSupportProofs` | `RebaseInverse`, `UnrebaseInRange` | a constrained INTEGER is rebased without loss, and nothing beyond its bounds gets in |
| | `FewBitsRoundTrip`, `LengthRoundTrip`, `NsnnwnRoundTrip`, `NslengthRoundTrip`, `ConstrainedNumberRoundTrip`, `SignedIntegerRoundTrip` | what the encoder writes of a number or a length the decoder reads, at any place of any stream, and notices when bits are missing |
| | `ConstrainedNumberCanonical` | whatever bits arrive, what is accepted is in the range and is sent on as the same bits |
| `UperPrimitivesProofs` | `BooleanRoundTrip`, `EnumRoundTrip`, `IntegerRoundTrip`, `BitStringRoundTrip`, `OctetStringRoundTrip` | the same for the values of the primitive types, for every descriptor; which values can be sent |
| | `EnumAccepted`, `IntegerAccepted` | whatever bits arrive, only items of the enumeration and numbers of the range are accepted |
| | `PaddingAccepted` | the filling of an encoding to whole octets is accepted as padding |
| | `OpenTypeRoundTrip`, `ChoiceRoundTrip`, `ChoiceAccepted` | the same for open types and CHOICE, whatever they hold; an accepted CHOICE is one of the alternatives |
| | `UnknownSkipped` | which unknown extensions can be skipped: those of a multiple of three octets |

### run

Assumptions: `FramesAssumption`, `DecoderAssumption` (frames and contexts have the fields
the model gives them) and `RulesAssumption`, which is what `ValidCorrect` shows the rule
reader to guarantee. Any number of frames, rules, ports, positions and parsers.

The properties speak of the moment before forwarding, or of frames long past, so they
are not inductive. `IInv` carries the argument along `pc`. Its first half, `RunInv`:
`DecodeInv` says which headers are known to
parse and which fields of the context are already those of the packet; `DetectInv`
that the loop has found exactly the matching signatures it has looked at;
`HandleInv` and `LogInv` the same for report and log; `SentInv` that the number of
the frame at hand is larger than any number sent. At `forward`, `DecodeInv` and
`DetectInv` together with `MatchesSameData` (the detector reads four fields only) turn the
matched signatures into those that match the frame itself. The second half,
`HistoryInv`: `OwnerInv` follows the packet copy from function to function and says when
the raw pointer is left over; `ParserInv` says that no frame without a parser gets past
`classify`, which with `LogInv`, `HandleInv` and `SentInv` gives `EndsOfRun`; `OrderInv` that `matched` is increasing, which orders the log
lines of a frame; `PastInv` is what the end of `run` has settled for all earlier frames,
and its proof consists in showing that no later step touches them. Each part has a
lemma with one step per action.

`Refinement` maps a frame that is being worked on to one that has not been seen by
`PacketFilter` yet. Every step but the last one of a frame stutters; the last is
`Pass`, `Filter` or `Ignore`, and what `VerdictFromFrame` and `LogExact` say about it is what
the abstract step demands.

### The process

`MitvaneAssumption` adds that the bounds are numbers. `RunRefinement` is shown first: a step
of a link, the loop, gpsd or a signal either is a step of `IdpsContext` or leaves its
variables alone. The theorems about `run` therefore hold in the process (`ProcessKeepsRun`),
and `EndToEndCorrect` uses `ForwardedIntact` through this refinement. The rest follows from
`LoopInv`: `LinkInv` says that `on_read` is queued at most once and only when the receive
has ended (without it two handlers of one link could overlap), `ArrivalOrderInv` that
numbers increase from what was handled over the buffer to the queue, `ReceivedInv` that
`run` was called with what arrived, `GpsInv` that `gps_data` is the report read last
and that no read loop ended on a later one: the report on which a loop ends is therefore
the newest of the final ones (`StoreNewest`).

### The proxy

`SizesAssumption`: sizes are numbers smaller than `SizeModulus`, powers are integers, a
sender is not the null endpoint. `ProxyInv` says what each outstanding operation refers to:
while a send to the radio is outstanding, buffer and descriptor are those of the message
that is next (`RadioInv`), and no message that was sent is beyond the buffer;
`DeliveredInv` is the same for the other direction; `UdpQueueInv` and `OtaQueueInv` say that
arrivals are taken without a gap; `ChainInv` that of the two operations of a chain exactly
one is outstanding; `SenderInv` that `m_udp_receiver` is set by the first receive or never,
which is why the replies go to the first sender and why a failed first receive leaves
the radio chain unstarted for ever.

### The rule reader

`FilesAssumption` only says that a file is unreadable, broken or a list of rules; the rules
are any nodes, and `tolower` is any operator. The lemmas on outcomes say what each
reader returns and what is known of a node that was read without an error. `ReaderInv`
says that the rules before the counter are faultless and that the stored signatures are
those of the GeoNetworking rules among them (`StoredInv`), and why the reading ended
(`StatusInv`); `PrefixLoaded` does not follow from itself, because it does not say what was
stored.

### Numbers of the codec

A 64-bit number is three limbs in the model. `CarryValue`, `PlusMinusValue`, `LessIsOrder`
and `ValueInjective` show that limbs compute what the numbers compute; `RebaseInverse` and
`UnrebaseInRange` rest on them and on nothing else.

`BitsOf` and `NumberOf` are the conversions between numbers and bits. That they are
inverse to each other, and that a number of n bits is below 2^n, is an induction over n.
The library's induction theorems cannot be applied, since they take the statement as a
parameter; the lemmas state it as a set of naturals instead and argue with its least
element (`LeastNumber`), which is first-order. From there every function of the encoder gets
one lemma for what it appends (`Output(a)` becomes `Output(a \o x)`), and every function of
the decoder two: what it answers where x lies in the stream (`At`) and where the
stream ends within x (`CutAt`). A round trip is the first lemma followed by the others, so
each theorem holds behind any bits `a`, in front of any bits `rest`, and for every cut.

The boundaries that come out are those of the code. `NsnnwnRoundTrip` is exact: an index
up to 63 comes back, every larger one that is sent is read as 0 or 1, because
`uper_put_nsnnwn` leaves out the bit that announces the long form. `NslengthRoundTrip`:
the same fault keeps bitmaps of more than 64 extensions from being read as what they
were. No enumeration of the messages has so many items (`DescriptorsFit` below).

### Primitive types

The theorems hold for every descriptor whose constraints fit: the width of a number
holds its range, a size has at most 16 bits, an enumeration at most 64 added items, the
codes of the characters fit into their bits, the root of a CHOICE ends where its extensions
begin (`IntegerFits`, `SizeFits`, `EnumFits`, `StringFits`, `ChoiceFits` of `UperPrimitives`). `UperCodec` assumes this of all descriptors and members it
is given (`DescriptorsFit`), and TLC evaluates the assumption for all generated types in
the runs `asn1` and `oer`. Strings have less than 16384 units, as everywhere in the model.

* `IntegerRoundTrip`: which values are sent is `IntegerSent`: those of the range, all others if the
  type is extensible, and without a range those above a lower bound of zero (a
  semi-constrained type with any other bound is refused by the encoder). The
  hypothesis `Held` is what the C type of the field can hold.
* `BitStringRoundTrip`: what arrives is equal to what was sent up to zeros at the end, which
  `BIT_STRING__compactify` takes off; for a string of fixed size they are put back.
* `OctetStringRoundTrip` covers the three ways to send a character (as it is, relative to the lower bound,
  by its place in the alphabet), inside and outside of the root of the size.
* `EnumAccepted`, `IntegerAccepted`: nobody validates what was received, so the decoder alone
  keeps values outside of the type from the application. `IntegerAccepted` also says that
  the encoder writes the very bits that were read. It speaks of signed numbers with
  a range: the decoder does not check unsigned ones. The only unsigned type of the messages has
  a range of 32 full bits, where there is nothing to check.

These are the cases of `RoundTrip`, `TruncationDetected`, `ReceivedInRange` and `Relayed` in
which the recursion of the codec ends.

### Open types and CHOICE

Their codecs call the codec of another type. In `UperPrimitives` that codec is an argument
(`OpenTypePut`, `OpenTypeGet`, `ChoiceEncode`, `ChoiceDecode`; `uper_open_type_put` and the others of `UperCodec`
are these with the whole codec for it), and the theorems hold for any two operators `Enc` and `Dec` that do for one value what the primitive types
do for theirs: `Enc` appends bits `x` to any output, `Dec` returns the value wherever `x` lies and
is starved where the stream ends within `x` (`Reads`). The conclusion has the same form for the bits of the
open type (`OpenBits`) or of the CHOICE (`ChoiceBits`), so that the theorems can be applied again to what is
nested: they are the steps of an induction over types, of which the primitive types are
the base.

* `OpenTypeRoundTrip`: the contents are decoded from a buffer that is longer than what was
  encoded, so the argument needs that `Dec` stops behind `x` and that the filling passes
  `PaddingValid`, also for a value without bits. The contents have less than 16384 octets.
* `ChoiceRoundTrip`: the mark, the index (constrained in the root, normally small behind
  it) and the value or its open type, one behind the other (`ReadsBehind`).
* `ChoiceAccepted`: the decoder compares the index with the upper bound of the constraint and
  then uses it as an index of the members; `ChoiceFits` is what makes this safe.
* `UnknownSkipped` says for every length what the run `asn1_newer` shows for one: the decoder of an
  unknown extension takes three octets at a time, and the check of the filling refuses what is
  left of one octet or two, unless the extension is a single zero octet.

### Only model-checked

* Liveness: `QueuedFrameIsRead`, `SignalStops`, `EverythingIsRead`. The prover does not handle
  fairness and ENABLED.
* The properties of `PacketVisitor` and `OerWrapper`. The codecs of the types call
  each other through the descriptors; the dispatch (`uper_encoder`, `uper_decoder`) and the loops of
  SEQUENCE and SEQUENCE OF are RECURSIVE operators, with which the prover cannot work, and
  the properties would need an induction over types and values. TLC checks them on
  samples of every type; for PER the theorems above cover the primitive types, open types and
  CHOICE. The modules with theorems reach no RECURSIVE
  operator.
* OER: its primitive types are in the same module as its recursive ones.

## Not modelled

* ASN.1: BER, DER and XER (only `copy()` of the wrappers uses DER) and with
  them BER tags; aligned PER; runtime types that no descriptor uses (`REAL`, `SET`, `ANY`,
  times, object identifiers); random filling and comparing; allocation failures and
  the stack limit; `start_deserialization_at`; continuing an OER decode that ended with
  `RC_WMORE` (the wrappers never do); types whose encoding has no bits.
* Printing of messages and the helpers in `vanetza-extension/facilities`, Boost.Log's
  configuration, the ioctl calls of `EthernetDevice`: output or pure I/O.
* `BtpDetector`: a header without implementation.
* Option parsing and the creation of links, provider and parsers: they run once, before
  the loop; their outcomes are constants (`UseGps`) or choices of `Init`.
* `CohdaLink`: compiled only with the Cohda SDK, whose header formats are not in the
  repository.
* Source and destination on the same interface, the default of the options: whether a
  packet socket sees what another one sends is up to the kernel.

## Further work

* The primitive types of OER could be proved about like those of PER, in a module of
  their own.
* The theorems on primitive types, open types and CHOICE are base and steps of an induction
  over descriptors. Its steps for SEQUENCE and SEQUENCE OF need their loops as recursive functions, with
  the codec of the members as an argument.
