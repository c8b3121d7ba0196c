# TLA+ models of the flare RPC form page (forms.js)

`src/flare/rpc/protocol/http/builtin/resources/static/forms.js` is the page that
flare's builtin HTTP handler serves to call an RPC method from a browser. It
fetches the method's request descriptor by reflection. It builds an editable
tree of form elements from that descriptor, and the user edits the tree. It
then reads the tree back into a JSON message and POSTs it.

## Parts of the system and how they interact

| Part | Code | State | Operations |
|---|---|---|---|
| Descriptor Registry | `createForm` (1133-1180), `toUnqualified` | `messageDescriptors`, `enumDescriptors`, `comments`, `requestTypeName` | filled once from the reflection response |
| Type Parser | `parseInterger32/64`, the `TypeParser` table (94-311) | none (pure) | one parser per field type, in both descriptor spellings |
| Tree Builder | `buildMessageForm`, `buildFieldForm`, `buildIndividualForm`, the field builders, `toggleInput`, `inputChanged`, the expand, `+` and `-` handlers, `resetForm` (315-761, 971-1053) | the `FormElement` tree under `root_form`: `enabled`, `fields`, `input`, `checkbox`, the expand button | checkbox click, input edit, expand, add item, delete item, reset |
| Value Extractor | `fromMessageForm`, `fromRepeatedForm`, `fromIndividualForm` (832-895) | `failed_messages`, `first_failed_input` | read the tree into a message and a list of failures |
| Request sending | `sendForm`, `sendRequest`, `handleRequestError` (341-411, 908-963) | the global `send_button`, the in-flight `$.ajax` calls | send, success callback, error callback |
| Text mode and encodings | the mode switch in `createForm` (1164-1173), the CodeMirror editor, `buildEncodingForm` | `g_activeMode`, the editor text | switch mode |
| Presentation | `hideForm`, `toggleForm` (1106-1127), `htmlEscape` (767-779), `formatJSON`, `showServices` | `#form-panel` visibility, DOM | hide, toggle, escaping, rendering |

They interact as follows:
- the registry feeds the builder;
- the builder creates the input elements that the parsers read;
- the extractor walks the tree and calls a parser for each enabled leaf;
- `sendForm` runs the extractor and, if nothing failed, starts a request whose callbacks re-enable the send button.

Everything runs on the browser's single event loop. The concurrency is therefore the order of user events and of AJAX callbacks, not threads.

The descriptor spells types and labels either as numbers (`FIELD_TYPE`) or as
strings (`FIELD_TYPE_STRING`). Every comparison in the code is meant to accept
both spellings.

## Modules

- **TypeParser.tla**: the parsers as pure operators, with no variables.
  - Texts are sequences of one-character strings.
  - `$.trim`, `toLowerCase`, the regexes, `isFinite`, `Number`, `parseInt` and JS string order (`StrLess` over char codes) are modelled by what they do.
  - `ParseInterger32` and `ParseInterger64` follow the code's checks in the code's order.
  - `TypeParserNum` and `TypeParserStr` are the two halves of the table exactly as assigned. The string half has no `INT64` key, and `SINT64`/`SFIXED64` are `undefined`.
  - `TypeParse(key, …)` dispatches on a spelled type. A missing parser is the TypeError `"is not a function"`.
  - `SetDefautValue` is `setDefautValue` (439-444): the decoded default, or the raw default when decoding throws. `DecodeURIComponent` is a model of the browser builtin `decodeURIComponent`, as ECMAScript defines it. It is not repository code and no property is about it; it is there so that a default is converted by what the conversion does. A `%` must start an escape `%hh` with hex digits in either case. A byte below 80 is a character. A higher byte must lead a well-formed UTF-8 sequence of escaped bytes: no overlong form, no surrogate, nothing past U+10FFFF. Anything else is a URIError, and `SetDefautValue` then keeps the raw default. The model knows one character beyond ASCII, `NonAscii` (U+00E9, bytes C3 A9). Every other decoded character is the stand-in `OtherChar`.
- **TextEscape.tla**: `htmlEscape` as `HtmlEscape`, six whole-text replacements applied in the code's order. Character references are written character by character, because the order bug it guards against is a re-escaping of those characters.
- **MCTypeParser.tla**: one state per text of up to `MaxTextLen` characters over a small alphabet. The limits are scaled down:
  - INT32 is −8..7 and UINT32 is 0..15;
  - the 64-bit limit texts are `"-8"`, `"7"` and `"15"`;
  - the hex limits are `"0x7"` and `"0xf"`;
  - the hex length cap is 3 (the literal 18 is the length of the real hex limits);
  - `Number.MAX_VALUE` is 99.

  The alphabet also holds `&`, `<` and `'`, characters that `htmlEscape` rewrites. The reference against which escaping is checked is in this module: `HtmlText(h)`, the text the HTML tokenizer reads from `h`, with its character references resolved.

  With these limits every case of the real check is reachable: a text at the limit, one past it, a longer text, leading zeros, upper-case hex, blanks and a non-finite value.
- **FormTree.tla**: the tree, its handlers and extraction.
  - The tree is an arena keyed by paths: `forms` maps a path to a FormElement record. The i-th field of a message at `p` is `p \o <<i>>`, an item of a repeated field `c` is `c \o <<k>>` for a free `k`, and `form.parent` is `Front(p)`.
  - Builders are recursive operators returning `[els, ok]`, where `ok = FALSE` is a thrown TypeError that aborts every enclosing build.
  - The actions are the user events: `ClickCheckbox`, `EditInput`, `Expand`, `AddRepeatedFieldItem`, `DelRepeatedFieldItem` and `Reset`. Each includes everything its handler does: `click().change()` and `toggleInput` inside `Expand`, and `inputChanged` and `toggleInput` inside `EditInput`.
  - An item's `delButton` records that its "-" button is on the page. `buildFieldForm` attaches that cell only after the item's build (line 731), so an item whose build threw can never be deleted.
  - `GetFieldFullname(n)` is `getFieldFullname`: the names of the fields on the way up from `n` to the root form. An item carries its container's field, so that name appears twice. Each failure in `errs` carries this name.
  - Extraction is one recursive operator, `FromForm(n)`, over the kind of element: a repeated field reads every item, a message its enabled fields (`FromFields`), a scalar is parsed. `FromForm(Root)` returns `[thrown, val, errs]`, which is what `sendForm` would see.
  - Two variables are fixed in Init and left free:
    - `spelling`: which spelling the descriptor uses;
    - `eachUndefined`: whether the jQuery build throws on `$.each(undefined)` or iterates nothing.
- **MCFormTree.tla**: the `Req` schema.
  - `Req` has these fields, declared out of number order so that `resetForm`'s sort matters:
    - a REQUIRED int32 whose default is the escape `%35` (decoded to `5`);
    - a REPEATED int64;
    - an OPTIONAL string;
    - an OPTIONAL message `Sub`, with an enum with a default;
    - a REPEATED message `Half`, whose type has a repeated int32 and then a REQUIRED message of the unregistered type `Missing`. Adding an item pushes it, pushes the item's first field, and then throws (lines 625, 752-758). The item stays in the list half-built and without a "-" button, and later extractions read it.

  Bounds:
  - `MaxItems = 2` reaches deleting the first of two items (the middle of the list);
  - `MaxDepth = 2` allows one expand of `Sub` and one add to each root-level repeated field (a repeated field inside an item is at depth 3 and stays empty);
  - the texts are empty, valid and invalid.
- **FormSession.tla**: the page around the tree. It EXTENDS FormTree and adds the session state:
  - `mode` (`g_activeMode`);
  - `cur`, the Send button of the panel now, numbered by the `resetForm` that built it;
  - `buttons`, each button's `disabled` flag;
  - `sendButton`, the global `send_button`;
  - `pending`, the `$.ajax` calls in flight, as a set of records `[id, btn, nonEmpty]`;
  - `sent`, `shown` (the request whose answer `#form-response` shows), `inputError` and `visible`;
  - `expanderShown`: `#form-expander` is on the page. `resetForm` hides it in form mode for a request type without fields (line 1051), and nothing shows it again.

  Actions, each a whole handler or callback:
  - `TreeStep`: a FormTree event on the visible form;
  - `SendForm`: `sendForm` with `FromForm(Root)`, including the thrown extraction, the input-error branch (stopped by the ReferenceError at line 923) and the text-mode send;
  - `Deliver(r, kind)`: the answer to `r` arrives, in any order. Success runs `OnSuccess`, which re-enables `send_button`, shows the answer and calls `hideForm` for a non-empty request. An error runs `HandleRequestError`, where a non-JSON body labelled JSON throws before the button is re-enabled;
  - `ResetButton` and `SwitchMode`: `resetForm`, which rebuilds the tree and adds a new enabled Send button, but leaves `send_button` and the requests alone. When the root build throws in form mode (`PanelBuilt` is false), the panel keeps the part of the tree built so far and gets neither a Send nor a Reset button. `buttons` then has no entry for `cur`. The expander is not hidden, since line 1051 is never reached;
  - `ToggleForm`, possible only while the expander is shown.
- **MCFormSession.tla**: two request types.
  - `Page` has four fields:
    - a repeated int32, whose items can fail to parse;
    - an optional message of the empty type `Empty`, which exercises the `$.each(undefined)` behaviours;
    - an optional message of an unregistered type, so that expand throws in the middle of its handler;
    - a repeated message of an unregistered type, so that adding an item throws after the push.
  - `Empty` is also used on its own, as a request type without fields.

  Bounds:
  - `MaxItems = 1` and `MaxButtons = 3`;
  - `MaxRequests = 2`, which is enough for a request to survive a reset (or two) and a newer one to be sent after it, in both modes. A third request adds no new order of callbacks, and at 3 the pass run takes over 2.5 minutes.

## Runs

| Run | Expect | What it shows |
|---|---|---|
| parser_pass | pass | `Int32MeetsSpec`: a text of the signed or unsigned lexical form is accepted with its value iff the value is in range, and is otherwise "out of range". A signed text given to UINT32 is "is invalid". `Int64NeverAcceptsOutOfRange`: the lexical 64-bit check never accepts an out-of-range text and returns the lowercased text itself. `EscapedTextShown`: `htmlEscape` output contains no `<`, `>`, `"` or `'`, and the page shows the text itself, with blanks as no-break spaces. (41371 states) |
| parser_leading_zero | violation | `Int64AcceptsInRange` fails on `"00"`: in-range texts with leading zeros are rejected because they are longer than the limit. |
| parser_spelling | violation | `SpellingsAgree` fails: line 245 leaves the string-spelled INT64, SINT64 and SFIXED64 without a parser. |
| formtree_pass | pass | The `Req` schema under every order of events, with both spellings and both jQuery behaviours. `ChildListsConsistent`: every live element is in its parent's list exactly once, and every list entry is a path under its element, including after an add whose build throws half-way. `TypeOK` (fields lists hold live nodes only) is what rules out dead entries. `ExtractionReportsEveryFailure`: when extraction returns, it reports exactly the failing leaves it reads, once each, in document order. Document order is defined from the rows, not from the extraction's recursion: the first element the two paths share decides, by the order of its fields list. (151200 states) |
| formtree_required_disabled | violation | `RequiredFieldsEnabled` fails in the initial state: the crossed comparison at line 713 gives REQUIRED fields a checkbox and starts them disabled. |
| formtree_unexpanded_enabled | violation | `EnabledMessageFieldsBuilt` fails after a single click on the optional `sub`'s checkbox: the field is enabled with no sub-tree. |
| formtree_expand_after_check | violation | `ExpandEnablesField` (an action property) fails: after the optional `sub`'s box is checked, `Expand` clicks the box (line 488), which unchecks it, so the expanded field is disabled. |
| session_pass | pass | On `Page`, answers are successes or errors with well-formed bodies. (175284 states) `SendButtonReenabled`: a disabled Send button with a request in flight is eventually enabled again, or replaced by a reset. |
| session_input_error | violation | `InputErrorsReported` (an action property) fails after an item is added to `r` and the form is sent. Two things go wrong in that one send. The failure is shown as `r.r`, not under the field's path `r`, so two failing items get the same name. And the ReferenceError at line 923 leaves the Send button disabled with nothing in flight. |
| session_stale_response | violation | `StaleAnswerIgnored` fails with the sequence send, reset, send, then the first answer arrives. The old answer re-enables the new button while the new request is in flight, shows itself as the response and hides the new form. |
| session_panel_lost | violation | `PanelCanBeShown` fails for the request type `Empty`: the expander is hidden at the first build, and a send whose answer arrives hides the panel with no way back. |
| session_malformed | violation | `SendButtonReenabled` fails when an error body labelled JSON is not JSON: `$.parseJSON` at line 353 throws before the button is re-enabled. |

Every action fires in one of the two passing tree runs. So do both branches of `Expand` (success in formtree_pass, failure in session_pass) and both branches of `EditInput` (with and without a checkbox). In session_pass, every FormSession action fires:
- all three outcomes of `SendForm` (thrown, input errors, sent) and both modes;
- both branches of `OnSuccess`.

Each property of a passing run has a mutant in PROJECT.json that breaks it:
- a lower bound made exclusive;
- `htmlEscape` replacing `&` last;
- the hex cap off by one;
- delete without the splice;
- add reusing a taken item identity;
- extraction ignoring `enabled`;
- a repeated field's failures collected from the last item;
- the success callback not re-enabling `send_button`.

## Fairness

`SessionSpec` assumes weak fairness of `Deliver` only. `$.ajax` is called without a timeout, but a request still ends in its success or error callback once the server answers or the browser gives up on the connection. The event loop then runs that callback.

User events (edits, send, reset, mode switch, toggle) are not fair, because nothing obliges a user to act. That is why `SendButtonReenabled` allows the button to be replaced by a reset instead of being re-enabled. FormTree and TypeParser assume no fairness.

## Refinement

No refinement is checked. An earlier version mapped the page to an abstract transport (every request answered once, eventually). It held by construction: only a send adds to the requests in flight and only a delivery removes one, and the transport's liveness was the weak fairness assumed on delivery. So it said nothing about `forms.js`. The abstract specification worth having is one for extraction (see Open work).

## Not modelled, and why

- The texts of error messages: a failure is the failing node, its full name (as a sequence of field names) and the parser's error.
- `formatJSON` (789-822) is never called. The comment tooltip (line 676) passes `htmlEscape`'s output to `.attr('title', …)`, which takes text, not HTML. A comment with a blank or a `<` is therefore shown with literal `&nbsp;` or `&lt;`. No run checks this, because it is visible at a glance and no run is left.
- DOM layout, tooltips, comments, `showServices`, the CodeMirror editor and `buildEncodingForm`: these are rendering. The encoding selects and the beautify checkbox build a query string `qs` that `sendForm` never sends (line 953 leaves `+ qs` in a comment), so they change no request. The text mode is kept only as a mode in which the editor text, empty or not, is sent.
- An expand that throws (line 485) is modelled, and it fires in session_pass on `Page`'s optional message of a missing type. No property covers it, though. The list stays consistent, and the harm is that a later checkbox click enables a message with no fields, which is sent as `{}`. The code reports nothing (the TypeError escapes the click handler), so no report exists for a property to compare against. Adding such a field to `Req` as well made formtree_pass too large.
- No schema has a root type whose build throws. `ResetPanel`'s no-button branch for that case follows lines 1000-1052, but no run reaches it.
- `createForm`'s filling of the registry: the registry is given as constants. The reflection callback writes `messageDescriptors`, `enumDescriptors` and `comments` once, before any other handler exists: the panel, its buttons and the mode-switch handler are all created by that callback. The registry is therefore constant over every behaviour the model explores. `SessionInit` is the state right after the callback's `resetForm`. The model assumes that the request type is in the registry. For a server that answers reflection for its own method this always holds, so `resetForm`'s "No such message-type" branch (lines 983-987) is left out.
- Lost answers: `$.ajax` always ends in a callback, so no answer is dropped.

## Open work

1. **An abstract extraction specification.** Map the tree to the message it denotes per spec 6 (output value), and check FormTree's extraction against it where the code agrees.
2. **Larger instances.** Run the tree with `MaxItems = 2` on `Page`, and the session with a third request, if a smaller tree schema keeps it within the time budget.
