\* Every prefix of the encodings of 42 messages.  A parse ends when the
\* message is read or a read underflows: a final state is not an error.
CONSTANTS
    Messages <- MCMessages
SPECIFICATION Spec
INVARIANT DecodesWhatWasEncoded
INVARIANT UnderflowOnlyOnTruncation
CHECK_DEADLOCK FALSE
