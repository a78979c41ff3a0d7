\* A space of 32 sequence numbers; a window of 9 bytes; a stream of 10, so that some
\* captures fall outside the window.  One starts just before the numbers wrap.  Of the
\* streams with at most two messages, the second is reported from inside the stream.
CONSTANTS
    SeqSpace = 32
    max_stream_bytes = 9
    NoSeq = NoSeq
    StartSeqs = {0, 28}
    Pieces <- Sendings
    StreamLength = 10
    FrameSizes <- Sizes
    Radix = 4
    MinLength = 1
    max_messages = 2
    MaxCaptured = 3
SPECIFICATION Spec
INVARIANTS StreamExact MessagesExact
CHECK_DEADLOCK FALSE
