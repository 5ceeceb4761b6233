\* One line is enough: an error of the HTTP contract that an llm tool renames.
CONSTANT MaxMessages = 1
SPECIFICATION Spec
INVARIANT ErrorsAreMirrored
CHECK_DEADLOCK FALSE
